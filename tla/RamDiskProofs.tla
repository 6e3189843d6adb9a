---------------------------- MODULE RamDiskProofs ----------------------------
(***************************************************************************)
(* The invariants of the RAM disk driver, for every address space, every   *)
(* size of a block and of a page, all requests and all memory maps, and    *)
(* whatever step of a registration fails.                                  *)
(***************************************************************************)
EXTENDS RamDisk, TLAPS

(* The request in progress can be a disk, and what is registered is what   *)
(* RamDiskInitBlockIo made of the request.                                 *)
RequestInv ==
  /\ map \in Maps
  /\ pc \in Steps => call \in Disk
  /\ \A c \in DOMAIN handles : handles[c] = RamDiskInitBlockIo(c)

Base == {"private", "path", "protocols"}

(* What is held before each step. *)
HeldInv ==
  /\ pc \in {"acpi", "driver", "panic", "private"} => held = {}
  /\ pc = "node" => held = {"private"}
  /\ pc = "path" => held = {"private", "node"}
  /\ pc = "install" => held = {"private", "node", "path"}
  /\ pc = "connect" => held = Base \cup {"node"}
  /\ pc \in {"size", "map", "ssdt", "nfit"} => held = Base
  /\ pc \in {"getmap", "search"} => held = Base \cup {"map"}
  /\ pc = "table" => held = Base \cup {"nfit"}
  /\ pc = "error" => held \in {{"private"}, {"private", "node"}, {"private", "node", "path"},
                               Base \cup {"node"}}
  /\ pc = "idle" => held \in {{}, {"protocols"}, Base}
  /\ pc \in Steps \cup {"idle"} /\ {"private", "protocols"} \subseteq held => call \in DOMAIN handles

-----------------------------------------------------------------------------
(* A request that passes the checks lies within the address space. *)
LEMMA CheckedIsDisk ==
  ASSUME NEW c \in Calls, RegisterCheck(c) = "SUCCESS"
  PROVE  c \in Disk
<1>1. c \in [base : Addr, size : Addr, type : BOOLEAN, path : BOOLEAN] /\ Limit \in Nat \ {0}
  BY RamDiskAssumption
<1>2. /\ ~ (c.size = 0 \/ ~ c.type \/ ~ c.path)
      /\ ~ (c.size % Block # 0)
      /\ ~ (c.size >= UINT64_MAX \/ c.base > (UINT64_MAX - c.size) + 1)
  BY Zenon DEF RegisterCheck
<1>3. c.base \in Addr /\ c.size \in Addr
  BY <1>1
<1>4. c.size > 0 /\ c.base + c.size <= Limit
  BY <1>1, <1>2, <1>3 DEF Addr, UINT64_MAX
<1> QED  BY <1>2, <1>4 DEF Disk

-----------------------------------------------------------------------------
(* Types *)

TypeInv == TypeOK /\ RequestInv

LEMMA InitType == Init => TypeInv
<1> SUFFICES ASSUME Init PROVE TypeInv
  OBVIOUS
<1>1. /\ call = NoCall /\ held = {} /\ DOMAIN handles = {} /\ dangling = {} /\ growth = 0 /\ mapSize = 0
      /\ pc = "acpi" /\ map \in Maps /\ mem \in Images
  BY DEF Init
<1>2. Len(map) \in Nat /\ MaxGrowth \in Nat /\ mem \in [Addr -> Value]
  BY <1>1, RamDiskAssumption
<1>3. TypeOK
  BY <1>1, <1>2 DEF TypeOK, MapNeed
<1>4. RequestInv
  BY <1>1 DEF RequestInv, Steps
<1> QED  BY <1>3, <1>4 DEF TypeInv

(* A step of a registration that leaves the request, the disks and the     *)
(* memory alone.                                                           *)
LEMMA PlainType ==
  ASSUME TypeInv,
         UNCHANGED <<call, handles, dangling, mem, map, growth>>,
         pc' \in {"acpi", "driver", "idle", "panic"} \cup Steps,
         pc' \in Steps => pc \in Steps,
         held' \subseteq {"private", "node", "path", "protocols", "map", "nfit"},
         mapSize' \in 0 .. MapNeed
  PROVE  TypeInv'
BY DEF TypeInv, TypeOK, RequestInv, MapNeed

LEMMA NextType == TypeInv /\ [Next]_vars => TypeInv'
<1> SUFFICES ASSUME TypeInv, [Next]_vars PROVE TypeInv'
  OBVIOUS
<1> USE DEF Steps
<1>0. /\ mapSize \in 0 .. MapNeed /\ MapNeed \in Nat /\ growth \in 0 .. MaxGrowth
      /\ Len(map) \in Nat /\ map \in Maps /\ MaxGrowth \in Nat
      /\ held \subseteq {"private", "node", "path", "protocols", "map", "nfit"}
  BY RamDiskAssumption DEF TypeInv, TypeOK, RequestInv, MapNeed
<1>1. CASE UNCHANGED vars
  BY <1>1, <1>0, PlainType DEF vars, regVars, nfitVars, TypeInv, TypeOK
<1>2. CASE AcpiLoadDriver \/ RDEntryPoint
  BY <1>2, <1>0, PlainType DEF AcpiLoadDriver, RDEntryPoint, regVars, nfitVars
<1>3. ASSUME NEW c \in Calls, RegisterCall(c) PROVE TypeInv'
  <2>1. /\ call' = c /\ held' = {} /\ growth' = 0 /\ mapSize' = 0
        /\ UNCHANGED <<handles, dangling, mem, map>>
    BY <1>3 DEF RegisterCall
  <2>2. pc' \in {"idle", "private"} /\ (pc' = "private" => RegisterCheck(c) = "SUCCESS")
    BY <1>3 DEF RegisterCall
  <2>3. TypeOK'
    BY <2>1, <2>2, <1>0 DEF TypeInv, TypeOK, MapNeed
  <2>4. RequestInv'
    BY <2>1, <2>2, <1>0, CheckedIsDisk DEF TypeInv, RequestInv
  <2> QED  BY <2>3, <2>4 DEF TypeInv
<1>4. ASSUME NEW at, NEW what \in {"private", "node", "path", "map", "nfit"},
             NEW next \in Steps, NEW otherwise \in {"idle", "error"},
             at \in Steps, Allocate(at, what, next, otherwise), UNCHANGED nfitVars
      PROVE  TypeInv'
  BY <1>4, <1>0, PlainType DEF Allocate, nfitVars
<1>5. CASE \/ AllocatePrivateData \/ AllocateDevNode \/ AppendDevicePathNode
           \/ AllocateMemoryMap \/ AllocateNfit
  BY <1>5, <1>4 DEF AllocatePrivateData, AllocateDevNode, AppendDevicePathNode,
                    AllocateMemoryMap, AllocateNfit
<1>6. CASE InstallProtocols
  <2>1. /\ pc = "install" /\ pc' \in {"connect", "error"} /\ held' \subseteq held \cup {"protocols"}
        /\ UNCHANGED <<call, dangling, mem, map, growth, mapSize>>
    BY <1>6 DEF InstallProtocols, nfitVars
  <2>2. call \in Disk /\ call \in Calls \cup {NoCall}
    BY <2>1 DEF TypeInv, RequestInv, TypeOK
  <2>3. CASE handles' = handles
    BY <2>1, <2>3, <1>0 DEF TypeInv, TypeOK, RequestInv, MapNeed
  <2>4. CASE handles' = [c \in DOMAIN handles \cup {call} |->
                           IF c = call THEN RamDiskInitBlockIo(c) ELSE handles[c]]
    <3>1. DOMAIN handles' = DOMAIN handles \cup {call}
      BY <2>4
    <3>2. \A c \in DOMAIN handles' : handles'[c] = RamDiskInitBlockIo(c)
      BY <2>4 DEF TypeInv, RequestInv
    <3>3. TypeOK'
      BY <3>1, <2>1, <2>2, <1>0 DEF TypeInv, TypeOK, MapNeed
    <3>4. RequestInv'
      BY <3>2, <2>1, <2>2, <1>0 DEF RequestInv
    <3> QED  BY <3>3, <3>4 DEF TypeInv
  <2> QED  BY <1>6, <2>3, <2>4 DEF InstallProtocols
<1>7. CASE ErrorExit
  <2>1. /\ pc' = "idle" /\ held' \subseteq held /\ dangling' \subseteq dangling \cup {call}
        /\ UNCHANGED <<call, mem, map, growth, mapSize>> /\ pc = "error"
    BY <1>7 DEF ErrorExit, nfitVars
  <2>2. /\ DOMAIN handles' \subseteq DOMAIN handles
        /\ \A c \in DOMAIN handles' : handles'[c] = handles[c]
    BY <1>7 DEF ErrorExit
  <2>3. call \in Disk
    BY <2>1 DEF TypeInv, RequestInv
  <2>4. TypeOK'
    BY <2>1, <2>2, <2>3, <1>0 DEF TypeInv, TypeOK, MapNeed
  <2>5. RequestInv'
    BY <2>1, <2>2, <1>0 DEF TypeInv, RequestInv
  <2> QED  BY <2>4, <2>5 DEF TypeInv
<1>8. CASE ConnectController
  BY <1>8, <1>0, PlainType DEF ConnectController, nfitVars
<1>9. CASE GetMemoryMapSize
  BY <1>9, <1>0, PlainType DEF GetMemoryMapSize, regVars
<1>10. CASE GetMemoryMap
  <2>1. /\ pc = "getmap" /\ pc' \in {"map", "search", "idle"} /\ held' \subseteq held
        /\ mapSize' = MapNeed
        /\ UNCHANGED <<call, handles, dangling, mem, map, growth>>
    BY <1>10 DEF GetMemoryMap, Return
  <2> QED  BY <2>1, <1>0, PlainType
<1>11. CASE SearchMemoryMap
  BY <1>11, <1>0, PlainType DEF SearchMemoryMap, Return, nfitVars
<1>12. CASE RamDiskPublishSsdt
  BY <1>12, <1>0, PlainType DEF RamDiskPublishSsdt, Install, Return
<1>13. CASE PublishNfit
  BY <1>13, <1>0, PlainType DEF PublishNfit, Install, Return
<1>14. CASE MapGrows
  <2>1. /\ growth < MaxGrowth /\ growth' = growth + 1
        /\ UNCHANGED <<pc, call, held, handles, dangling, mem, map, mapSize>>
    BY <1>14 DEF MapGrows, regVars, nfitVars
  <2>2. growth' \in 0 .. MaxGrowth /\ mapSize' \in 0 .. MapNeed'
    BY <2>1, <1>0 DEF MapNeed
  <2> QED  BY <2>1, <2>2 DEF TypeInv, TypeOK, RequestInv
<1>15. ASSUME NEW c \in Calls, BlockIo(c) PROVE TypeInv'
  <2>1. UNCHANGED <<pc, call, held, handles, dangling, map, growth, mapSize>>
    BY <1>15 DEF BlockIo, regVars, nfitVars
  <2>2. mem' \in [Addr -> Value]
    <3>0. mem \in [Addr -> Value]
      BY DEF TypeInv, TypeOK
    <3>1. CASE UNCHANGED mem
      BY <3>0, <3>1
    <3>2. ASSUME NEW q \in Queries, RamDiskBlkIoWriteBlocks(c, q) PROVE mem' \in [Addr -> Value]
      <4>1. q.value \in Value
        BY RamDiskAssumption
      <4>2. PICK S : mem' = mem \/ mem' = [a \in Addr |-> IF a \in S THEN q.value ELSE mem[a]]
        <5>1. DEFINE T == {a \in Addr : Wrap(a - Place(handles[c], q)) < q.bytes}
        <5>2. mem' = mem \/ mem' = [a \in Addr |-> IF a \in T THEN q.value ELSE mem[a]]
          BY <3>2, Zenon DEF RamDiskBlkIoWriteBlocks
        <5> QED  BY <5>2
      <4> QED  BY <4>1, <4>2, <3>0
    <3> QED  BY <1>15, <3>1, <3>2 DEF BlockIo, RamDiskBlkIoReadBlocks, RamDiskBlkIoFlushBlocks
  <2> QED  BY <2>1, <2>2, <1>0 DEF TypeInv, TypeOK, RequestInv, MapNeed
<1> QED
  BY <1>1, <1>2, <1>3, <1>5, <1>6, <1>7, <1>8, <1>9, <1>10, <1>11, <1>12, <1>13, <1>14, <1>15
     DEF Next, RegisterStep, RamDiskPublishNfit, RamDiskUnregister

-----------------------------------------------------------------------------
(* What is held *)

LEMMA InitHeld == Init => HeldInv
BY DEF Init, HeldInv, Steps

LEMMA NextHeld == TypeInv /\ HeldInv /\ [Next]_vars => HeldInv'
<1> SUFFICES ASSUME TypeInv, HeldInv, [Next]_vars PROVE HeldInv'
  OBVIOUS
<1> USE DEF Steps, Base
<1>1. CASE UNCHANGED <<pc, held, call, handles>>
  BY <1>1 DEF HeldInv
<1>2. CASE AcpiLoadDriver \/ RDEntryPoint
  BY <1>2 DEF AcpiLoadDriver, RDEntryPoint, regVars, HeldInv
<1>3. ASSUME NEW c \in Calls, RegisterCall(c) PROVE HeldInv'
  BY <1>3 DEF RegisterCall, HeldInv
<1>4. CASE AllocatePrivateData
  BY <1>4 DEF AllocatePrivateData, Allocate, HeldInv
<1>5. CASE AllocateDevNode
  BY <1>5 DEF AllocateDevNode, Allocate, HeldInv
<1>6. CASE AppendDevicePathNode
  BY <1>6 DEF AppendDevicePathNode, Allocate, HeldInv
<1>7. CASE AllocateMemoryMap
  BY <1>7 DEF AllocateMemoryMap, Allocate, HeldInv
<1>8. CASE AllocateNfit
  BY <1>8 DEF AllocateNfit, Allocate, HeldInv
<1>9. CASE InstallProtocols
  <2>1. pc = "install" /\ held = {"private", "node", "path"} /\ call' = call
    BY <1>9 DEF InstallProtocols, HeldInv
  <2>2. CASE pc' = "connect" /\ held' = held \cup {"protocols"} /\ call \in DOMAIN handles'
    BY <2>1, <2>2 DEF HeldInv
  <2>3. CASE pc' = "error" /\ held' = held
    BY <2>1, <2>3 DEF HeldInv
  <2> QED  BY <1>9, <2>2, <2>3 DEF InstallProtocols
<1>10. CASE ConnectController
  BY <1>10 DEF ConnectController, HeldInv
<1>11. CASE ErrorExit
  <2>1. pc' = "idle" /\ held' = held \ {"node", "path", "private"} /\ pc = "error"
    BY <1>11 DEF ErrorExit
  <2>2. held' \in {{}, {"protocols"}}
    BY <2>1 DEF HeldInv
  <2> QED  BY <2>1, <2>2 DEF HeldInv
<1>12. CASE GetMemoryMapSize
  BY <1>12 DEF GetMemoryMapSize, regVars, HeldInv
<1>13. CASE GetMemoryMap
  <2>1. /\ pc = "getmap" /\ UNCHANGED <<call, handles>>
        /\ \/ pc' \in {"map", "idle"} /\ held' = held \ {"map"}
           \/ pc' = "search" /\ held' = held
    BY <1>13 DEF GetMemoryMap, Return
  <2> QED  BY <2>1 DEF HeldInv
<1>14. CASE SearchMemoryMap
  BY <1>14 DEF SearchMemoryMap, Return, HeldInv
<1>15. CASE RamDiskPublishSsdt
  BY <1>15 DEF RamDiskPublishSsdt, Install, Return, HeldInv
<1>16. CASE PublishNfit
  BY <1>16 DEF PublishNfit, Install, Return, HeldInv
<1>17. CASE MapGrows
  BY <1>17, <1>1 DEF MapGrows, regVars
<1>18. ASSUME NEW c \in Calls, BlockIo(c) PROVE HeldInv'
  BY <1>18, <1>1 DEF BlockIo, regVars
<1>19. CASE UNCHANGED vars
  BY <1>19, <1>1 DEF vars, regVars
<1> QED
  BY <1>2, <1>3, <1>4, <1>5, <1>6, <1>7, <1>8, <1>9, <1>10, <1>11, <1>12, <1>13, <1>14, <1>15, <1>16,
     <1>17, <1>18, <1>19
     DEF Next, RegisterStep, RamDiskPublishNfit, RamDiskUnregister

LEMMA HeldIsAccountedFor == HeldInv => PoolIsAccountedFor
BY DEF HeldInv, PoolIsAccountedFor, Base, Steps

(* Requests, disks, memory and the counters of the memory map have their   *)
(* types, and everything that is or was registered passed the checks of    *)
(* RamDiskRegister: it lies within the address space and is a number of    *)
(* blocks.                                                                 *)
THEOREM DiskTypeCorrect == Spec => []TypeOK
<1>1. TypeInv => TypeOK
  BY DEF TypeInv
<1> QED  BY <1>1, InitType, NextType, PTL DEF Spec

(* Whatever step of a registration fails, when it returns the only pool    *)
(* memory it leaves allocated belongs to an installed disk, and there is   *)
(* never more than one buffer for the memory map.                          *)
THEOREM NoPoolMemoryIsLost == Spec => []PoolIsAccountedFor
<1>1. Init => TypeInv /\ HeldInv
  BY InitType, InitHeld
<1>2. TypeInv /\ HeldInv /\ [Next]_vars => (TypeInv /\ HeldInv)'
  BY NextType, NextHeld
<1> QED  BY <1>1, <1>2, HeldIsAccountedFor, PTL DEF Spec

-----------------------------------------------------------------------------
(* What ACPI is told *)

LEMMA WrapSmall ==
  ASSUME NEW n \in Nat, n < Limit
  PROVE  Wrap(n) = n
BY RamDiskAssumption DEF Wrap

LEMMA WrapLeq ==
  ASSUME NEW n \in Nat
  PROVE  Wrap(n) \in Nat /\ Wrap(n) <= n
<1>1. Limit \in Nat \ {0}
  BY RamDiskAssumption
<1>2. n % Limit \in 0 .. Limit - 1
  BY <1>1
<1>3. CASE n < Limit
  BY <1>3, WrapSmall
<1>4. CASE n >= Limit
  BY <1>1, <1>2, <1>4 DEF Wrap
<1> QED  BY <1>1, <1>3, <1>4

(* The disk c lies in one descriptor of the memory map, if the end of its  *)
(* memory can be told from 0.                                              *)
InDescriptor(base, length) ==
  base + length < Limit =>
    \E k \in DOMAIN map : /\ map[k].start <= base
                          /\ base + length <= map[k].start + map[k].pages * Page

LEMMA CoveredIsInDescriptor ==
  ASSUME map \in Maps, NEW c \in Disk, NEW k \in DOMAIN map, Covers(map[k], c)
  PROVE  InDescriptor(c.base, c.size)
<1>1. /\ Limit \in Nat \ {0} /\ Page \in Nat
      /\ map \in Seq([start : Addr, pages : 0 .. Limit])
  BY RamDiskAssumption
<1>2. map[k] \in [start : Addr, pages : 0 .. Limit]
  <2> DEFINE Descriptors == [start : Addr, pages : 0 .. Limit]
  <2>1. map \in Seq(Descriptors)
    BY <1>1
  <2> HIDE DEF Descriptors
  <2>2. map[k] \in Descriptors
    BY <2>1
  <2> QED  BY <2>2 DEF Descriptors
<1>3. c \in [base : Addr, size : Addr, type : BOOLEAN, path : BOOLEAN]
  <2>1. c \in Calls
    BY DEF Disk
  <2> QED  BY <2>1, RamDiskAssumption
<1>4. /\ c.base \in Nat /\ c.size \in Nat /\ map[k].start \in Nat /\ map[k].pages \in Nat
  BY <1>1, <1>2, <1>3 DEF Addr
<1> DEFINE end == map[k].start + map[k].pages * Page
<1>5. end \in Nat
  <2>1. map[k].pages * Page \in Nat
    BY <1>1, <1>4
  <2> QED  BY <2>1, <1>4
<1>6. Wrap(end) \in Nat /\ Wrap(end) <= end
  <2> HIDE DEF end
  <2> QED  BY <1>5, WrapLeq
<1>7. map[k].start <= c.base /\ Wrap(end) >= Wrap(c.base + c.size)
  BY DEF Covers
<1>8. ASSUME c.base + c.size < Limit PROVE c.base + c.size <= end
  <2> HIDE DEF end
  <2>1. Wrap(c.base + c.size) = c.base + c.size
    BY <1>8, <1>4, WrapSmall
  <2> QED  BY <2>1, <1>4, <1>5, <1>6, <1>7
<1> QED  BY <1>7, <1>8 DEF InDescriptor

Table == [kind : {"SSDT"}] \cup [kind : {"NFIT"}, base : Addr, length : Addr]

(* The disks that no failure can take back any more. *)
Settled ==
  {c \in DOMAIN handles : pc \in {"connect", "error"} /\ "protocols" \in held => c # call}

Described(i) ==
  /\ \E j \in 1 .. i - 1 : acpi[j].kind = "SSDT"
  /\ \E c \in Settled : acpi[i].base = c.base /\ acpi[i].length = c.size
  /\ InDescriptor(acpi[i].base, acpi[i].length)

(* The NFIT that is about to be published is as good as the ones before. *)
NfitInv ==
  /\ acpi \in Seq(Table)
  /\ \A i \in DOMAIN acpi : acpi[i].kind = "NFIT" => Described(i)
  /\ pc \in {"ssdt", "nfit", "table"} => InDescriptor(call.base, call.size)
  /\ pc \in {"nfit", "table"} => \E j \in DOMAIN acpi : acpi[j].kind = "SSDT"

LEMMA InitNfit == Init => NfitInv
BY DEF Init, NfitInv

(* A step that publishes nothing and takes no settled disk away. *)
LEMMA QuietNfit ==
  ASSUME NfitInv,
         UNCHANGED <<map, acpi>>,
         Settled \subseteq Settled',
         pc' \in {"ssdt", "nfit", "table"} => InDescriptor(call.base, call.size)',
         pc' \in {"nfit", "table"} => pc \in {"nfit", "table"}
  PROVE  NfitInv'
<1>1. \A i \in DOMAIN acpi : acpi[i].kind = "NFIT" => Described(i)'
  BY DEF NfitInv, Described, InDescriptor
<1> QED  BY <1>1 DEF NfitInv

LEMMA NextNfit == TypeInv /\ HeldInv /\ NfitInv /\ [Next]_vars => NfitInv'
<1> SUFFICES ASSUME TypeInv, HeldInv, NfitInv, [Next]_vars PROVE NfitInv'
  OBVIOUS
<1>0. map \in Maps /\ (pc \in Steps => call \in Disk)
  BY DEF TypeInv, RequestInv
<1>1. CASE UNCHANGED <<pc, held, call, handles, map, acpi>>
  BY <1>1, QuietNfit DEF Settled, InDescriptor, NfitInv
<1>2. CASE AcpiLoadDriver \/ RDEntryPoint
  <2>1. pc' \in {"driver", "idle", "panic"} /\ UNCHANGED <<call, held, handles, map, acpi>>
    BY <1>2 DEF AcpiLoadDriver, RDEntryPoint, regVars, nfitVars
  <2> QED  BY <2>1, QuietNfit DEF Settled
<1>3. ASSUME NEW c \in Calls, RegisterCall(c) PROVE NfitInv'
  <2>1. pc = "idle" /\ pc' \in {"idle", "private"} /\ UNCHANGED <<handles, map, acpi>>
    BY <1>3 DEF RegisterCall
  <2> QED  BY <2>1, QuietNfit DEF Settled
<1>4. CASE \/ AllocatePrivateData \/ AllocateDevNode \/ AppendDevicePathNode
           \/ AllocateMemoryMap
  <2>1. /\ pc' \in {"node", "path", "install", "getmap", "idle", "error"}
        /\ pc \in {"private", "node", "path", "map"} /\ (pc' = "error" => held' = held /\ pc # "map")
        /\ UNCHANGED <<call, handles, map, acpi>>
    BY <1>4 DEF AllocatePrivateData, AllocateDevNode, AppendDevicePathNode, AllocateMemoryMap,
                Allocate, nfitVars
  <2>2. pc' = "error" => "protocols" \notin held'
    BY <2>1 DEF HeldInv
  <2> QED  BY <2>1, <2>2, QuietNfit DEF Settled
<1>5. CASE AllocateNfit
  <2>1. /\ pc = "nfit" /\ pc' \in {"table", "idle"} /\ UNCHANGED <<call, handles, map, acpi>>
    BY <1>5 DEF AllocateNfit, Allocate, nfitVars
  <2> QED  BY <2>1, QuietNfit DEF Settled, InDescriptor, NfitInv
<1>6. CASE InstallProtocols
  <2>1. /\ pc = "install" /\ pc' \in {"connect", "error"} /\ UNCHANGED <<call, map, acpi>>
    BY <1>6 DEF InstallProtocols, nfitVars
  <2>2. "protocols" \notin held
    BY <2>1 DEF HeldInv
  <2>3. CASE pc' = "error" /\ held' = held /\ handles' = handles
    BY <2>1, <2>2, <2>3, QuietNfit DEF Settled
  <2>4. CASE /\ \A c \in DOMAIN handles : DevicePath(c) # DevicePath(call)
             /\ DOMAIN handles' = DOMAIN handles \cup {call}
    <3>1. call \notin DOMAIN handles
      BY <2>4
    <3> QED  BY <3>1, <2>1, <2>4, QuietNfit DEF Settled
  <2> QED  BY <1>6, <2>3, <2>4 DEF InstallProtocols
<1>7. CASE ConnectController
  <2>1. /\ pc = "connect" /\ pc' \in {"size", "error"} /\ UNCHANGED <<call, handles, map, acpi>>
        /\ held' \subseteq held
    BY <1>7 DEF ConnectController, nfitVars
  <2>2. "protocols" \in held
    BY <2>1 DEF HeldInv, Base
  <2> QED  BY <2>1, <2>2, QuietNfit DEF Settled
<1>8. CASE ErrorExit
  <2>1. /\ pc = "error" /\ pc' = "idle" /\ UNCHANGED <<call, map, acpi>>
        /\ IF "protocols" \in held THEN DOMAIN handles' = DOMAIN handles \ {call}
                                   ELSE handles' = handles
    BY <1>8 DEF ErrorExit, nfitVars
  <2> QED  BY <2>1, QuietNfit DEF Settled
<1>9. CASE GetMemoryMapSize \/ GetMemoryMap
  <2>1. /\ pc \in {"size", "getmap"} /\ pc' \in {"map", "search", "idle"}
        /\ UNCHANGED <<call, handles, map, acpi>>
    BY <1>9 DEF GetMemoryMapSize, GetMemoryMap, Return, regVars
  <2> QED  BY <2>1, QuietNfit DEF Settled
<1>10. CASE SearchMemoryMap
  <2>1. /\ pc = "search" /\ pc' \in {"ssdt", "idle"} /\ UNCHANGED <<call, handles, map, acpi>>
        /\ pc' = "ssdt" => \E k \in DOMAIN map : Covers(map[k], call)
    BY <1>10 DEF SearchMemoryMap, Return, nfitVars
  <2>2. call \in Disk
    BY <2>1, <1>0 DEF Steps
  <2>3. pc' = "ssdt" => InDescriptor(call.base, call.size)
    BY <2>1, <2>2, <1>0, CoveredIsInDescriptor
  <2>4. pc' = "ssdt" => InDescriptor(call.base, call.size)'
    BY <2>1, <2>3 DEF InDescriptor
  <2> QED  BY <2>1, <2>4, QuietNfit DEF Settled
<1>11. ASSUME NEW t \in Table, acpi' = Append(acpi, t), UNCHANGED <<call, handles, map>>,
              pc \in {"ssdt", "table"}, pc' \in {"nfit", "idle"},
              NEW n, n = Len(acpi) + 1, t.kind = "NFIT" => Described(n)'
       PROVE  /\ acpi' \in Seq(Table)
              /\ \A i \in DOMAIN acpi' : acpi'[i].kind = "NFIT" => Described(i)'
  <2>1. /\ acpi \in Seq(Table) /\ acpi' \in Seq(Table) /\ DOMAIN acpi' = 1 .. Len(acpi) + 1
        /\ DOMAIN acpi = 1 .. Len(acpi) /\ Len(acpi) \in Nat
        /\ acpi'[n] = t /\ \A i \in 1 .. Len(acpi) : acpi'[i] = acpi[i]
    BY <1>11 DEF NfitInv
  <2>2. Settled \subseteq Settled'
    BY <1>11 DEF Settled
  <2>3. ASSUME NEW i \in 1 .. Len(acpi), acpi[i].kind = "NFIT" PROVE Described(i)'
    <3>1. Described(i)
      BY <2>1, <2>3 DEF NfitInv
    <3>2. PICK j \in 1 .. i - 1 : acpi[j].kind = "SSDT"
      BY <3>1 DEF Described
    <3>3. j \in 1 .. Len(acpi)
      BY <2>1
    <3>4. acpi'[j].kind = "SSDT" /\ acpi'[i] = acpi[i]
      BY <3>2, <3>3, <2>1
    <3> QED  BY <3>1, <3>4, <2>2, <1>11 DEF Described, InDescriptor
  <2> QED  BY <2>1, <2>3, <1>11
<1>12. CASE RamDiskPublishSsdt
  <2>1. /\ pc = "ssdt" /\ UNCHANGED <<call, handles, map>>
        /\ \/ acpi' = Append(acpi, [kind |-> "SSDT"]) /\ pc' = "nfit"
           \/ acpi' = acpi /\ pc' = "idle"
    BY <1>12 DEF RamDiskPublishSsdt, Install, Return
  <2>2. CASE acpi' = acpi /\ pc' = "idle"
    BY <2>1, <2>2, QuietNfit DEF Settled
  <2>3. CASE acpi' = Append(acpi, [kind |-> "SSDT"]) /\ pc' = "nfit"
    <3>1. [kind |-> "SSDT"] \in Table /\ [kind |-> "SSDT"].kind # "NFIT"
      BY DEF Table
    <3>2. /\ acpi' \in Seq(Table)
          /\ \A i \in DOMAIN acpi' : acpi'[i].kind = "NFIT" => Described(i)'
      BY <3>1, <2>1, <2>3, <1>11
    <3>3. /\ Len(acpi) + 1 \in DOMAIN acpi' /\ acpi'[Len(acpi) + 1].kind = "SSDT"
      BY <2>3 DEF NfitInv
    <3>4. InDescriptor(call.base, call.size)'
      BY <2>1 DEF NfitInv, InDescriptor
    <3> QED  BY <3>2, <3>3, <3>4 DEF NfitInv
  <2> QED  BY <2>1, <2>2, <2>3
<1>13. CASE PublishNfit
  <2> DEFINE t == [kind |-> "NFIT", base |-> handles[call].StartingAddr, length |-> handles[call].Size]
  <2>1. /\ pc = "table" /\ pc' = "idle" /\ UNCHANGED <<call, handles, map>>
        /\ acpi' = Append(acpi, t) \/ acpi' = acpi
    BY <1>13 DEF PublishNfit, Install, Return
  <2>2. call \in Disk /\ call \in DOMAIN handles
    BY <2>1, <1>0 DEF Steps, HeldInv, Base
  <2>3. handles[call].StartingAddr = call.base /\ handles[call].Size = call.size
    BY <2>2 DEF TypeInv, RequestInv, RamDiskInitBlockIo
  <2>4. CASE acpi' = acpi
    BY <2>1, <2>4, QuietNfit DEF Settled
  <2>5. CASE acpi' = Append(acpi, t)
    <3>1. t \in Table /\ t.base = call.base /\ t.length = call.size
      <4>1. call \in Calls
        BY <2>2 DEF Disk
      <4>2. call.base \in Addr /\ call.size \in Addr
        BY <4>1, RamDiskAssumption
      <4> QED  BY <4>2, <2>3 DEF Table
    <3>2. call \in Settled'
      BY <2>1, <2>2 DEF Settled
    <3>3. PICK j \in DOMAIN acpi : acpi[j].kind = "SSDT"
      BY <2>1 DEF NfitInv
    <3> PICK n : n = Len(acpi) + 1
      OBVIOUS
    <3>4. /\ acpi'[n] = t /\ acpi'[j] = acpi[j] /\ j \in 1 .. n - 1
      BY <2>5, <3>3 DEF NfitInv
    <3>5. InDescriptor(call.base, call.size)'
      BY <2>1 DEF NfitInv, InDescriptor
    <3>6. Described(n)'
      <4> HIDE DEF t
      <4>1. acpi'[n].base = call.base /\ acpi'[n].length = call.size
        BY <3>1, <3>4
      <4>2. InDescriptor(acpi[n].base, acpi[n].length)'
        BY <4>1, <3>5, <2>1 DEF InDescriptor
      <4> QED  BY <4>1, <4>2, <3>2, <3>3, <3>4, <2>1 DEF Described
    <3>7. /\ acpi' \in Seq(Table)
          /\ \A i \in DOMAIN acpi' : acpi'[i].kind = "NFIT" => Described(i)'
      <4> HIDE DEF t
      <4> QED  BY <3>1, <3>6, <2>1, <2>5, <1>11
    <3> QED  BY <3>7, <2>1 DEF NfitInv
  <2> QED  BY <2>1, <2>4, <2>5
<1>14. CASE MapGrows
  BY <1>14, <1>1 DEF MapGrows, regVars, nfitVars
<1>15. ASSUME NEW c \in Calls, BlockIo(c) PROVE NfitInv'
  BY <1>15, <1>1 DEF BlockIo, regVars, nfitVars
<1>16. CASE UNCHANGED vars
  BY <1>16, <1>1 DEF vars, regVars, nfitVars
<1> QED
  BY <1>2, <1>3, <1>4, <1>5, <1>6, <1>7, <1>8, <1>9, <1>10, <1>12, <1>13, <1>14, <1>15, <1>16
     DEF Next, RegisterStep, RamDiskPublishNfit, RamDiskUnregister

LEMMA DescribedIsADisk == NfitInv => NfitDescribesADisk
BY DEF NfitInv, NfitDescribesADisk, Described, Settled, InDescriptor

(* Every NFIT that was published comes after an SSDT, describes a disk     *)
(* that is registered, though registrations fail and are taken back later, *)
(* and lies in one descriptor of the memory map unless its end wraps.      *)
THEOREM NfitIsTrue == Spec => []NfitDescribesADisk
<1>1. Init => TypeInv /\ HeldInv /\ NfitInv
  BY InitType, InitHeld, InitNfit
<1>2. TypeInv /\ HeldInv /\ NfitInv /\ [Next]_vars => (TypeInv /\ HeldInv /\ NfitInv)'
  BY NextType, NextHeld, NextNfit
<1> QED  BY <1>1, <1>2, DescribedIsADisk, PTL DEF Spec

-----------------------------------------------------------------------------
(* Block I/O implements independent block devices *)

LEMMA DiskFacts ==
  ASSUME NEW d \in Disk
  PROVE  /\ d \in Calls /\ d.base \in Nat /\ d.size \in Nat /\ d.size > 0 /\ d.size % Block = 0
         /\ d.size < Limit /\ d.base + d.size <= Limit
<1>1. d \in Calls /\ d.size > 0 /\ d.size % Block = 0 /\ d.base + d.size <= Limit
  BY DEF Disk
<1>2. d.base \in Addr /\ d.size \in Addr /\ Limit \in Nat
  BY <1>1, RamDiskAssumption
<1>3. d.base \in Nat /\ d.size \in Nat /\ d.size < Limit
  BY <1>2 DEF Addr
<1> QED  BY <1>1, <1>3

LEMMA QueryFacts ==
  ASSUME NEW q \in Queries
  PROVE  /\ q.op \in {"read", "write"} /\ q.media \in Nat /\ q.lba \in Nat /\ q.bytes \in Nat
         /\ q.lba < Limit /\ q.bytes < Limit /\ q.buffer \in BOOLEAN /\ q.value \in Value
<1>1. /\ q.op \in {"read", "write"} /\ q.media \in Nat /\ q.lba \in Addr /\ q.bytes \in Addr
      /\ q.buffer \in BOOLEAN /\ q.value \in Value /\ Limit \in Nat
  BY RamDiskAssumption
<1> QED  BY <1>1 DEF Addr

LEMMA Sizes == Block \in Nat /\ Block > 1 /\ Limit \in Nat /\ Limit > 0 /\ Limit % Block = 0
BY RamDiskAssumption

LEMMA Multiple ==
  ASSUME NEW b \in Nat, b > 0, NEW n \in Nat, n % b = 0
  PROVE  n \div b \in Nat /\ n = b * (n \div b)
<1>1. n = b * (n \div b) + (n % b) /\ n \div b \in Int
  OBVIOUS
<1>2. n \div b \in Nat
  OBVIOUS
<1> QED  BY <1>1, <1>2

LEMMA Scaled ==
  ASSUME NEW b \in Nat, b > 0, NEW x \in Int, NEW y \in Int
  PROVE  x <= y <=> b * x <= b * y
OBVIOUS

LEMMA RoundedUp ==
  ASSUME NEW b \in Nat, b > 0, NEW k \in Nat
  PROVE  (b * k + b - 1) \div b = k
OBVIOUS

LEMMA DiskBlocks ==
  ASSUME NEW d \in Disk
  PROVE  d.size \div Block \in Nat /\ d.size = Block * (d.size \div Block)
<1>1. d.size \in Nat /\ d.size % Block = 0 /\ Block \in Nat /\ Block > 0
  BY DiskFacts, Sizes
<1> QED  BY <1>1, Multiple

(* LastBlock does not wrap around. *)
LEMMA LastBlockIs ==
  ASSUME NEW d \in Disk
  PROVE  RamDiskInitBlockIo(d).LastBlock = (d.size \div Block) - 1
<1> DEFINE k == d.size \div Block
           l == Limit \div Block
           n == d.size
<1>1. k \in Nat /\ n = Block * k /\ n \in Nat /\ n < Limit
  BY DiskFacts, DiskBlocks
<1>2. l \in Nat /\ Limit = Block * l
  BY Multiple, Sizes
<1> HIDE DEF k, l, n
<1>3. k + 1 <= l
  <2>1. ~ (l <= k)
    BY <1>1, <1>2, Sizes, Scaled
  <2> QED  BY <1>1, <1>2, <2>1
<1>4. Block * (k + 1) <= Block * l
  BY <1>1, <1>2, <1>3, Sizes, Scaled
<1>5. Block * (k + 1) = Block * k + Block
  BY <1>1, Sizes
<1>6. n + Block - 1 \in Nat /\ n + Block - 1 < Limit
  BY <1>1, <1>2, <1>4, <1>5, Sizes
<1>7. Wrap(n + Block - 1) = n + Block - 1
  BY <1>6, WrapSmall
<1>8. (n + Block - 1) \div Block = k
  BY <1>1, Sizes, RoundedUp
<1>9. RamDiskInitBlockIo(d).LastBlock = (Wrap(n + Block - 1) \div Block) - 1
  BY DEF RamDiskInitBlockIo, n
<1> QED  BY <1>7, <1>8, <1>9 DEF k

(* The checks accept the transfers that lie within the disk, also where    *)
(* the number of a block wraps around.                                     *)
Refusals == {"MEDIA_CHANGED", "INVALID_PARAMETER", "BAD_BUFFER_SIZE"}

Inside(d, q) == q.bytes % Block = 0 /\ q.lba * Block + q.bytes <= d.size

LEMMA InsideIs ==
  ASSUME NEW d \in Disk, NEW q \in Queries, q.bytes # 0, q.bytes % Block = 0
  PROVE  q.lba * Block + q.bytes <= d.size <=>
           /\ ~ (q.lba > (d.size \div Block) - 1)
           /\ ~ (Wrap(q.lba + (q.bytes \div Block) - 1) > (d.size \div Block) - 1)
<1> DEFINE k == d.size \div Block
           j == q.bytes \div Block
           l == Limit \div Block
           n == q.lba
<1>1. k \in Nat /\ d.size = Block * k /\ d.size < Limit /\ d.size \in Nat
  BY DiskFacts, DiskBlocks
<1>2. j \in Nat /\ q.bytes = Block * j /\ q.bytes < Limit /\ q.bytes \in Nat
  BY QueryFacts, Multiple, Sizes
<1>3. l \in Nat /\ Limit = Block * l /\ n \in Nat
  BY Multiple, Sizes, QueryFacts
<1> HIDE DEF k, j, l, n
<1>4. j > 0
  BY <1>2, Sizes
<1>5. k < l /\ j < l
  <2>1. ~ (l <= k) /\ ~ (l <= j)
    BY <1>1, <1>2, <1>3, Sizes, Scaled
  <2> QED  BY <1>1, <1>2, <1>3, <2>1
<1>6. l + l <= Limit
  <2>1. Block \in Int /\ 2 <= Block
    BY Sizes
  <2> QED  BY <1>3, <2>1
<1>7. n * Block + q.bytes = Block * (n + j)
  BY <1>2, <1>3, Sizes
<1>8. n * Block + q.bytes <= d.size <=> n + j <= k
  BY <1>1, <1>2, <1>3, <1>7, Sizes, Scaled
<1>9. ASSUME n <= k - 1 PROVE Wrap(n + j - 1) = n + j - 1
  <2>1. n + j - 1 \in Nat /\ n + j - 1 < Limit
    BY <1>1, <1>2, <1>3, <1>4, <1>5, <1>6, <1>9, Sizes
  <2> QED  BY <2>1, WrapSmall
<1>10. n + j <= k <=> ~ (n > k - 1) /\ ~ (Wrap(n + j - 1) > k - 1)
  <2>1. CASE n <= k - 1
    BY <1>1, <1>2, <1>3, <1>9, <2>1
  <2>2. CASE ~ (n <= k - 1)
    BY <1>1, <1>2, <1>3, <1>4, <2>2
  <2> QED  BY <2>1, <2>2
<1> QED  BY <1>8, <1>10 DEF k, j, n

LEMMA CheckIsFits ==
  ASSUME NEW d \in Disk, NEW q \in Queries, NEW p, p = RamDiskInitBlockIo(d)
  PROVE  /\ TransferCheck(p, q) = "SUCCESS" <=> Devices!Fits(d, q)
         /\ TransferCheck(p, q) = "SUCCESS" \/ TransferCheck(p, q) \in Refusals
<1> DEFINE last == (d.size \div Block) - 1
           far == Wrap(q.lba + (q.bytes \div Block) - 1)
<1>1. p.MediaId = 0 /\ p.ReadOnly = FALSE /\ p.BlockSize = Block /\ p.LastBlock = last
  BY LastBlockIs DEF RamDiskInitBlockIo
<1>2. TransferCheck(p, q) =
        IF q.media # 0 THEN "MEDIA_CHANGED"
        ELSE IF ~ q.buffer THEN "INVALID_PARAMETER"
        ELSE IF q.bytes = 0 THEN "SUCCESS"
        ELSE IF q.bytes % Block # 0 THEN "BAD_BUFFER_SIZE"
        ELSE IF q.lba > last THEN "INVALID_PARAMETER"
        ELSE IF far > last THEN "INVALID_PARAMETER"
        ELSE "SUCCESS"
  BY <1>1 DEF TransferCheck
<1>3. Devices!Fits(d, q) <=> /\ q.media = 0 /\ q.buffer
                             /\ q.bytes = 0 \/ (q.bytes % Block = 0 /\ q.lba * Block + q.bytes <= d.size)
  BY DEF Devices!Fits, SizeOf
<1>4. q.bytes # 0 /\ q.bytes % Block = 0 =>
        (q.lba * Block + q.bytes <= d.size <=> ~ (q.lba > last) /\ ~ (far > last))
  BY InsideIs
<1> HIDE DEF last, far
<1>5. CASE q.media # 0
  BY <1>2, <1>3, <1>5 DEF Refusals
<1>6. CASE q.media = 0 /\ ~ q.buffer
  BY <1>2, <1>3, <1>6 DEF Refusals
<1>7. CASE q.media = 0 /\ q.buffer /\ q.bytes = 0
  BY <1>2, <1>3, <1>7 DEF Refusals
<1>8. CASE q.media = 0 /\ q.buffer /\ q.bytes # 0 /\ q.bytes % Block # 0
  BY <1>2, <1>3, <1>8 DEF Refusals
<1>9. CASE q.media = 0 /\ q.buffer /\ q.bytes # 0 /\ q.bytes % Block = 0
  <2>1. CASE q.lba > last
    BY <1>2, <1>3, <1>4, <1>9, <2>1 DEF Refusals
  <2>2. CASE ~ (q.lba > last) /\ far > last
    BY <1>2, <1>3, <1>4, <1>9, <2>2 DEF Refusals
  <2>3. CASE ~ (q.lba > last) /\ ~ (far > last)
    BY <1>2, <1>3, <1>4, <1>9, <2>3 DEF Refusals
  <2> QED  BY <2>1, <2>2, <2>3
<1> QED  BY Zenon, <1>5, <1>6, <1>7, <1>8, <1>9

(* Where the bytes of a transfer are. *)
LEMMA WrapNegative ==
  ASSUME NEW n \in Int, n < 0, - Limit <= n
  PROVE  Wrap(n) = n + Limit
BY Sizes DEF Wrap

LEMMA PlaceIs ==
  ASSUME NEW d \in Disk, NEW q \in Queries, NEW p, p = RamDiskInitBlockIo(d), Devices!Fits(d, q), q.bytes # 0
  PROVE  /\ Place(p, q) = d.base + q.lba * Block
         /\ q.lba * Block \in Nat /\ q.lba * Block + q.bytes <= d.size
<1>1. q.lba * Block + q.bytes <= d.size
  BY DEF Devices!Fits, SizeOf
<1>2. q.lba * Block \in Nat
  BY QueryFacts, Sizes
<1>3. p.StartingAddr = d.base /\ p.BlockSize = Block
  BY DEF RamDiskInitBlockIo
<1> DEFINE off == q.lba * Block
<1>4. d.base \in Nat /\ q.bytes \in Nat /\ d.base + d.size <= Limit /\ d.size \in Nat /\ Limit \in Nat
  BY DiskFacts, QueryFacts, Sizes
<1> HIDE DEF off
<1>5. d.base + off \in Nat /\ d.base + off < Limit
  BY <1>1, <1>2, <1>4 DEF off
<1>6. Wrap(d.base + off) = d.base + off
  BY <1>5, WrapSmall
<1> QED  BY <1>1, <1>2, <1>3, <1>6 DEF Place, off

(* What the devices hold, and the memory that belongs to none of them. *)
Content == [d \in Disk |-> [i \in 0 .. d.size - 1 |-> mem[d.base + i]]]
Outside == [a \in Elsewhere |-> mem[a]]

LEMMA ReadIsRead ==
  ASSUME NEW d \in Disk, NEW q \in Queries, handles[d] = RamDiskInitBlockIo(d), RamDiskBlkIoReadBlocks(d, q)
  PROVE  Devices!Read(d, q) \/ Devices!Refuse(d, q)
<1> DEFINE p == handles[d]
           s == TransferCheck(p, q)
           data == IF s = "SUCCESS" THEN [i \in 0 .. q.bytes - 1 |-> mem[Wrap(Place(p, q) + i)]] ELSE << >>
<1>1. q.op = "read" /\ Answer(q, s, data) /\ mem' = mem
  BY DEF RamDiskBlkIoReadBlocks
<1>2. (s = "SUCCESS" <=> Devices!Fits(d, q)) /\ (s = "SUCCESS" \/ s \in Refusals)
  BY CheckIsFits
<1>3. Content' = Content
  BY <1>1 DEF Content
<1>4. CASE s = "SUCCESS"
  <2>1. data = [i \in 0 .. q.bytes - 1 |-> Content[d][q.lba * Block + i]]
    <3> SUFFICES ASSUME NEW i \in 0 .. q.bytes - 1
                 PROVE  mem[Wrap(Place(p, q) + i)] = Content[d][q.lba * Block + i]
      BY <1>4
    <3> DEFINE off == q.lba * Block
               pl == Place(p, q)
    <3>0. q.bytes \in Nat /\ q.bytes # 0 /\ d.base \in Nat /\ d.size \in Nat /\ Limit \in Nat
          /\ d.base + d.size <= Limit
      BY QueryFacts, DiskFacts, Sizes
    <3>1. pl = d.base + off /\ off \in Nat /\ off + q.bytes <= d.size
      BY <1>2, <1>4, <3>0, PlaceIs
    <3> HIDE DEF off, pl
    <3>2. pl + i \in Nat /\ pl + i < Limit /\ off + i \in 0 .. d.size - 1 /\ pl + i = d.base + (off + i)
      BY <3>0, <3>1
    <3>3. Wrap(pl + i) = d.base + (off + i)
      BY <3>2, WrapSmall
    <3>4. Content[d][off + i] = mem[d.base + (off + i)]
      BY <3>2 DEF Content
    <3> QED  BY <3>3, <3>4 DEF off, pl
  <2>2. Answer(q, "SUCCESS", data)
    BY <1>1, <1>4
  <2> HIDE DEF data
  <2>3. Devices!Answer(q, "SUCCESS", data)
    BY <2>2 DEF Answer, Devices!Answer
  <2> QED  BY <1>1, <1>2, <1>3, <1>4, <2>1, <2>3 DEF Devices!Read, Content
<1>5. CASE s # "SUCCESS"
  <2>1. Answer(q, s, << >>) /\ s \in Refusals
    BY <1>1, <1>2, <1>5
  <2> HIDE DEF s
  <2>2. Devices!Answer(q, s, << >>)
    BY <2>1 DEF Answer, Devices!Answer
  <2> QED  BY <1>1, <1>2, <1>3, <1>5, <2>1, <2>2 DEF Devices!Refuse, Content, Refusals
<1> QED  BY <1>4, <1>5

LEMMA WrittenPlace ==
  ASSUME NEW a \in Addr, NEW pl \in Nat, NEW n \in Nat, pl + n <= Limit, n # 0
  PROVE  Wrap(a - pl) < n <=> a - pl \in 0 .. n - 1
<1>0. a \in Nat /\ a < Limit /\ Limit \in Nat
  BY Sizes DEF Addr
<1>1. CASE a - pl >= 0
  <2>1. a - pl \in Nat /\ a - pl < Limit
    BY <1>0, <1>1
  <2>2. Wrap(a - pl) = a - pl
    BY <2>1, WrapSmall
  <2> QED  BY <2>1, <2>2
<1>2. CASE a - pl < 0
  <2>1. a - pl \in Int /\ - Limit <= a - pl
    BY <1>0
  <2>2. Wrap(a - pl) = (a - pl) + Limit
    BY <1>2, <2>1, WrapNegative
  <2> QED  BY <1>0, <1>2, <2>2
<1> QED  BY <1>0, <1>1, <1>2

(* The bytes that a transfer writes are those of the disk from its place   *)
(* on.                                                                     *)
LEMMA WrittenIs ==
  ASSUME NEW d \in Disk, NEW q \in Queries, NEW p, p = RamDiskInitBlockIo(d), Devices!Fits(d, q), NEW a \in Addr
  PROVE  Wrap(a - Place(p, q)) < q.bytes <=> a - (d.base + q.lba * Block) \in 0 .. q.bytes - 1
<1>0. q.bytes \in Nat /\ d.base \in Nat /\ d.size \in Nat /\ Limit \in Nat /\ Limit > 0 /\ d.base + d.size <= Limit
  BY QueryFacts, DiskFacts, Sizes
<1>1. CASE q.bytes = 0
  <2> DEFINE x == a - Place(p, q)
  <2>1. x \in Int
    <3>1. p.StartingAddr \in Nat /\ p.BlockSize \in Nat /\ q.lba \in Nat
      BY <1>0, QueryFacts, Sizes DEF RamDiskInitBlockIo
    <3>2. p.StartingAddr + q.lba * p.BlockSize \in Int
      BY <3>1
    <3>3. Place(p, q) \in Int
      BY <1>0, <3>2 DEF Place, Wrap
    <3> QED  BY <3>3 DEF Addr
  <2> HIDE DEF x
  <2>2. Wrap(x) \in Nat
    BY <1>0, <2>1 DEF Wrap
  <2>3. ~ (Wrap(x) < 0) /\ 0 .. 0 - 1 = {}
    BY <2>2
  <2> QED  BY <1>1, <2>3 DEF x
<1>2. CASE q.bytes # 0
  <2> DEFINE off == q.lba * Block
             pl == Place(p, q)
  <2>1. pl = d.base + off /\ off \in Nat /\ off + q.bytes <= d.size
    BY <1>2, PlaceIs
  <2> HIDE DEF off, pl
  <2>2. pl \in Nat /\ pl + q.bytes <= Limit
    BY <1>0, <2>1
  <2>3. Wrap(a - pl) < q.bytes <=> a - pl \in 0 .. q.bytes - 1
    BY <1>0, <1>2, <2>2, WrittenPlace
  <2> QED  BY <2>1, <2>3 DEF off, pl
<1> QED  BY <1>1, <1>2

LEMMA WriteIsWrite ==
  ASSUME NEW d \in Disk, NEW q \in Queries, handles[d] = RamDiskInitBlockIo(d), mem \in [Addr -> Value],
         RamDiskBlkIoWriteBlocks(d, q)
  PROVE  (Devices!Write(d, q) \/ Devices!Refuse(d, q)) /\ Outside' = Outside
<1> DEFINE p == handles[d]
           s == TransferCheck(p, q)
<1>1. /\ q.op = "write" /\ Answer(q, s, << >>)
      /\ mem' = IF s = "SUCCESS"
                THEN [a \in Addr |-> IF Wrap(a - Place(p, q)) < q.bytes THEN q.value ELSE mem[a]]
                ELSE mem
  BY DEF RamDiskBlkIoWriteBlocks
<1>2. (s = "SUCCESS" <=> Devices!Fits(d, q)) /\ (s = "SUCCESS" \/ s \in Refusals)
  BY CheckIsFits
<1>4. CASE s = "SUCCESS"
  <2> DEFINE off == q.lba * Block
             n == q.bytes
             In(a) == a - (d.base + off) \in 0 .. n - 1
  <2>0. /\ d.base \in Nat /\ d.size \in Nat /\ n \in Nat /\ off \in Nat /\ Limit \in Nat
        /\ d.base + d.size <= Limit
    BY QueryFacts, DiskFacts, Sizes
  <2>1. n # 0 => off + n <= d.size
    BY <1>2, <1>4 DEF Devices!Fits, SizeOf
  <2>2. \A a \in Addr : Wrap(a - Place(p, q)) < n <=> In(a)
    BY <1>2, <1>4, WrittenIs
  <2>3. mem' = [a \in Addr |-> IF In(a) THEN q.value ELSE mem[a]]
    BY <1>1, <1>4, <2>2
  <2> HIDE DEF off, n
  <2>4. Outside' = Outside
    <3>1. \A a \in Elsewhere : a \in Addr /\ a \in Nat /\ ~ (a - d.base \in 0 .. d.size - 1)
      BY <2>0 DEF Elsewhere, Addr
    <3>2. \A a \in Elsewhere : ~ In(a)
      BY <2>0, <2>1, <3>1
    <3> HIDE DEF In
    <3> QED  BY <2>3, <3>1, <3>2 DEF Outside
  <2>5. ASSUME NEW e \in Disk, NEW i \in 0 .. e.size - 1
        PROVE  /\ mem'[e.base + i] = IF In(e.base + i) THEN q.value ELSE mem[e.base + i]
               /\ e # d => ~ In(e.base + i)
    <3>1. e.base \in Nat /\ e.size \in Nat /\ e.base + e.size <= Limit
      BY DiskFacts
    <3>2. e.base + i \in Addr
      BY <2>0, <3>1 DEF Addr
    <3>3. e # d => e.base + e.size <= d.base \/ d.base + d.size <= e.base
      BY RamDiskAssumption
    <3>4. e # d => ~ In(e.base + i)
      BY <2>0, <2>1, <3>1, <3>3
    <3> HIDE DEF In
    <3> QED  BY <2>3, <3>2, <3>4
  <2>6. ASSUME NEW i \in 0 .. d.size - 1 PROVE In(d.base + i) <=> i - off \in 0 .. n - 1
    BY <2>0
  <2> HIDE DEF In
  <2> DEFINE F == [i \in DOMAIN Content[d] |-> IF i - off \in 0 .. n - 1 THEN q.value ELSE Content[d][i]]
  <2>7. Content'[d] = F
    BY <2>5, <2>6 DEF Content
  <2>8. \A e \in Disk : e # d => Content'[e] = Content[e]
    BY <2>5 DEF Content
  <2>9. Content' = [Content EXCEPT ![d] = F]
    <3> HIDE DEF F
    <3>1. DOMAIN Content' = Disk /\ Content' = [e \in Disk |-> Content'[e]] /\ Content = [e \in Disk |-> Content[e]]
      BY DEF Content
    <3> QED  BY <2>7, <2>8, <3>1
  <2>10. Devices!Answer(q, "SUCCESS", << >>)
    BY <1>1, <1>4 DEF Answer, Devices!Answer
  <2> QED  BY <1>1, <1>2, <1>4, <2>4, <2>9, <2>10 DEF Devices!Write, Content, off, n
<1>5. CASE s # "SUCCESS"
  <2>1. Answer(q, s, << >>) /\ s \in Refusals /\ mem' = mem
    BY <1>1, <1>2, <1>5
  <2> HIDE DEF s
  <2>2. Devices!Answer(q, s, << >>)
    BY <2>1 DEF Answer, Devices!Answer
  <2>3. Content' = Content /\ Outside' = Outside
    BY <2>1 DEF Content, Outside
  <2> QED  BY <1>1, <1>2, <1>5, <2>1, <2>2, <2>3 DEF Devices!Refuse, Content, Refusals
<1> QED  BY <1>4, <1>5

(* Every step is one of the devices, or none. *)
LEMMA StutterIsStutter ==
  ASSUME UNCHANGED <<handles, mem, reply>>
  PROVE  UNCHANGED Devices!vars
BY DEF Devices!vars

LEMMA Served ==
  ASSUME NEW c \in DOMAIN handles, NEW q, reply'.query = q, handles' = handles, Outside' = Outside,
         \/ Devices!Read(c, q) \/ Devices!Write(c, q) \/ Devices!Refuse(c, q) \/ Devices!Flush(q)
  PROVE  Devices!Next
<1>1. [a \in Elsewhere |-> mem[a]]' = [a \in Elsewhere |-> mem[a]] /\ DOMAIN handles' = DOMAIN handles
  BY DEF Outside
<1>2. \/ Devices!Read(c, reply'.query) \/ Devices!Write(c, reply'.query)
      \/ Devices!Refuse(c, reply'.query) \/ Devices!Flush(reply'.query)
  <2>1. CASE Devices!Read(c, q)
    BY <2>1 DEF Devices!Read, Devices!Answer, Devices!Fits
  <2>2. CASE Devices!Write(c, q)
    BY <2>2 DEF Devices!Write, Devices!Answer, Devices!Fits
  <2>3. CASE Devices!Refuse(c, q)
    BY <2>3 DEF Devices!Refuse, Devices!Answer, Devices!Fits
  <2>4. CASE Devices!Flush(q)
    BY <2>4 DEF Devices!Flush, Devices!Answer
  <2> QED  BY <2>1, <2>2, <2>3, <2>4
<1>3. Devices!Serve(c, reply'.query)
  BY <1>1, <1>2 DEF Devices!Serve
<1> QED  BY <1>3 DEF Devices!Next

LEMMA StepIsStep == TypeInv /\ [Next]_vars => [Devices!Next]_(Devices!vars)
<1> SUFFICES ASSUME TypeInv, [Next]_vars PROVE Devices!Next \/ UNCHANGED Devices!vars
  OBVIOUS
<1>1. CASE UNCHANGED <<handles, mem, reply>>
  BY <1>1, StutterIsStutter
<1>2. CASE InstallProtocols
  <2>1. UNCHANGED <<mem, reply>> /\ pc = "install"
    BY <1>2 DEF InstallProtocols
  <2>2. call \in Disk
    BY <2>1 DEF TypeInv, RequestInv, Steps
  <2>3. CASE DOMAIN handles' = DOMAIN handles \cup {call}
    BY <2>1, <2>2, <2>3 DEF Devices!Next, Devices!Appear
  <2>4. CASE handles' = handles
    BY <1>1, <2>1, <2>4
  <2> QED  BY <1>2, <2>3, <2>4 DEF InstallProtocols
<1>3. CASE ErrorExit
  <2>1. UNCHANGED <<mem, reply>> /\ pc = "error"
    BY <1>3 DEF ErrorExit
  <2>2. call \in Disk
    BY <2>1 DEF TypeInv, RequestInv, Steps
  <2>3. CASE DOMAIN handles' = DOMAIN handles \ {call}
    BY <2>1, <2>2, <2>3 DEF Devices!Next, Devices!Vanish
  <2>4. CASE handles' = handles
    BY <1>1, <2>1, <2>4
  <2> QED  BY <1>3, <2>3, <2>4 DEF ErrorExit
<1>4. ASSUME NEW c \in Calls, BlockIo(c) PROVE Devices!Next
  <2>1. c \in DOMAIN handles /\ handles' = handles
    BY <1>4 DEF BlockIo, regVars
  <2>2. c \in Disk /\ handles[c] = RamDiskInitBlockIo(c) /\ mem \in [Addr -> Value]
    BY <2>1 DEF TypeInv, TypeOK, RequestInv
  <2>3. ASSUME NEW q \in Queries, RamDiskBlkIoReadBlocks(c, q) PROVE Devices!Next
    <3>1. mem' = mem /\ reply'.query = q
      BY <2>3 DEF RamDiskBlkIoReadBlocks, Answer
    <3>2. Devices!Read(c, q) \/ Devices!Refuse(c, q)
      BY <2>2, <2>3, ReadIsRead
    <3>3. Outside' = Outside
      BY <3>1 DEF Outside
    <3> QED  BY <2>1, <3>1, <3>2, <3>3, Served
  <2>4. ASSUME NEW q \in Queries, RamDiskBlkIoWriteBlocks(c, q) PROVE Devices!Next
    <3>1. reply'.query = q
      BY <2>4 DEF RamDiskBlkIoWriteBlocks, Answer
    <3>2. (Devices!Write(c, q) \/ Devices!Refuse(c, q)) /\ Outside' = Outside
      BY <2>2, <2>4, WriteIsWrite
    <3> QED  BY <2>1, <3>1, <3>2, Served
  <2>5. ASSUME RamDiskBlkIoFlushBlocks(c) PROVE Devices!Next
    <3>1. handles[c].ReadOnly = FALSE
      BY <2>2 DEF RamDiskInitBlockIo
    <3>2. PICK event \in BOOLEAN : Answer([op |-> "flush", event |-> event], "SUCCESS", << >>)
      BY <2>5, <3>1 DEF RamDiskBlkIoFlushBlocks
    <3> DEFINE q == [op |-> "flush", event |-> event]
    <3>3. mem' = mem /\ q.op = "flush"
      BY <2>5 DEF RamDiskBlkIoFlushBlocks
    <3> HIDE DEF q
    <3>4. Answer(q, "SUCCESS", << >>)
      BY <3>2 DEF q
    <3>5. Devices!Answer(q, "SUCCESS", << >>) /\ reply'.query = q
      BY <3>4 DEF Answer, Devices!Answer
    <3>6. Content' = Content /\ Outside' = Outside
      BY <3>3 DEF Content, Outside
    <3>7. Devices!Flush(q)
      BY <3>3, <3>5, <3>6 DEF Devices!Flush, Content
    <3> QED  BY <2>1, <3>5, <3>6, <3>7, Served
  <2> QED  BY <1>4, <2>3, <2>4, <2>5 DEF BlockIo
<1>5. CASE \/ AcpiLoadDriver \/ RDEntryPoint \/ ConnectController \/ RamDiskUnregister \/ MapGrows
           \/ \E c \in Calls : RegisterCall(c)
  <2>1. UNCHANGED <<handles, mem, reply>>
    BY <1>5 DEF AcpiLoadDriver, RDEntryPoint, ConnectController, RamDiskUnregister, MapGrows, RegisterCall,
                vars, regVars
  <2> QED  BY <1>1, <2>1
<1>6. CASE \/ AllocatePrivateData \/ AllocateDevNode \/ AppendDevicePathNode \/ AllocateMemoryMap \/ AllocateNfit
  <2>1. UNCHANGED <<handles, mem, reply>>
    BY <1>6 DEF AllocatePrivateData, AllocateDevNode, AppendDevicePathNode, AllocateMemoryMap, AllocateNfit,
                Allocate
  <2> QED  BY <1>1, <2>1
<1>7. CASE GetMemoryMapSize \/ GetMemoryMap \/ SearchMemoryMap \/ RamDiskPublishSsdt \/ PublishNfit
  <2>1. UNCHANGED <<handles, mem, reply>>
    BY <1>7 DEF GetMemoryMapSize, GetMemoryMap, SearchMemoryMap, RamDiskPublishSsdt, PublishNfit, regVars
  <2> QED  BY <1>1, <2>1
<1>8. CASE UNCHANGED vars
  BY <1>1, <1>8 DEF vars, regVars
<1> QED
  BY <1>2, <1>3, <1>4, <1>5, <1>6, <1>7, <1>8 DEF Next, RegisterStep, RamDiskPublishNfit

LEMMA InitIsInit == Init => Devices!Init
<1> SUFFICES ASSUME Init PROVE Devices!Init
  OBVIOUS
<1>1. DOMAIN handles = {} /\ reply = Devices!Silence
  BY DEF Init, Devices!Silence
<1>2. mem \in [Addr -> Value]
  BY RamDiskAssumption DEF Init
<1>3. \A d \in Disk : [i \in 0 .. d.size - 1 |-> mem[d.base + i]] \in [0 .. d.size - 1 -> Value]
  <2> SUFFICES ASSUME NEW d \in Disk, NEW i \in 0 .. d.size - 1 PROVE mem[d.base + i] \in Value
    OBVIOUS
  <2>1. d.base + i \in Addr
    BY DiskFacts, Sizes DEF Addr
  <2> QED  BY <1>2, <2>1
<1> QED  BY <1>1, <1>3 DEF Devices!Init, SizeOf

(* Whatever a registration is doing, Block I/O behaves like independent    *)
(* arrays of blocks: what is within a disk is read and written, everything *)
(* else is refused, and no other memory changes, for every address space,  *)
(* block size and request, where sums wrap around too (ramdisk.c:590-808). *)
THEOREM DiskImplementsDevices == Spec => ImplementsBlockDevices
<1>1. Init => TypeInv /\ Devices!Init
  BY InitType, InitIsInit
<1>2. TypeInv /\ [Next]_vars => TypeInv'
  BY NextType
<1>3. TypeInv /\ [Next]_vars => [Devices!Next]_(Devices!vars)
  BY StepIsStep
<1> QED  BY <1>1, <1>2, <1>3, PTL DEF Spec, ImplementsBlockDevices, Devices!Spec
=============================================================================
