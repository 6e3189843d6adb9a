------------------------------ MODULE BootFlow ------------------------------
(***************************************************************************)
(* efi_main of the MFTAH loader (main.c): from the drivers over the menu   *)
(* and the password to the decrypted image, its hints, its registration    *)
(* as a RAM disk and the start of the system on it.                        *)
(*                                                                         *)
(* A payload is a file of AES blocks.  Its first Header blocks are what    *)
(* CheckPassword reads; LoadAndDecrypt reads all of it in chunks of Chunk  *)
(* blocks.  The menu is PayloadMenu, seen here by what it returns.         *)
(***************************************************************************)
EXTENDS Naturals, Sequences, FiniteSets

CONSTANTS
  Payload,        \* the payload files that may be on the boot volume
  Size,           \* how many bytes each has, in units that divide a block
  Block,          \* AES_BLOCKLEN in those units
  Secret,         \* the password of each
  Content,        \* the length that the decrypted header of each gives
  Header,         \* mftah_payload_header__sizeof() + AES_BLOCKLEN
  Chunk,          \* MFTAH_RAMDISK_LOAD_BLOCK_SIZE
  Lines,          \* what the user may enter: Quit, Back, or some password
  Quit, Back,     \* the lines "q" and "b"
  Volumes,        \* the lists of file systems that JumpToRamdisk may find: none is
                  \* empty, LocateHandleBuffer fails instead
  None

ASSUME BootAssumption ==
  /\ Size \in [Payload -> Nat] /\ Content \in [Payload -> Nat]
  /\ Secret \in [Payload -> Lines]
  /\ Block \in Nat \ {0}
  /\ Header \in Nat \ {0}
  /\ Chunk \in Nat \ {0}
  /\ {Quit, Back} \subseteq Lines
  /\ None \notin Payload \cup Lines
  /\ Volumes \subseteq Seq({"canary", "plain", "broken"}) \ {<< >>}

VARIABLES
  pc,
  disk,           \* the payloads on the boot volume
  payload,        \* PayloadFileHandle: the file it was opened on
  fromMulti,      \* gOperatingPayload.FromMultiSelect
  position,       \* the position of that handle
  password,       \* the line in Password
  actual,         \* PasswordActual
  headerAt,       \* the offset from which CheckPassword read its header
  offset,         \* i in the loop of LoadAndDecrypt
  buffer,         \* ReadBuffer: which unit of the file each unit is, 0 for none
  loaderHash,     \* LoadedLoaderHash was filled
  payloadHash,    \* LoadedPayloadHash was filled
  image,          \* gRamdiskImage and gRamdiskImageLength
  hint,           \* how many of the EFI variables were set
  hints,          \* their values
  registered,     \* the image was registered as a RAM disk
  volumes,        \* the file systems, in the order of LocateHandleBuffer
  v,              \* the loop over them
  started         \* those whose boot image was started

menu    == <<disk, payload, fromMulti, loaderHash>>
check   == <<password, actual, headerAt>>
load    == <<offset, buffer, payloadHash, image>>
publish == <<hint, hints, registered>>
jump    == <<volumes, v, started>>
vars    == <<pc, menu, position, check, load, publish, jump>>

HintNames == <<"RDBASE", "RDSIZE", "LOADER_HASH", "PAYLOAD_HASH">>
Names     == {HintNames[k] : k \in DOMAIN HintNames}
NoImage   == [file |-> None, key |-> None, units |-> << >>, length |-> 0]

Loaded == {"hints", "register", "locate", "volume", "start", "key"}

TypeOK ==
  /\ pc \in {"environment", "menu", "password", "header", "rewind", "verify", "allocate",
             "read", "decrypt", "booted", "exit", "reset", "panic"} \cup Loaded
  /\ disk \in SUBSET Payload
  /\ payload \in Payload \cup {None}
  /\ fromMulti \in BOOLEAN /\ loaderHash \in BOOLEAN /\ payloadHash \in BOOLEAN
  /\ position \in Nat /\ offset \in Nat
  /\ payload \in Payload => position <= Size[payload]
  /\ password \in Lines \cup {None}
  /\ actual \in Lines \cup {None}
  /\ headerAt \in Nat
  /\ buffer \in Seq(Nat)
  /\ image.file \in Payload \cup {None}
  /\ hint \in 0 .. 4
  /\ DOMAIN hints = Names
  /\ registered \in BOOLEAN
  /\ volumes \in Volumes
  /\ v \in 1 .. Len(volumes) + 1
  /\ started \in Seq(DOMAIN volumes)

Init ==
  /\ pc = "environment"
  /\ disk \in (SUBSET Payload) \ {{}}
  /\ payload = None /\ fromMulti = FALSE /\ position = 0
  /\ password = None /\ actual = None /\ headerAt = 0
  /\ offset = 0 /\ buffer = << >>
  /\ loaderHash = FALSE /\ payloadHash = FALSE
  /\ image = NoImage
  /\ hint = 0 /\ hints = [n \in Names |-> None]
  /\ registered = FALSE
  /\ volumes \in Volumes /\ v = 1 /\ started = << >>

Min2(a, b) == IF a < b THEN a ELSE b

Goto(label) == pc' = label

\* PANIC on any error: every firmware and library call on the way may fail.
Panic ==
  /\ pc \notin {"booted", "exit", "reset", "panic", "start", "key"}
  /\ Goto("panic")
  /\ UNCHANGED <<menu, position, check, load, publish, jump>>
------------------------------------------------------------------------------
(* Bugs that this code could plausibly have; no action uses them. *)

\* The handle is not set back to the start of the file.
BugRewind ==
  /\ pc = "rewind"
  /\ Goto("verify")
  /\ UNCHANGED <<menu, position, check, load, publish, jump>>

\* The loop stops before an incomplete last chunk.
BugEndOfRead ==
  /\ pc = "read" /\ offset + Chunk > Len(buffer)
  /\ payloadHash' \in BOOLEAN
  /\ Goto("decrypt")
  /\ UNCHANGED <<menu, position, check, offset, buffer, image, publish, jump>>

\* The first volume is number 0.
BugLocateVolumes ==
  /\ pc = "locate"
  /\ v' = 0
  /\ Goto("volume")
  /\ UNCHANGED <<menu, position, check, load, publish, volumes, started>>

\* The test of the canary takes every error for success.
BugNoCanary ==
  /\ pc = "volume" /\ v <= Len(volumes) /\ volumes[v] # "canary"
  /\ Goto("start")
  /\ UNCHANGED <<menu, position, check, load, publish, jump>>
------------------------------------------------------------------------------
(* The menu and the password. *)

EnvironmentInitialize ==
  /\ pc = "environment"
  /\ Goto("menu")
  /\ UNCHANGED <<menu, position, check, load, publish, jump>>

\* The watchdog cannot be disabled: efi_main returns the error.
WatchdogFails ==
  /\ pc = "environment"
  /\ Goto("exit")
  /\ UNCHANGED <<menu, position, check, load, publish, jump>>

\* What SelectPayload returns: a freshly opened handle.
SelectPayload(f) ==
  /\ pc = "menu" /\ f \in disk
  /\ payload' = f
  /\ position' = 0
  /\ fromMulti' = (Cardinality(disk) > 1)
  /\ loaderHash' \in {loaderHash, TRUE}
  /\ Goto("password")
  /\ UNCHANGED <<disk, check, load, publish, jump>>

\* 'q' in the menu.
QuitMenu ==
  /\ pc = "menu"
  /\ Goto("reset")
  /\ UNCHANGED <<menu, position, check, load, publish, jump>>

\* GetPassword asks again for an empty line; clean says that no erased character
\* is left behind the line, without which a command is not recognised.
EnterNothing ==
  /\ pc = "password"
  /\ password' = None
  /\ UNCHANGED <<pc, menu, position, actual, headerAt, load, publish, jump>>

EnterQuit ==
  /\ pc = "password"
  /\ password' = Quit
  /\ Goto("reset")
  /\ UNCHANGED <<menu, position, actual, headerAt, load, publish, jump>>

EnterBack ==
  /\ pc = "password" /\ fromMulti
  /\ password' = Back
  /\ payload' = None
  /\ Goto("menu")
  /\ UNCHANGED <<disk, fromMulti, loaderHash, position, actual, headerAt, load, publish, jump>>

EnterPassword(line, clean) ==
  /\ pc = "password"
  /\ clean => line # Quit /\ ~(fromMulti /\ line = Back)
  /\ password' = line
  /\ Goto("header")
  /\ UNCHANGED <<menu, position, actual, headerAt, load, publish, jump>>

\* CheckPassword: a valid size, and the whole header; otherwise a panic.
ReadHeader ==
  /\ pc = "header"
  /\ Size[payload] >= Header /\ Size[payload] % Block = 0
  /\ headerAt' = position
  /\ position' = Min2(position + Header, Size[payload])
  /\ Goto(IF position' = position + Header THEN "rewind" ELSE "panic")
  /\ UNCHANGED <<menu, password, actual, load, publish, jump>>

InvalidSize ==
  /\ pc = "header"
  /\ Size[payload] < Header \/ Size[payload] % Block # 0
  /\ Goto("panic")
  /\ UNCHANGED <<menu, position, check, load, publish, jump>>

Rewind ==
  /\ pc = "rewind"
  /\ position' = 0
  /\ Goto("verify")
  /\ UNCHANGED <<menu, check, load, publish, jump>>

\* The library finds the right password right if it gets the right header.
Accepted ==
  /\ pc = "verify" /\ headerAt = 0 /\ password = Secret[payload]
  /\ actual' = password
  /\ Goto("allocate")
  /\ UNCHANGED <<menu, position, password, headerAt, load, publish, jump>>

Refused ==
  /\ pc = "verify" /\ ~(headerAt = 0 /\ password = Secret[payload])
  /\ Goto("password")
  /\ UNCHANGED <<menu, position, check, load, publish, jump>>
------------------------------------------------------------------------------
(* LoadAndDecrypt. *)

\* ReadFileSize is the length of the buffer.  FileSize may fail here, although
\* CheckPassword knew the size: then it is 0, which is a multiple of a block.
Allocate ==
  /\ pc = "allocate"
  /\ \E ReadFileSize \in {Size[payload], 0} : buffer' = [k \in 1 .. ReadFileSize |-> 0]
  /\ offset' = 0
  /\ Goto("read")
  /\ UNCHANGED <<menu, position, check, payloadHash, image, publish, jump>>

\* Read returns what is left of the file, at most a chunk.
ReadChunk ==
  LET n == Min2(Chunk, Size[payload] - position) IN
  /\ pc = "read" /\ offset < Len(buffer)
  /\ buffer' = [k \in DOMAIN buffer |->
                  IF k \in offset + 1 .. offset + n THEN position + k - offset ELSE buffer[k]]
  /\ position' = position + n
  /\ offset' = offset + Chunk
  /\ UNCHANGED <<pc, menu, check, payloadHash, image, publish, jump>>

\* The hash of the loaded payload may fail, which is only a warning.
EndOfRead ==
  /\ pc = "read" /\ offset >= Len(buffer)
  /\ payloadHash' \in BOOLEAN
  /\ Goto("decrypt")
  /\ UNCHANGED <<menu, position, check, offset, buffer, image, publish, jump>>

\* The library makes no payload of a buffer that has no room for a header.
NoHeader ==
  /\ pc = "decrypt" /\ Len(buffer) < Header
  /\ Goto("panic")
  /\ UNCHANGED <<menu, position, check, load, publish, jump>>

\* The length comes from the decrypted header; none is a panic.  The passwords
\* are cleared.
Decrypt ==
  /\ pc = "decrypt" /\ Len(buffer) >= Header /\ Content[payload] > 0
  /\ image' = [file |-> payload, key |-> actual, units |-> buffer, length |-> Content[payload]]
  /\ password' = None /\ actual' = None
  /\ Goto("hints")
  /\ UNCHANGED <<menu, position, headerAt, offset, buffer, payloadHash, publish, jump>>

EmptyImage ==
  /\ pc = "decrypt" /\ Len(buffer) >= Header /\ Content[payload] = 0
  /\ Goto("panic")
  /\ UNCHANGED <<menu, position, check, load, publish, jump>>
------------------------------------------------------------------------------
(* The hints, the RAM disk and the jump. *)

\* efi_main passes NULL for both hashes: what is copied to the reserved pool of
\* the variable is whatever lies at address 0.
HintValue(n) ==
  CASE n = "RDBASE" -> image.file
    [] n = "RDSIZE" -> image.length
    [] OTHER        -> "address 0"

\* A bug that SetHint could plausibly have: a failed hint is no error.
BugSetHint ==
  /\ pc = "hints" /\ hint < 4
  /\ hint' = hint + 1
  /\ hints' \in { [hints EXCEPT ![HintNames[hint + 1]] = HintValue(HintNames[hint + 1])], hints }
  /\ Goto(IF hint' = 4 THEN "register" ELSE "hints")
  /\ UNCHANGED <<menu, position, check, load, registered, jump>>

SetHint ==
  /\ pc = "hints" /\ hint < 4
  /\ hint' = hint + 1
  /\ hints' = [hints EXCEPT ![HintNames[hint + 1]] = HintValue(HintNames[hint + 1])]
  /\ Goto(IF hint' = 4 THEN "register" ELSE "hints")
  /\ UNCHANGED <<menu, position, check, load, registered, jump>>

WrapperRegisterRamdisk ==
  /\ pc = "register"
  /\ registered' = TRUE
  /\ Goto("locate")
  /\ UNCHANGED <<menu, position, check, load, hint, hints, jump>>

LocateVolumes ==
  /\ pc = "locate"
  /\ v' = 1
  /\ Goto("volume")
  /\ UNCHANGED <<menu, position, check, load, publish, volumes, started>>

\* EFI_NOT_FOUND for the canary: the next volume.
NoCanary ==
  /\ pc = "volume" /\ v <= Len(volumes) /\ volumes[v] = "plain"
  /\ v' = v + 1
  /\ UNCHANGED <<pc, menu, position, check, load, publish, volumes, started>>

\* Any other error ends the search: efi_main panics.
BrokenVolume ==
  /\ pc = "volume" /\ v <= Len(volumes) /\ volumes[v] = "broken"
  /\ Goto("panic")
  /\ UNCHANGED <<menu, position, check, load, publish, jump>>

FindCanary ==
  /\ pc = "volume" /\ v <= Len(volumes) /\ volumes[v] = "canary"
  /\ Goto("start")
  /\ UNCHANGED <<menu, position, check, load, publish, jump>>

\* The image takes over the machine, fails, or returns: then the search goes on.
StartImage ==
  /\ pc = "start"
  /\ started' = Append(started, v)
  /\ \/ Goto("booted") /\ UNCHANGED v
     \/ Goto("panic") /\ UNCHANGED v
     \/ Goto("volume") /\ v' = v + 1
  /\ UNCHANGED <<menu, position, check, load, publish, volumes>>

LoadImageFails ==
  /\ pc = "start"
  /\ Goto("panic")
  /\ UNCHANGED <<menu, position, check, load, publish, jump>>

\* "No bootable device was found", even if one was started: a last message, a
\* key, and back to the firmware.
NoVolumeLeft ==
  /\ pc = "volume" /\ v > Len(volumes)
  /\ Goto("key")
  /\ UNCHANGED <<menu, position, check, load, publish, jump>>

PressAnyKey ==
  /\ pc = "key"
  /\ Goto("exit")
  /\ UNCHANGED <<menu, position, check, load, publish, jump>>

GetPassword ==
  \/ EnterNothing \/ EnterQuit \/ EnterBack
  \/ \E line \in Lines, clean \in BOOLEAN : EnterPassword(line, clean)

CheckPassword == ReadHeader \/ InvalidSize \/ Rewind \/ Accepted \/ Refused

LoadAndDecrypt == Allocate \/ ReadChunk \/ EndOfRead \/ NoHeader \/ Decrypt \/ EmptyImage

JumpToRamdisk ==
  \/ LocateVolumes \/ NoCanary \/ BrokenVolume \/ FindCanary
  \/ StartImage \/ LoadImageFails \/ NoVolumeLeft

\* The machine was handed over, reset or halted.
Ended == pc \in {"booted", "exit", "reset", "panic"} /\ UNCHANGED vars

efi_main ==
  \/ EnvironmentInitialize \/ WatchdogFails \/ Panic
  \/ QuitMenu \/ \E f \in Payload : SelectPayload(f)
  \/ GetPassword \/ CheckPassword \/ LoadAndDecrypt
  \/ SetHint \/ WrapperRegisterRamdisk \/ JumpToRamdisk \/ PressAnyKey

Next == efi_main \/ Ended

Spec == Init /\ [][Next]_vars
------------------------------------------------------------------------------
(* What the loader promises. *)

\* However often a password was refused and however often the user went back
\* to the menu, CheckPassword looks at the header of the payload that is now
\* selected, so its password is accepted (main.c:363-386).
ChecksTheHeader ==
  pc = "verify" => headerAt = 0 /\ payload \in disk

\* The image that is announced, registered and started is the whole payload the
\* user selected last, in order and without a gap, decrypted with its password
\* (main.c:496-518, 559-582); also when its size cannot be read any more
\* (util.c:34-37) no shorter image takes its place.
ImageIsThePayload ==
  pc \in Loaded \cup {"booted"} =>
    /\ image.file = payload
    /\ image.key = Secret[payload]
    /\ image.units = [k \in 1 .. Size[payload] |-> k]

\* A system is started only on a registered image whose place and size the
\* variables give, because a failed hint is a panic (main.c:155-169).
HintsDescribeTheImage ==
  started # << >> =>
    /\ registered
    /\ hints["RDBASE"] = image.file /\ hints["RDSIZE"] = image.length

\* Systems are started in the order of the volumes, each at most once, and only
\* from volumes with the canary file (main.c:769-843).
StartsOnlyCanaries ==
  /\ \A k \in DOMAIN started : volumes[started[k]] = "canary"
  /\ \A j, k \in DOMAIN started : j < k => started[j] < started[k]
==============================================================================
