--------------------------- MODULE BootFlowProofs ---------------------------
(***************************************************************************)
(* The invariants of the boot flow, for all payloads, sizes and passwords, *)
(* all lists of volumes, and whatever fails on the way.                    *)
(***************************************************************************)
EXTENDS BootFlow, TLAPS

(* Where a payload is selected. *)
Opened == {"password", "header", "rewind", "verify", "allocate", "read", "decrypt"}

(* The handle of the payload is at its start whenever the header or the    *)
(* file is about to be read.                                               *)
HandleInv ==
  /\ pc \in Opened \cup Loaded \cup {"booted"} => payload \in disk
  /\ pc \in {"password", "header", "verify", "allocate"} => position = 0
  /\ pc \in {"rewind", "verify"} => headerAt = 0
  /\ pc \in {"allocate", "read", "decrypt"} => actual = Secret[payload]

(* What was read so far is the start of the file; the buffer is as long as *)
(* the file, or empty when its size could not be read.                     *)
ReadInv ==
  /\ pc \in {"read", "decrypt"} => Len(buffer) \in {0, Size[payload]}
  /\ pc = "read" => /\ position = Min2(offset, Len(buffer))
                    /\ buffer = [k \in 1 .. Len(buffer) |-> IF k <= position THEN k ELSE 0]
  /\ pc = "decrypt" => buffer = [k \in 1 .. Len(buffer) |-> k]

(* The variables that were set are right, and all of them are before       *)
(* anything is started.                                                    *)
HintInv ==
  /\ pc \notin Loaded \cup {"booted", "exit", "panic"} => hint = 0 /\ started = << >>
  /\ pc \in {"hints", "register", "locate"} => started = << >>
  /\ hint >= 1 => hints["RDBASE"] = image.file
  /\ hint >= 2 => hints["RDSIZE"] = image.length
  /\ pc \in Loaded \ {"hints"} => hint = 4
  /\ pc \in {"locate", "volume", "start", "key"} => registered
  /\ HintsDescribeTheImage

(* The volumes that were started are behind the cursor. *)
StartInv ==
  /\ StartsOnlyCanaries
  /\ pc \in {"volume", "start"} => \A k \in DOMAIN started : started[k] < v
  /\ pc = "start" => v \in DOMAIN volumes /\ volumes[v] = "canary"

IInv == TypeOK /\ HandleInv /\ ReadInv /\ ImageIsThePayload /\ HintInv /\ StartInv

-----------------------------------------------------------------------------
LEMMA InitIInv == Init => IInv
<1> SUFFICES ASSUME Init PROVE IInv
  OBVIOUS
<1> USE BootAssumption DEF Init
<1>0. volumes \in Seq({"canary", "plain", "broken"}) /\ v = 1 /\ started = << >>
  OBVIOUS
<1>1. TypeOK
  <2>1. image.file = None /\ DOMAIN hints = Names
    BY DEF NoImage
  <2>2. v \in 1 .. Len(volumes) + 1 /\ started \in Seq(DOMAIN volumes) /\ buffer \in Seq(Nat)
    BY <1>0
  <2>3. fromMulti \in BOOLEAN /\ loaderHash \in BOOLEAN /\ payloadHash \in BOOLEAN /\ registered \in BOOLEAN
    BY Zenon
  <2>4. disk \in SUBSET Payload /\ payload \in Payload \cup {None} /\ volumes \in Volumes
    OBVIOUS
  <2> QED  BY <2>1, <2>2, <2>3, <2>4 DEF TypeOK
<1>2. HandleInv /\ ReadInv /\ ImageIsThePayload
  BY DEF HandleInv, ReadInv, ImageIsThePayload, Opened, Loaded
<1>3. HintInv
  BY DEF HintInv, HintsDescribeTheImage, Loaded
<1>4. StartInv
  BY <1>0 DEF StartInv, StartsOnlyCanaries
<1> QED  BY <1>1, <1>2, <1>3, <1>4 DEF IInv

(* A step that only moves on. *)
Quiet == UNCHANGED <<menu, position, check, load, publish, jump>>

LEMMA QuietIInv ==
  ASSUME IInv, Quiet,
         \/ pc' \in {"exit", "reset", "panic"} /\ (pc' = "reset" => pc = "menu")
         \/ pc = "environment" /\ pc' = "menu"
         \/ pc = "verify" /\ pc' = "password"
         \/ pc = "volume" /\ pc' = "key"
         \/ pc = "volume" /\ pc' = "start" /\ v \in DOMAIN volumes /\ volumes[v] = "canary"
  PROVE  IInv'
<1> USE DEF Quiet, menu, check, load, publish, jump
<1>1. TypeOK'
  BY DEF IInv, TypeOK, Loaded
<1>2. HandleInv' /\ ReadInv'
  BY DEF IInv, HandleInv, ReadInv, Opened, Loaded
<1>3. ImageIsThePayload'
  BY DEF IInv, ImageIsThePayload, Loaded
<1>4. HintInv'
  BY DEF IInv, HintInv, HintsDescribeTheImage, Loaded
<1>5. StartInv'
  BY DEF IInv, StartInv, StartsOnlyCanaries
<1> QED  BY <1>1, <1>2, <1>3, <1>4, <1>5 DEF IInv

(* A step before the image is there: nothing of what is published or       *)
(* started changes.                                                        *)
LEMMA EarlyIInv ==
  ASSUME IInv, UNCHANGED <<image, publish, jump>>,
         pc \in {"menu", "password"} \cup Opened,
         pc' \in {"menu", "reset", "panic"} \cup Opened
  PROVE  ImageIsThePayload' /\ HintInv' /\ StartInv'
<1> USE DEF publish, jump
<1>1. ImageIsThePayload'
  BY DEF IInv, ImageIsThePayload, Loaded, Opened
<1>2. HintInv'
  BY DEF IInv, HintInv, HintsDescribeTheImage, Loaded, Opened
<1>3. StartInv'
  BY DEF IInv, StartInv, StartsOnlyCanaries, Opened
<1> QED  BY <1>1, <1>2, <1>3

(* A step after the image is there. *)
LEMMA LateIInv ==
  ASSUME IInv, UNCHANGED <<menu, position, check, load>>,
         pc \in Loaded, pc' \in Loaded \cup {"booted", "exit", "panic"}
  PROVE  HandleInv' /\ ReadInv' /\ ImageIsThePayload'
<1> USE DEF menu, check, load
<1>1. HandleInv' /\ ReadInv'
  BY DEF IInv, HandleInv, ReadInv, Loaded
<1>2. ImageIsThePayload'
  BY DEF IInv, ImageIsThePayload, Loaded
<1> QED  BY <1>1, <1>2

LEMMA NextIInv == IInv /\ [Next]_vars => IInv'
<1> SUFFICES ASSUME IInv, [Next]_vars PROVE IInv'
  OBVIOUS
<1> USE BootAssumption
<1>0. TypeOK /\ HandleInv /\ ReadInv /\ ImageIsThePayload /\ HintInv /\ StartInv
  BY DEF IInv
<1>1. CASE UNCHANGED vars \/ Ended
  <2> USE <1>0, <1>1 DEF vars, Ended, menu, check, load, publish, jump
  <2>1. TypeOK'
    BY DEF TypeOK
  <2>2. HandleInv' /\ ReadInv' /\ ImageIsThePayload'
    <3>1. UNCHANGED <<pc, payload, disk, position, headerAt, actual, offset, buffer, image>>
      OBVIOUS
    <3> QED  BY Zenon, <3>1, <1>0 DEF HandleInv, ReadInv, ImageIsThePayload
  <2>3. HintInv' /\ StartInv'
    BY DEF HintInv, HintsDescribeTheImage, StartInv, StartsOnlyCanaries
  <2> QED  BY <2>1, <2>2, <2>3 DEF IInv
<1>2. CASE \/ EnvironmentInitialize \/ WatchdogFails \/ Panic \/ QuitMenu \/ InvalidSize \/ Refused
           \/ NoHeader \/ EmptyImage \/ BrokenVolume \/ LoadImageFails \/ NoVolumeLeft \/ PressAnyKey
  BY <1>2, QuietIInv DEF Quiet, EnvironmentInitialize, WatchdogFails, Panic, QuitMenu, InvalidSize, Refused,
     NoHeader, EmptyImage, BrokenVolume, LoadImageFails, NoVolumeLeft, PressAnyKey, Goto
<1>3. CASE FindCanary
  <2>1. v \in 1 .. Len(volumes)
    BY <1>3, <1>0 DEF FindCanary, TypeOK
  <2>2. v \in DOMAIN volumes
    BY <2>1, <1>0 DEF TypeOK
  <2> QED  BY <1>3, <2>2, QuietIInv DEF Quiet, FindCanary, Goto
<1>4. ASSUME NEW f \in Payload, SelectPayload(f) PROVE IInv'
  <2> USE <1>4, <1>0 DEF SelectPayload, Goto, check, load, publish, jump
  <2>1. fromMulti' \in BOOLEAN /\ loaderHash' \in BOOLEAN
    <3>1. fromMulti' = TRUE \/ fromMulti' = FALSE
      BY SMT
    <3>2. loaderHash' \in BOOLEAN
      BY Zenon DEF TypeOK
    <3> QED  BY <3>1, <3>2
  <2>2. TypeOK'
    BY <2>1 DEF TypeOK, Loaded
  <2>3. HandleInv' /\ ReadInv'
    BY DEF HandleInv, ReadInv, Opened, Loaded
  <2> QED  BY <2>2, <2>3, EarlyIInv DEF IInv, Opened
<1>5. CASE GetPassword
  <2>1. /\ pc = "password" /\ pc' \in {"password", "reset", "menu", "header"}
        /\ password' \in Lines \cup {None} /\ payload' \in {payload, None}
        /\ pc' \in {"password", "header"} => payload' = payload
        /\ UNCHANGED <<disk, fromMulti, loaderHash, position, actual, headerAt, load, publish, jump>>
    BY <1>5 DEF GetPassword, EnterNothing, EnterQuit, EnterBack, EnterPassword, Goto, menu
  <2> USE <2>1, <1>0 DEF load, publish, jump
  <2>2. TypeOK'
    BY DEF TypeOK, Loaded
  <2>3. HandleInv' /\ ReadInv'
    BY DEF HandleInv, ReadInv, Opened, Loaded
  <2> QED  BY <2>2, <2>3, EarlyIInv DEF IInv, Opened
<1>6. CASE ReadHeader \/ Rewind \/ Accepted
  <2>0. payload \in Payload /\ Size[payload] \in Nat
    BY <1>6, <1>0 DEF ReadHeader, Rewind, Accepted, HandleInv, TypeOK, Opened
  <2>1. TypeOK'
    <3>1. position \in Nat /\ Header \in Nat /\ password \in Lines \cup {None}
      BY <1>0 DEF TypeOK
    <3>2. /\ position' \in Nat /\ position' <= Size[payload] /\ headerAt' \in {headerAt, position} /\ actual' \in {actual, password}
          /\ pc' \in {"panic", "rewind", "verify", "allocate"}
      BY <2>0, <1>6, <1>0, <3>1 DEF ReadHeader, Rewind, Accepted, Goto, Min2, check, HandleInv
    <3>3. UNCHANGED <<menu, password, load, publish, jump>>
      BY <1>6 DEF ReadHeader, Rewind, Accepted, check
    <3> QED  BY <3>1, <3>2, <3>3, <1>0 DEF TypeOK, menu, load, publish, jump
  <2>2. HandleInv' /\ ReadInv'
    BY <2>0, <1>6, <1>0 DEF ReadHeader, Rewind, Accepted, Goto, HandleInv, ReadInv, Min2, Opened, Loaded,
       menu, check, load, publish, jump
  <2>3. /\ UNCHANGED <<image, publish, jump>> /\ pc \in Opened
        /\ pc' \in {"panic"} \cup Opened
    BY <1>6 DEF ReadHeader, Rewind, Accepted, Goto, Opened, load
  <2> QED  BY <2>1, <2>2, <2>3, EarlyIInv DEF IInv
<1>7. CASE Allocate
  <2>0. payload \in Payload /\ Size[payload] \in Nat /\ position = 0
    BY <1>7, <1>0 DEF Allocate, HandleInv, TypeOK, Opened
  <2> USE <1>7, <1>0 DEF Allocate, Goto, menu, check, publish, jump
  <2>1. PICK n \in {Size[payload], 0} : buffer' = [k \in 1 .. n |-> 0]
    OBVIOUS
  <2>2. buffer' \in Seq(Nat) /\ Len(buffer') = n /\ n \in Nat
    BY <2>0, <2>1
  <2>3. TypeOK'
    BY <2>2 DEF TypeOK, Loaded
  <2>4. ReadInv'
    BY <2>0, <2>1, <2>2 DEF ReadInv, Min2
  <2>5. HandleInv'
    BY <2>0 DEF HandleInv, Opened, Loaded
  <2> QED  BY <2>3, <2>4, <2>5, EarlyIInv DEF IInv, Opened
<1>8. CASE ReadChunk
  <2> DEFINE n == Min2(Chunk, Size[payload] - position)
             s == Size[payload]
  <2>0. /\ pc = "read" /\ offset < Len(buffer)
        /\ buffer' = [k \in DOMAIN buffer |->
                  IF k \in offset + 1 .. offset + n THEN position + k - offset ELSE buffer[k]]
        /\ position' = position + n
        /\ offset' = offset + Chunk
        /\ UNCHANGED <<pc, menu, check, payloadHash, image, publish, jump>>
    BY <1>8 DEF ReadChunk
  <2>1. payload \in Payload /\ s \in Nat /\ Chunk \in Nat \ {0} /\ offset \in Nat
    BY <2>0, <1>0 DEF HandleInv, TypeOK, Opened
  <2>2. /\ Len(buffer) = s /\ DOMAIN buffer = 1 .. s
        /\ position = offset
        /\ buffer = [k \in 1 .. s |-> IF k <= offset THEN k ELSE 0]
    BY <2>0, <2>1, <1>0 DEF ReadInv, Min2
  <2>3. n \in Nat /\ position' = Min2(offset', s)
    BY <2>0, <2>1, <2>2 DEF Min2
  <2>4. \A k \in 1 .. s : k \in offset + 1 .. offset + n <=> offset < k /\ k <= position'
    BY <2>0, <2>1, <2>2, <2>3
  <2>5. buffer' = [k \in 1 .. s |-> IF k <= position' THEN k ELSE 0]
    <3> SUFFICES ASSUME NEW k \in 1 .. s
                 PROVE (IF k \in offset + 1 .. offset + n THEN position + k - offset ELSE buffer[k])
                        = IF k <= position' THEN k ELSE 0
      BY <2>0, <2>2
    <3>1. offset <= position'
      BY <2>0, <2>1, <2>2, <2>3
    <3> QED  BY <2>1, <2>2, <2>3, <2>4, <3>1, <2>0
  <2>6. buffer' \in Seq(Nat) /\ Len(buffer') = s /\ position' \in Nat /\ position' <= s
    BY <2>5, <2>1, <2>2, <2>3, <2>0 DEF Min2
  <2> HIDE DEF n
  <2> USE DEF menu, check, publish, jump
  <2>7. TypeOK'
    BY <2>0, <2>1, <2>6, <1>0 DEF TypeOK, Loaded
  <2>8. HandleInv' /\ ReadInv'
    BY <2>0, <2>3, <2>5, <2>6, <1>0 DEF HandleInv, ReadInv, Opened, Loaded
  <2> QED  BY <2>0, <2>7, <2>8, EarlyIInv DEF IInv, Opened
<1>9. CASE EndOfRead
  <2>1. payload \in Payload /\ Len(buffer) \in Nat /\ offset \in Nat
    BY <1>9, <1>0 DEF EndOfRead, HandleInv, TypeOK, Opened
  <2>2. position = Len(buffer)
    BY <1>9, <1>0, <2>1 DEF EndOfRead, ReadInv, Min2
  <2>3. buffer = [k \in 1 .. Len(buffer) |-> k]
    BY <1>9, <1>0, <2>1, <2>2 DEF EndOfRead, ReadInv
  <2> USE <1>9, <1>0 DEF EndOfRead, Goto, menu, check, publish, jump
  <2>4. TypeOK'
    BY DEF TypeOK, Loaded
  <2>5. HandleInv' /\ ReadInv'
    BY <2>3 DEF HandleInv, ReadInv, Opened, Loaded
  <2> QED  BY <2>4, <2>5, EarlyIInv DEF IInv, Opened
<1>10. CASE Decrypt
  <2> USE <1>10, <1>0 DEF Decrypt, Goto, menu, publish, jump
  <2>1. /\ payload \in Payload /\ actual = Secret[payload]
        /\ Len(buffer) = Size[payload] /\ hint = 0 /\ started = << >>
        /\ buffer = [k \in 1 .. Size[payload] |-> k]
    BY DEF HandleInv, ReadInv, HintInv, TypeOK, Opened, Loaded
  <2>2. TypeOK'
    BY <2>1 DEF TypeOK, Loaded
  <2>3. HandleInv' /\ ReadInv' /\ ImageIsThePayload'
    BY <2>1 DEF HandleInv, ReadInv, ImageIsThePayload, Opened, Loaded
  <2>4. HintInv' /\ StartInv'
    BY <2>1 DEF HintInv, HintsDescribeTheImage, StartInv, StartsOnlyCanaries, Loaded
  <2> QED  BY <2>2, <2>3, <2>4 DEF IInv
<1>11. CASE SetHint
  <2> DEFINE name == HintNames[hint + 1]
  <2> USE <1>11 DEF SetHint, Goto
  <2>1. hint \in 0 .. 3 /\ hint' = hint + 1 /\ pc = "hints" /\ started = << >>
    BY <1>0 DEF TypeOK, HintInv
  <2>2. /\ hint = 0 => name = "RDBASE"
        /\ hint = 1 => name = "RDSIZE"
        /\ hint \in {2, 3} => name \notin {"RDBASE", "RDSIZE"}
        /\ "RDBASE" \in Names /\ "RDSIZE" \in Names
    BY <2>1 DEF HintNames, Names
  <2>3. /\ DOMAIN hints' = Names
        /\ hints'["RDBASE"] = IF hint = 0 THEN image.file ELSE hints["RDBASE"]
        /\ hints'["RDSIZE"] = IF hint = 1 THEN image.length ELSE hints["RDSIZE"]
    <3>1. /\ HintValue("RDBASE") = image.file /\ HintValue("RDSIZE") = image.length
      BY DEF HintValue
    <3>2. hints' = [hints EXCEPT ![name] = HintValue(name)] /\ DOMAIN hints = Names
      BY <1>0 DEF TypeOK
    <3> HIDE DEF name
    <3> QED  BY <2>1, <2>2, <3>1, <3>2
  <2>4. /\ UNCHANGED <<menu, position, check, load, registered, jump>>
        /\ pc' = IF hint' = 4 THEN "register" ELSE "hints"
    OBVIOUS
  <2>5. HandleInv' /\ ReadInv' /\ ImageIsThePayload'
    BY <2>1, <2>4, LateIInv DEF Loaded
  <2>6. TypeOK'
    BY <2>1, <2>3, <2>4, <1>0 DEF TypeOK, Loaded, menu, check, load, jump
  <2>7. HintInv'
    BY <2>1, <2>3, <2>4, <1>0 DEF HintInv, HintsDescribeTheImage, Loaded, load, jump
  <2>8. StartInv'
    BY <2>1, <2>4, <1>0 DEF StartInv, StartsOnlyCanaries, jump
  <2> QED  BY <2>5, <2>6, <2>7, <2>8 DEF IInv
<1>12. CASE WrapperRegisterRamdisk \/ LocateVolumes \/ NoCanary
  <2>1. /\ UNCHANGED <<menu, position, check, load, volumes, started, hint, hints>>
        /\ pc \in {"register", "locate", "volume"} /\ pc' \in {"locate", "volume"}
        /\ registered' \in BOOLEAN /\ (registered => registered') /\ (pc = "register" => registered')
        /\ pc = "locate" => v' = 1
        /\ pc = "volume" => v <= Len(volumes) /\ v' = v + 1 /\ pc' = "volume"
        /\ pc = "register" => v' = v /\ pc' = "locate"
    BY <1>12, <1>0 DEF WrapperRegisterRamdisk, LocateVolumes, NoCanary, Goto, publish, jump, TypeOK
  <2>2. HandleInv' /\ ReadInv' /\ ImageIsThePayload'
    BY <2>1, LateIInv DEF Loaded
  <2>3. Len(volumes) \in Nat /\ v \in Nat
    BY <1>0 DEF TypeOK
  <2>4. TypeOK'
    BY <2>1, <2>3, <1>0 DEF TypeOK, Loaded, menu, check, load
  <2>5. HintInv'
    BY <2>1, <1>0 DEF HintInv, HintsDescribeTheImage, Loaded, load
  <2>6. \A k \in DOMAIN started : started[k] \in Nat
    BY <1>0, <2>3 DEF TypeOK
  <2>7. StartInv'
    BY <2>1, <2>3, <2>6, <1>0 DEF StartInv, StartsOnlyCanaries, HintInv
  <2> QED  BY <2>2, <2>4, <2>5, <2>7 DEF IInv
<1>13. CASE StartImage
  <2>1. /\ UNCHANGED <<menu, position, check, load, publish, volumes>>
        /\ pc = "start" /\ pc' \in {"booted", "panic", "volume"}
        /\ started' = Append(started, v)
        /\ v' \in {v, v + 1} /\ (pc' = "volume" => v' = v + 1)
    BY <1>13 DEF StartImage, Goto
  <2>2. /\ Len(volumes) \in Nat /\ v \in 1 .. Len(volumes) /\ DOMAIN volumes = 1 .. Len(volumes)
        /\ volumes[v] = "canary" /\ started \in Seq(DOMAIN volumes)
        /\ \A k \in DOMAIN started : started[k] < v
    BY <2>1, <1>0 DEF TypeOK, StartInv
  <2>3. /\ started' \in Seq(DOMAIN volumes) /\ Len(started') = Len(started) + 1 /\ Len(started) \in Nat
        /\ DOMAIN started' = 1 .. Len(started) + 1 /\ DOMAIN started = 1 .. Len(started)
        /\ \A k \in DOMAIN started : started'[k] = started[k]
        /\ started'[Len(started) + 1] = v
    BY <2>1, <2>2
  <2>4. HandleInv' /\ ReadInv' /\ ImageIsThePayload'
    BY <2>1, LateIInv DEF Loaded
  <2>5. TypeOK'
    BY <2>1, <2>2, <2>3, <1>0 DEF TypeOK, Loaded, menu, check, load, publish
  <2>6. HintInv'
    BY <2>1, <1>0 DEF HintInv, HintsDescribeTheImage, Loaded, load, publish
  <2>7. \A k \in DOMAIN started : started[k] \in Nat
    BY <2>2, <2>3
  <2>8. StartsOnlyCanaries'
    BY <2>1, <2>2, <2>3, <2>7, <1>0 DEF StartInv, StartsOnlyCanaries
  <2>9. StartInv'
    BY <2>1, <2>2, <2>3, <2>7, <2>8 DEF StartInv
  <2> QED  BY <2>4, <2>5, <2>6, <2>9 DEF IInv
<1> QED
  BY <1>1, <1>2, <1>3, <1>4, <1>5, <1>6, <1>7, <1>8, <1>9, <1>10, <1>11, <1>12, <1>13
     DEF Next, efi_main, CheckPassword, LoadAndDecrypt, JumpToRamdisk

-----------------------------------------------------------------------------
LEMMA BootIInv == Spec => []IInv
BY InitIInv, NextIInv, PTL DEF Spec

(* Every variable of efi_main keeps its type, and the position of the      *)
(* handle never runs past the end of the payload it was opened on, over    *)
(* the header (main.c:363-386) and over all chunks (main.c:496-518).       *)
THEOREM BootTypeCorrect == Spec => []TypeOK
<1>1. IInv => TypeOK
  BY DEF IInv
<1> QED  BY <1>1, BootIInv, PTL

(* CheckPassword always looks at the header of the selected payload        *)
(* (main.c:363-386), after any number of refused passwords.                *)
THEOREM HeaderIsChecked == Spec => []ChecksTheHeader
<1>1. IInv => ChecksTheHeader
  BY DEF IInv, HandleInv, ChecksTheHeader, Opened
<1> QED  BY <1>1, BootIInv, PTL

(* What is announced, registered and started is the selected payload, read *)
(* without a gap by the loop over chunks (main.c:496-518), whatever its    *)
(* size and that of a chunk.                                               *)
THEOREM WholePayloadIsStarted == Spec => []ImageIsThePayload
<1>1. IInv => ImageIsThePayload
  BY DEF IInv
<1> QED  BY <1>1, BootIInv, PTL

(* A system that is started finds the place and the size of its image in   *)
(* the variables (main.c:155-169).                                         *)
THEOREM HintsAreSet == Spec => []HintsDescribeTheImage
<1>1. IInv => HintsDescribeTheImage
  BY DEF IInv, HintInv
<1> QED  BY <1>1, BootIInv, PTL

(* The search over the volumes starts those with a canary, in order and at *)
(* most once, also when a started system returns (main.c:769-843).         *)
THEOREM CanariesInOrder == Spec => []StartsOnlyCanaries
<1>1. IInv => StartsOnlyCanaries
  BY DEF IInv, StartInv
<1> QED  BY <1>1, BootIInv, PTL
=============================================================================
