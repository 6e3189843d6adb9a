------------------------------ MODULE Threading ------------------------------
(***************************************************************************)
(* The thread pool of the MFTAH loader: threading.c (the table of          *)
(* processors, its mutex, CreateThread, StartThread, FinishThread) driven  *)
(* by util.c (SpawnDecryptionWorker, work, UefiSpin).                      *)
(*                                                                         *)
(* The BSP runs the loader.  Every AP runs `work` for the thread that      *)
(* StartupThisAP gave it.  The notification function of a completion event *)
(* is FinishThread again, run on the BSP over the interrupted loader.      *)
(* These are the execution contexts of the model; a step of a context is   *)
(* one access to state that another context can see.                       *)
(*                                                                         *)
(* In the shipped loader the call of InitializeThreading is commented out  *)
(* (main.c:226): that is the outcome "skipped", in which everything runs   *)
(* synchronously on the BSP.                                               *)
(***************************************************************************)
EXTENDS Naturals

CONSTANTS
  MpCount,        \* how many processors GetNumberOfProcessors reports
  Bsp,            \* the number of the boot processor
  Present,        \* the processors that GetProcessorInfo finds
  Enabled,        \* the APs that are enabled once EnableDisableAP was called for each
  MaxThreads,     \* MFTAH_MAX_THREAD_COUNT, the size of Threads[]
  Layouts,        \* the ways in which the library may cut a payload into orders
  Outcomes,       \* how InitializeThreading may end in this instance
  MayFail,        \* whether the crypt hook and CreateEvent may fail
  MayElide        \* whether the build may drop the lock store of a short section

Proc == 0 .. MpCount - 1
AP   == Proc \ {Bsp}
Slot == 0 .. MaxThreads - 1

\* The context of the notification function, numbered past the processors.
Notify == MpCount
Ctx    == 0 .. MpCount

\* The library cuts the payload into consecutive orders, one for each slot:
\* where each starts (and where the last ends), how long it is in progress
\* intervals of 2^22 bytes, and which orders have suppress_progress.
LayoutAssumption(l) ==
  /\ l.length \in [0 .. MaxThreads - 1 -> Nat]
  /\ l.location \in [0 .. MaxThreads -> Nat]
  /\ l.location[0] = 0
  /\ \A s \in 0 .. MaxThreads - 1 : l.location[s + 1] = l.location[s] + l.length[s]
  /\ l.suppress \subseteq 0 .. MaxThreads - 1

ASSUME PoolAssumption ==
  /\ MpCount \in Nat \ {0}
  /\ Bsp \in 0 .. MpCount - 1
  /\ Present \subseteq 0 .. MpCount - 1
  /\ Bsp \in Present
  /\ Enabled \subseteq Present \ {Bsp}
  /\ MaxThreads \in Nat \ {0}
  /\ \A l \in Layouts : LayoutAssumption(l)
  /\ Outcomes \subseteq {"skipped", "unsupported", "failed", "ready"}
  /\ MayFail \in BOOLEAN
  /\ MayElide \in BOOLEAN

VARIABLES
  layout,         \* the orders of this payload; no action changes it
  protocol,       \* mEfiMpServicesProtocol is not NULL
  mpCount,        \* mSystemMultiprocessingContext.MpCount
  isWorking,      \* mSystemMultiprocessingContext.MpList[i].IsWorking
  mutex,          \* ThreadMutex
  context,        \* Threads[s].Context is not NULL
  started,        \* Threads[s].Started
  finished,       \* Threads[s].Finished
  assigned,       \* Threads[s].AssignedProcessorNumber
  place,          \* CurrentPlace of the context of Threads[s]
  decrypted,      \* how many intervals of the order's bytes were decrypted
  events,         \* the threads whose completion event is pending
  pc,             \* where each context is
  job,            \* the slot a context works on; for the loader its loop index
  idx,            \* the processor number a context works on
  pos,            \* the position of AES_CBC_decrypt_buffer on an AP
  fresh,          \* the list that RefreshMPs is filling
  limit,          \* NumberOfProcessors in InitializeThreading
  completed,      \* Completed in UefiSpin
  progress        \* Progress in UefiSpin

table   == <<protocol, mpCount, isWorking, mutex>>
threads == <<context, started, finished, assigned>>
payload == <<place, decrypted, pos>>
spin    == <<completed, progress>>
vars == <<table, threads, payload, events, pc, job, idx, fresh, limit, spin, layout>>

Length   == layout.length
Location == layout.location

\* The total that the library hands to UefiSpin.
QueuedBytes == Location[MaxThreads]

NoFlags == [q \in Proc |-> FALSE]

Parked  == {"idle", "return", "panic"}
InCrypt == {"crypt", "block"}
InFinish == {"finish", "fsync", "flock", "fclear", "funlock", "fmark"}
InRefresh == {"rsync", "rlock", "rcopy", "runlock"}
InStart == {"ssync", "slock", "smark", "sunlock", "sstart", "sassign"}
OnBsp   == {"init", "probe", "spawn", "spin", "visit", "scan", "tally", "count",
            "done"} \cup InStart

TypeOK ==
  /\ layout \in Layouts
  /\ protocol \in BOOLEAN
  /\ mpCount \in 0 .. MpCount
  /\ isWorking \in [Proc -> BOOLEAN]
  /\ mutex \in BOOLEAN
  /\ context \in [Slot -> BOOLEAN]
  /\ started \in [Slot -> BOOLEAN]
  /\ finished \in [Slot -> BOOLEAN]
  /\ assigned \in [Slot -> Proc]
  /\ place \in [Slot -> Nat]
  /\ decrypted \in [Slot -> Nat]
  /\ events \subseteq Slot
  /\ pc \in [Ctx -> Parked \cup InCrypt \cup InFinish \cup InRefresh \cup OnBsp]
  /\ job \in [Ctx -> 0 .. MaxThreads]
  /\ idx \in [Ctx -> 0 .. MpCount]
  /\ pos \in [Ctx -> Nat]
  /\ fresh \in [Ctx -> [Proc -> BOOLEAN]]
  /\ limit \in 0 .. MpCount
  /\ completed \in BOOLEAN
  /\ progress \in Nat

\* The statics of the loader are zero; the APs wait in the firmware.
Init ==
  /\ layout \in Layouts
  /\ protocol = FALSE /\ mpCount = 0 /\ isWorking = NoFlags /\ mutex = FALSE
  /\ context = [s \in Slot |-> FALSE] /\ started = [s \in Slot |-> FALSE]
  /\ finished = [s \in Slot |-> FALSE] /\ assigned = [s \in Slot |-> 0]
  /\ place = [s \in Slot |-> 0] /\ decrypted = [s \in Slot |-> 0]
  /\ events = {}
  /\ pc = [p \in Ctx |-> IF p = Bsp THEN "init" ELSE "idle"]
  /\ job = [p \in Ctx |-> 0] /\ idx = [p \in Ctx |-> 0] /\ pos = [p \in Ctx |-> 0]
  /\ fresh = [p \in Ctx |-> NoFlags]
  /\ limit = 0 /\ completed = TRUE /\ progress = 0

Goto(p, label) == pc' = [pc EXCEPT ![p] = label]

\* The loader runs only while no notification function interrupts it.
Loader(label) == pc[Bsp] = label /\ pc[Notify] = "idle"

IsThreadingEnabled == protocol \/ mpCount >= 1
------------------------------------------------------------------------------
(***************************************************************************)
(* Bugs that this code could plausibly have.  No action uses them: each is *)
(* put in the place of the action it is named after, to see that the       *)
(* property it should break does break.                                    *)
(***************************************************************************)
\* The fresh list is published without clearing it.
BugPublishMps ==
  /\ Loader("probe") /\ idx[Bsp] >= limit
  /\ mpCount' = limit
  /\ isWorking' = [q \in Proc |-> TRUE]
  /\ Goto(Bsp, "spawn")
  /\ UNCHANGED <<protocol, mutex, threads, payload, events, job, idx, fresh, limit, spin, layout>>

\* The loop ends one interval early.
BugSpinReturn ==
  /\ Loader("visit") /\ job[Bsp] = MaxThreads
  /\ completed \/ progress + 1 >= QueuedBytes
  /\ Goto(Bsp, "done")
  /\ UNCHANGED <<table, threads, payload, events, job, idx, fresh, limit, spin, layout>>

\* The loop goes on while either of its conditions holds.
BugSpinAgain ==
  /\ Loader("visit") /\ job[Bsp] = MaxThreads
  /\ ~completed \/ progress < QueuedBytes
  /\ completed' = TRUE /\ progress' = 0 /\ job' = [job EXCEPT ![Bsp] = 0]
  /\ UNCHANGED <<table, threads, payload, events, pc, idx, fresh, limit, layout>>

\* The refresh does not carry the flags over.
BugRefreshCopy(p) ==
  LET i == idx[p] IN
  /\ (p = Bsp => pc[Notify] = "idle") /\ pc[p] = "rcopy" /\ i < mpCount
  /\ p \notin AP /\ i \in Present
  /\ idx' = [idx EXCEPT ![p] = i + 1]
  /\ UNCHANGED <<table, threads, payload, events, pc, job, fresh, limit, spin, layout>>

\* A started thread is not marked as such.
BugStartStarted ==
  /\ Loader("sstart")
  /\ Goto(Bsp, "sassign")
  /\ UNCHANGED <<table, threads, payload, events, job, idx, fresh, limit, spin, layout>>

\* The hook stops before its last interval.
BugCryptReport(p) ==
  /\ pc[p] = "crypt"
  /\ place' = IF job[p] \in layout.suppress THEN place ELSE [place EXCEPT ![job[p]] = pos[p]]
  /\ Goto(p, IF pos[p] + 1 < Length[job[p]] THEN "block" ELSE "finish")
  /\ UNCHANGED <<table, threads, decrypted, pos, events, job, idx, fresh, limit, spin, layout>>

\* Processors are taken to be numbered from 1.
BugFinishEnter(p) ==
  /\ pc[p] = "finish" /\ ~finished[job[p]]
  /\ idx' = [idx EXCEPT ![p] = assigned[job[p]] - 1]
  /\ Goto(p, "fsync")
  /\ UNCHANGED <<table, threads, payload, events, job, fresh, limit, spin, layout>>

\* FinishThread forgets the flag.
BugFinishMark(p) ==
  /\ pc[p] = "fmark"
  /\ Goto(p, "rsync")
  /\ UNCHANGED <<table, threads, payload, events, job, idx, fresh, limit, spin, layout>>
------------------------------------------------------------------------------
(***************************************************************************)
(* InitializeThreading.  The list is published only when every processor   *)
(* answered; NOT_FOUND shortens the loop and skips one number.             *)
(***************************************************************************)
SkipThreading ==
  /\ Loader("init") /\ "skipped" \in Outcomes
  /\ Goto(Bsp, "spawn")
  /\ UNCHANGED <<table, threads, payload, events, job, idx, fresh, limit, spin, layout>>

MpServicesMissing ==
  /\ Loader("init") /\ "unsupported" \in Outcomes
  /\ Goto(Bsp, "spawn")
  /\ UNCHANGED <<table, threads, payload, events, job, idx, fresh, limit, spin, layout>>

\* The protocol stays set when a later call fails, and MpCount stays 0.
InitializeFails ==
  /\ Loader("init") \/ (Loader("probe") /\ idx[Bsp] < limit)
  /\ "failed" \in Outcomes
  /\ protocol' = TRUE
  /\ Goto(Bsp, "spawn")
  /\ UNCHANGED <<mpCount, isWorking, mutex, threads, payload, events, job, idx, fresh, limit, spin, layout>>

CountProcessors ==
  /\ Loader("init") /\ "ready" \in Outcomes
  /\ protocol' = TRUE
  /\ limit' = MpCount
  /\ Goto(Bsp, "probe")
  /\ UNCHANGED <<mpCount, isWorking, mutex, threads, payload, events, job, idx, fresh, spin, layout>>

\* An AP that EnableDisableAP cannot enable is only warned about: it stays in the
\* list, as available as the others.
ProbeProcessor ==
  /\ Loader("probe") /\ idx[Bsp] < limit
  /\ limit' = IF idx[Bsp] \in Present THEN limit ELSE limit - 1
  /\ idx' = [idx EXCEPT ![Bsp] = @ + 1]
  /\ UNCHANGED <<table, threads, payload, events, pc, job, fresh, spin, layout>>

PublishMps ==
  /\ Loader("probe") /\ idx[Bsp] >= limit
  /\ mpCount' = limit
  /\ isWorking' = NoFlags
  /\ Goto(Bsp, "spawn")
  /\ UNCHANGED <<protocol, mutex, threads, payload, events, job, idx, fresh, limit, spin, layout>>
------------------------------------------------------------------------------
(***************************************************************************)
(* SpawnDecryptionWorker, called by the library for the order of each slot *)
(* in turn.  A slot is used once, so it is never busy when it is created.  *)
(***************************************************************************)
SpawnNothing ==
  /\ Loader("spawn") /\ job[Bsp] < MaxThreads /\ Length[job[Bsp]] = 0
  /\ job' = [job EXCEPT ![Bsp] = @ + 1]
  /\ UNCHANGED <<table, threads, payload, events, pc, idx, fresh, limit, spin, layout>>

\* Without threading the hook runs here; its error makes decrypt fail and main.c panic.
SpawnSynchronously ==
  LET s == job[Bsp] IN
  /\ Loader("spawn") /\ s < MaxThreads /\ Length[s] > 0 /\ ~IsThreadingEnabled
  /\ decrypted' = [decrypted EXCEPT ![s] = @ + Length[s]]
  /\ job' = [job EXCEPT ![Bsp] = @ + 1]
  /\ UNCHANGED <<table, threads, place, pos, events, pc, idx, fresh, limit, spin, layout>>

\* A fresh context, and CreateThread on its slot.
SpawnThread ==
  LET s == job[Bsp] IN
  /\ Loader("spawn") /\ s < MaxThreads /\ Length[s] > 0 /\ IsThreadingEnabled
  /\ ~(started[s] /\ ~finished[s])
  /\ context' = [context EXCEPT ![s] = TRUE]
  /\ started' = [started EXCEPT ![s] = FALSE]
  /\ finished' = [finished EXCEPT ![s] = FALSE]
  /\ place' = [place EXCEPT ![s] = 0]
  /\ job' = [job EXCEPT ![Bsp] = @ + 1]
  /\ UNCHANGED <<table, assigned, decrypted, pos, events, pc, idx, fresh, limit, spin, layout>>

\* The hook fails, or CreateEvent does.
SpawnFails ==
  /\ Loader("spawn") /\ job[Bsp] < MaxThreads /\ Length[job[Bsp]] > 0 /\ MayFail
  /\ Goto(Bsp, "panic")
  /\ UNCHANGED <<table, threads, payload, events, job, idx, fresh, limit, spin, layout>>

\* Every order was handed out: the library calls the spin function.
CallSpin ==
  /\ Loader("spawn") /\ job[Bsp] = MaxThreads
  /\ Goto(Bsp, "spin")
  /\ UNCHANGED <<table, threads, payload, events, job, idx, fresh, limit, spin, layout>>
------------------------------------------------------------------------------
(***************************************************************************)
(* UefiSpin.                                                               *)
(***************************************************************************)
StartPass ==
  /\ completed' = TRUE
  /\ progress' = 0
  /\ job' = [job EXCEPT ![Bsp] = 0]

SpinDisabled ==
  /\ Loader("spin") /\ ~IsThreadingEnabled
  /\ Goto(Bsp, "done")
  /\ UNCHANGED <<table, threads, payload, events, job, idx, fresh, limit, spin, layout>>

SpinNothing ==
  /\ Loader("spin") /\ IsThreadingEnabled /\ QueuedBytes = 0
  /\ Goto(Bsp, "panic")
  /\ UNCHANGED <<table, threads, payload, events, job, idx, fresh, limit, spin, layout>>

SpinEnter ==
  /\ Loader("spin") /\ IsThreadingEnabled /\ QueuedBytes > 0
  /\ StartPass
  /\ Goto(Bsp, "visit")
  /\ UNCHANGED <<table, threads, payload, events, idx, fresh, limit, layout>>

\* A slot without a context is skipped; a waiting thread is tried again.
SpinSkip ==
  /\ Loader("visit") /\ job[Bsp] < MaxThreads /\ ~context[job[Bsp]]
  /\ job' = [job EXCEPT ![Bsp] = @ + 1]
  /\ UNCHANGED <<table, threads, payload, events, pc, idx, fresh, limit, spin, layout>>

SpinRetry ==
  /\ Loader("visit") /\ job[Bsp] < MaxThreads /\ context[job[Bsp]]
  /\ ~started[job[Bsp]] /\ ~finished[job[Bsp]]
  /\ Goto(Bsp, "rsync")
  /\ UNCHANGED <<table, threads, payload, events, job, idx, fresh, limit, spin, layout>>

SpinPast ==
  /\ Loader("visit") /\ job[Bsp] < MaxThreads /\ context[job[Bsp]]
  /\ started[job[Bsp]] \/ finished[job[Bsp]]
  /\ Goto(Bsp, "tally")
  /\ UNCHANGED <<table, threads, payload, events, job, idx, fresh, limit, spin, layout>>

SpinTallyFinished ==
  /\ Loader("tally")
  /\ completed' = (completed /\ finished[job[Bsp]])
  /\ Goto(Bsp, "count")
  /\ UNCHANGED <<table, threads, payload, events, job, idx, fresh, limit, progress, layout>>

SpinTallyProgress ==
  /\ Loader("count")
  /\ progress' = progress + place[job[Bsp]]
  /\ job' = [job EXCEPT ![Bsp] = @ + 1]
  /\ Goto(Bsp, "visit")
  /\ UNCHANGED <<table, threads, payload, events, idx, fresh, limit, completed, layout>>

SpinAgain ==
  /\ Loader("visit") /\ job[Bsp] = MaxThreads
  /\ ~completed /\ progress < QueuedBytes
  /\ StartPass
  /\ UNCHANGED <<table, threads, payload, events, pc, idx, fresh, limit, layout>>

SpinReturn ==
  /\ Loader("visit") /\ job[Bsp] = MaxThreads
  /\ completed \/ progress >= QueuedBytes
  /\ Goto(Bsp, "done")
  /\ UNCHANGED <<table, threads, payload, events, job, idx, fresh, limit, spin, layout>>
------------------------------------------------------------------------------
(***************************************************************************)
(* The mutex macros.  MUTEX_SYNC and MUTEX_LOCK are two accesses.          *)
(* ThreadMutex is not volatile: in a section with no opaque call inside    *)
(* the optimiser may drop the TRUE that is overwritten by the unlock.      *)
(***************************************************************************)
Runs(p) == p = Bsp => pc[Notify] = "idle"

MutexSync(p, from, to) ==
  /\ Runs(p) /\ pc[p] = from /\ ~mutex
  /\ Goto(p, to)
  /\ UNCHANGED <<table, threads, payload, events, job, idx, fresh, limit, spin, layout>>

MutexLock(p, from, to) ==
  /\ Runs(p) /\ pc[p] = from
  /\ mutex' \in {TRUE} \cup (IF MayElide /\ from # "rlock" THEN {mutex} ELSE {})
  /\ Goto(p, to)
  /\ UNCHANGED <<protocol, mpCount, isWorking, threads, payload, events, job, fresh, limit, spin, layout>>

MutexUnlock(p, from, to) ==
  /\ Runs(p) /\ pc[p] = from
  /\ mutex' = FALSE
  /\ Goto(p, to)
  /\ UNCHANGED <<protocol, mpCount, isWorking, threads, payload, events, job, fresh, limit, spin, layout>>
------------------------------------------------------------------------------
(***************************************************************************)
(* RefreshMPs: the flags are copied one by one into a fresh list, which    *)
(* then replaces the published one.  GetProcessorInfo refuses an AP, so    *)
(* there the refresh always aborts.  A write to the list that has just     *)
(* been replaced is lost, as is a write between the copy and the swap: the *)
(* model has the second, whose outcome is the same.                        *)
(***************************************************************************)
RefreshSync(p) == MutexSync(p, "rsync", "rlock")

RefreshLock(p) ==
  /\ MutexLock(p, "rlock", "rcopy")
  /\ idx' = [idx EXCEPT ![p] = 0]

RefreshCopy(p) ==
  LET i == idx[p] IN
  /\ Runs(p) /\ pc[p] = "rcopy" /\ i < mpCount
  /\ p \notin AP /\ i \in Present
  /\ fresh' = [fresh EXCEPT ![p][i] = isWorking[i]]
  /\ idx' = [idx EXCEPT ![p] = i + 1]
  /\ UNCHANGED <<table, threads, payload, events, pc, job, limit, spin, layout>>

\* GetProcessorInfo refuses, or the pool of the new list was not granted.
RefreshAbort(p) ==
  /\ Runs(p) /\ pc[p] = "rcopy"
  /\ \/ idx[p] < mpCount /\ (p \in AP \/ idx[p] \notin Present)
     \/ MayFail
  /\ fresh' = [fresh EXCEPT ![p] = NoFlags]
  /\ Goto(p, "runlock")
  /\ UNCHANGED <<table, threads, payload, events, job, idx, limit, spin, layout>>

RefreshSwap(p) ==
  /\ Runs(p) /\ pc[p] = "rcopy" /\ idx[p] >= mpCount
  /\ isWorking' = fresh[p]
  /\ fresh' = [fresh EXCEPT ![p] = NoFlags]
  /\ Goto(p, "runlock")
  /\ UNCHANGED <<protocol, mpCount, mutex, threads, payload, events, job, idx, limit, spin, layout>>

\* Back to the scan of StartThread, or from FinishThread to its caller.
RefreshReturn(p) ==
  /\ MutexUnlock(p, "runlock", IF p = Bsp THEN "scan" ELSE "return")
  /\ idx' = [idx EXCEPT ![p] = 0]
------------------------------------------------------------------------------
(***************************************************************************)
(* StartThread with Wait = FALSE, after its RefreshMPs.  Its first two     *)
(* tests repeat those of UefiSpin, its only caller.                        *)
(***************************************************************************)
ScanUnavailable ==
  LET i == idx[Bsp] IN
  /\ Loader("scan") /\ i < mpCount
  /\ i = Bsp \/ isWorking[i]
  /\ idx' = [idx EXCEPT ![Bsp] = @ + 1]
  /\ UNCHANGED <<table, threads, payload, events, pc, job, fresh, limit, spin, layout>>

ScanExhausted ==
  /\ Loader("scan") /\ idx[Bsp] >= mpCount
  /\ Goto(Bsp, "tally")
  /\ UNCHANGED <<table, threads, payload, events, job, idx, fresh, limit, spin, layout>>

\* The firmware starts an idle AP at once, and refuses a busy, a disabled or an
\* absent one; then StartThread returns without a look at the APs behind it.
StartupThisAP ==
  LET i == idx[Bsp] IN
  /\ Loader("scan") /\ i < mpCount /\ i # Bsp /\ ~isWorking[i]
  /\ i \in Enabled /\ pc[i] = "idle"
  /\ pc' = [pc EXCEPT ![Bsp] = "ssync", ![i] = "crypt"]
  /\ job' = [job EXCEPT ![i] = job[Bsp]]
  /\ pos' = [pos EXCEPT ![i] = 0]
  /\ UNCHANGED <<table, threads, place, decrypted, events, idx, fresh, limit, spin, layout>>

StartupRefused ==
  LET i == idx[Bsp] IN
  /\ Loader("scan") /\ i < mpCount /\ i # Bsp /\ ~isWorking[i]
  /\ i \notin Enabled \/ pc[i] # "idle"
  /\ Goto(Bsp, "tally")
  /\ UNCHANGED <<table, threads, payload, events, job, idx, fresh, limit, spin, layout>>

StartSync == MutexSync(Bsp, "ssync", "slock")

StartLock == MutexLock(Bsp, "slock", "smark") /\ UNCHANGED idx

StartMark ==
  /\ Loader("smark")
  /\ isWorking' = [isWorking EXCEPT ![idx[Bsp]] = TRUE]
  /\ Goto(Bsp, "sunlock")
  /\ UNCHANGED <<protocol, mpCount, mutex, threads, payload, events, job, idx, fresh, limit, spin, layout>>

StartUnlock == MutexUnlock(Bsp, "sunlock", "sstart") /\ UNCHANGED idx

StartStarted ==
  /\ Loader("sstart")
  /\ started' = [started EXCEPT ![job[Bsp]] = TRUE]
  /\ Goto(Bsp, "sassign")
  /\ UNCHANGED <<table, context, finished, assigned, payload, events, job, idx, fresh, limit, spin, layout>>

StartAssign ==
  /\ Loader("sassign")
  /\ assigned' = [assigned EXCEPT ![job[Bsp]] = idx[Bsp]]
  /\ Goto(Bsp, "tally")
  /\ UNCHANGED <<table, context, started, finished, payload, events, job, idx, fresh, limit, spin, layout>>
------------------------------------------------------------------------------
(***************************************************************************)
(* work: the crypt hook reports its position before every interval and     *)
(* once more at the end, unless progress is suppressed.                    *)
(***************************************************************************)
CryptReport(p) ==
  /\ pc[p] = "crypt"
  /\ place' = IF job[p] \in layout.suppress THEN place ELSE [place EXCEPT ![job[p]] = pos[p]]
  /\ Goto(p, IF pos[p] < Length[job[p]] THEN "block" ELSE "finish")
  /\ UNCHANGED <<table, threads, decrypted, pos, events, job, idx, fresh, limit, spin, layout>>

CryptBlocks(p) ==
  /\ pc[p] = "block"
  /\ decrypted' = [decrypted EXCEPT ![job[p]] = @ + 1]
  /\ pos' = [pos EXCEPT ![p] = @ + 1]
  /\ Goto(p, "crypt")
  /\ UNCHANGED <<table, threads, place, events, job, idx, fresh, limit, spin, layout>>

\* The hook reports an error: PANIC, on the AP.
CryptFails(p) ==
  /\ pc[p] = "block" /\ MayFail
  /\ Goto(p, "panic")
  /\ UNCHANGED <<table, threads, payload, events, job, idx, fresh, limit, spin, layout>>
------------------------------------------------------------------------------
(***************************************************************************)
(* FinishThread, at the end of work on an AP and as notification function. *)
(***************************************************************************)
FinishAlready(p) ==
  /\ pc[p] = "finish" /\ finished[job[p]]
  /\ Goto(p, "return")
  /\ UNCHANGED <<table, threads, payload, events, job, idx, fresh, limit, spin, layout>>

FinishEnter(p) ==
  /\ pc[p] = "finish" /\ ~finished[job[p]]
  /\ idx' = [idx EXCEPT ![p] = assigned[job[p]]]
  /\ Goto(p, "fsync")
  /\ UNCHANGED <<table, threads, payload, events, job, fresh, limit, spin, layout>>

FinishSync(p) == MutexSync(p, "fsync", "flock")

FinishLock(p) == MutexLock(p, "flock", "fclear") /\ UNCHANGED idx

FinishClear(p) ==
  /\ pc[p] = "fclear"
  /\ isWorking' = [isWorking EXCEPT ![idx[p]] = FALSE]
  /\ Goto(p, "funlock")
  /\ UNCHANGED <<protocol, mpCount, mutex, threads, payload, events, job, idx, fresh, limit, spin, layout>>

FinishUnlock(p) == MutexUnlock(p, "funlock", "fmark") /\ UNCHANGED idx

\* Finished = TRUE, then the call of RefreshMPs.
FinishMark(p) ==
  /\ pc[p] = "fmark"
  /\ finished' = [finished EXCEPT ![job[p]] = TRUE]
  /\ Goto(p, "rsync")
  /\ UNCHANGED <<table, context, started, assigned, payload, events, job, idx, fresh, limit, spin, layout>>

(***************************************************************************)
(* The firmware: it notices that an AP returned, and signals the event of  *)
(* its thread or fails to; it notifies while no notification is running.   *)
(***************************************************************************)
ApReturns(p) ==
  /\ p \in AP /\ pc[p] = "return"
  /\ Goto(p, "idle")
  /\ events' \in {events, events \cup {job[p]}}
  /\ UNCHANGED <<table, threads, payload, job, idx, fresh, limit, spin, layout>>

NotifyEvent(s) ==
  /\ pc[Notify] = "idle" /\ s \in events
  /\ events' = events \ {s}
  /\ job' = [job EXCEPT ![Notify] = s]
  /\ Goto(Notify, "finish")
  /\ UNCHANGED <<table, threads, payload, idx, fresh, limit, spin, layout>>

NotifyReturns ==
  /\ pc[Notify] = "return"
  /\ Goto(Notify, "idle")
  /\ UNCHANGED <<table, threads, payload, events, job, idx, fresh, limit, spin, layout>>
------------------------------------------------------------------------------
InitializeThreading ==
  \/ SkipThreading \/ MpServicesMissing \/ InitializeFails
  \/ CountProcessors \/ ProbeProcessor \/ PublishMps

SpawnDecryptionWorker ==
  SpawnNothing \/ SpawnSynchronously \/ SpawnThread \/ SpawnFails \/ CallSpin

UefiSpin ==
  \/ SpinDisabled \/ SpinNothing \/ SpinEnter
  \/ SpinSkip \/ SpinRetry \/ SpinPast
  \/ SpinTallyFinished \/ SpinTallyProgress \/ SpinAgain \/ SpinReturn

StartThread ==
  \/ ScanUnavailable \/ ScanExhausted \/ StartupThisAP \/ StartupRefused
  \/ StartLock \/ StartMark \/ StartUnlock \/ StartStarted \/ StartAssign

LoaderStep == InitializeThreading \/ SpawnDecryptionWorker \/ UefiSpin \/ StartThread

RefreshMPs(p) ==
  RefreshLock(p) \/ RefreshCopy(p) \/ RefreshAbort(p) \/ RefreshSwap(p) \/ RefreshReturn(p)

work(p) == CryptReport(p) \/ CryptBlocks(p) \/ CryptFails(p)

FinishThread(p) ==
  \/ FinishAlready(p) \/ FinishEnter(p) \/ FinishLock(p)
  \/ FinishClear(p) \/ FinishUnlock(p) \/ FinishMark(p)

\* A context polls the mutex.
Await(p) == RefreshSync(p) \/ FinishSync(p) \/ (p = Bsp /\ StartSync)

FirmwareStep ==
  \/ \E p \in AP : ApReturns(p)
  \/ \E s \in Slot : NotifyEvent(s)
  \/ NotifyReturns

\* The loader went on or panicked, and nothing else is left to run.
Halted ==
  /\ pc[Bsp] \in {"done", "panic"}
  /\ \A p \in Ctx \ {Bsp} : pc[p] \in {"idle", "panic"}
  /\ events = {}
  /\ UNCHANGED vars

Next ==
  \/ LoaderStep
  \/ \E p \in Ctx : Await(p) \/ RefreshMPs(p)
  \/ \E p \in AP : work(p)
  \/ \E p \in AP \cup {Notify} : FinishThread(p)
  \/ FirmwareStep
  \/ Halted

Spec == Init /\ [][Next]_vars

(***************************************************************************)
(* Every processor keeps executing.  A context that polls the mutex every  *)
(* 250 ms meets it free infinitely often if it is free infinitely often:   *)
(* the holders keep it for microseconds and the two periods are unrelated. *)
(* The firmware notices every AP that returned.                            *)
(***************************************************************************)
Fairness ==
  /\ WF_vars(LoaderStep)
  /\ \A p \in Ctx : SF_vars(Await(p)) /\ WF_vars(RefreshMPs(p))
  /\ \A p \in AP : WF_vars(work(p)) /\ WF_vars(ApReturns(p))
  /\ \A p \in AP \cup {Notify} : WF_vars(FinishThread(p))
  /\ WF_vars(NotifyReturns)

FairSpec == Spec /\ Fairness
------------------------------------------------------------------------------
(* What the pool promises. *)

\* A thread that FinishThread marked Finished has decrypted its whole order:
\* the flag is what UefiSpin takes for completion (util.c:272).
FinishedMeansDecrypted ==
  \A s \in Slot : finished[s] => decrypted[s] = Length[s]

\* When UefiSpin returns to the library every byte of the payload is decrypted,
\* whether it left on Completed or on Progress >= TotalProgress (util.c:282).
SpinReturnsDecrypted ==
  pc[Bsp] = "done" => \A s \in Slot : decrypted[s] = Length[s]

\* No part of an order is decrypted twice, which would destroy it: a thread is
\* never started a second time, although StartupThisAP comes before Started
\* is set and the AP may be done by then (threading.c:322-342).
DecryptedOnce ==
  \A s \in Slot : decrypted[s] <= Length[s]

\* By the time a completion event is notified, `work` has already marked the
\* thread: the notification function returns at once (threading.c:365), and so
\* never waits on the BSP for the mutex of the code it interrupted.
NotifyNeverBlocks ==
  pc[Notify] \in {"idle", "finish", "return"}

\* An AP that is decrypting is marked IsWorking from the moment StartThread is
\* done with it, through every RefreshMPs and every FinishThread of the other
\* APs.  It needs MP 0 to be the BSP: a thread that ends before it was assigned
\* clears the flag of MP 0 (threading.c:370).
WorkingApIsMarked ==
  Bsp = 0 =>
    \A p \in AP : pc[p] \in InCrypt =>
      \/ isWorking[p]
      \/ pc[Bsp] \in {"ssync", "slock", "smark"} /\ idx[Bsp] = p

\* The decryption ends: UefiSpin returns, or the loader has panicked.
SpinTerminates == <>(pc[Bsp] \in {"done", "panic"})

\* A thread that was created is started at some time, even when it first finds
\* every AP taken (util.c:215-219).
EveryThreadStarts ==
  \A s \in Slot : context[s] ~> (started[s] \/ pc[Bsp] = "panic")
==============================================================================
