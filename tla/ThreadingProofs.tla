--------------------------- MODULE ThreadingProofs ---------------------------
(***************************************************************************)
(* The safety of the thread pool for every number of processors and slots, *)
(* every layout of the orders and every outcome of InitializeThreading.    *)
(***************************************************************************)
EXTENDS Threading, TLAPS

\* The loader before its first thread can run.
PreSpin == {"init", "probe", "spawn", "spin"}

\* The loader inside UefiSpin; of these, with a slot in hand; of these, waiting.
Waiting  == InRefresh \cup {"scan"}
Starting == {"ssync", "slock", "smark", "sunlock", "sstart"}
AtSlot   == Waiting \cup Starting \cup {"sassign", "tally", "count"}
Spinning == AtSlot \cup {"visit"}

\* StartupThisAP was called for the thread.
Launched(s) == started[s] \/ (pc[Bsp] \in Starting /\ job[Bsp] = s)

\* An AP has the thread, and FinishThread has not marked it.
Holding(p) == pc[p] \in InCrypt \cup InFinish \cup {"panic"}

ControlInv ==
  /\ pc[Bsp] \in PreSpin \cup Spinning \cup {"done", "panic"}
  /\ \A p \in AP : pc[p] \in Parked \cup InCrypt \cup InFinish \cup InRefresh
  /\ \A p \in AP : pc[p] # "idle" => job[p] \in Slot /\ IsThreadingEnabled
  /\ pc[Bsp] \in {"init", "probe"} => job[Bsp] = 0
  /\ pc[Bsp] \in {"spin", "done"} => job[Bsp] = MaxThreads
  /\ pc[Bsp] \in Spinning \cup {"probe"} => IsThreadingEnabled
  /\ pc[Bsp] \in AtSlot => job[Bsp] \in Slot /\ context[job[Bsp]]
  /\ pc[Bsp] \in Waiting => ~started[job[Bsp]] /\ ~finished[job[Bsp]]
  /\ pc[Bsp] \in Starting => ~started[job[Bsp]]
  /\ pc[Bsp] \in Starting \cup {"sassign"} => idx[Bsp] \in Proc

QuietInv ==
  pc[Bsp] \in PreSpin =>
    /\ \A s \in Slot : ~started[s] /\ ~finished[s]
    /\ \A p \in AP : pc[p] = "idle"
    /\ pc[Notify] = "idle"
    /\ events = {}

NotifyInv ==
  /\ NotifyNeverBlocks
  /\ pc[Notify] # "idle" => job[Notify] \in Slot
  /\ pc[Notify] = "finish" => finished[job[Notify]]
  /\ \A s \in events : finished[s]
  /\ \A p \in AP : pc[p] \in InRefresh \cup {"return"} => finished[job[p]]

\* A thread is with one AP at most, and its order is where that AP is.
HolderInv ==
  \A p \in AP : Holding(p) =>
    /\ Launched(job[p])
    /\ ~finished[job[p]]
    /\ decrypted[job[p]] = pos[p]
    /\ pos[p] <= Length[job[p]]
    /\ pc[p] = "block" => pos[p] < Length[job[p]]
    /\ pc[p] \in InFinish => pos[p] = Length[job[p]]
    /\ \A q \in AP : Holding(q) /\ job[q] = job[p] => q = p

OrderInv ==
  /\ FinishedMeansDecrypted
  /\ DecryptedOnce
  /\ \A s \in Slot : place[s] <= decrypted[s]
  /\ \A s \in Slot : ~Launched(s) => ~finished[s]
  /\ IsThreadingEnabled => \A s \in Slot : ~Launched(s) => decrypted[s] = 0
  /\ ~IsThreadingEnabled =>
       \A s \in Slot : decrypted[s] = IF s < job[Bsp] THEN Length[s] ELSE 0

\* Once the orders were handed out, every order that has bytes has a context.
SpawnInv ==
  IsThreadingEnabled =>
    \A s \in Slot :
      Length[s] > 0
      /\ (pc[Bsp] \in Spinning \cup {"spin"} \/ (pc[Bsp] = "spawn" /\ s < job[Bsp]))
        => context[s]

\* What UefiSpin has seen of the slots before its index.
TallyInv ==
  pc[Bsp] \in Spinning =>
    /\ progress <= Location[job[Bsp]]
    /\ progress = Location[job[Bsp]] =>
         \A s \in Slot : s < job[Bsp] => decrypted[s] = Length[s]
    /\ completed =>
         \A s \in Slot :
           context[s] /\ (s < job[Bsp] \/ (s = job[Bsp] /\ pc[Bsp] = "count"))
             => finished[s]

IInv ==
  /\ TypeOK
  /\ ControlInv
  /\ QuietInv
  /\ NotifyInv
  /\ HolderInv
  /\ OrderInv
  /\ SpawnInv
  /\ TallyInv
  /\ SpinReturnsDecrypted

------------------------------------------------------------------------------
(* Facts about the constants.  The index sets stay unexpanded below. *)

LEMMA ConstFacts ==
  /\ MpCount \in Nat \ {0}
  /\ MaxThreads \in Nat \ {0}
  BY PoolAssumption

LEMMA SetFacts ==
  /\ Bsp \in Ctx
  /\ Bsp \in Proc
  /\ Bsp \notin AP
  /\ Notify \in Ctx
  /\ Notify # Bsp
  /\ Notify \notin AP
  /\ \A p \in AP : p \in Ctx /\ p \in Proc
  /\ \A p \in Ctx : p \in AP \/ p = Bsp \/ p = Notify
  /\ 0 \in Proc
  BY PoolAssumption DEF Ctx, Proc, AP, Notify

LEMMA SlotFacts ==
  \A n : n \in Slot <=> n \in 0 .. MaxThreads /\ n < MaxThreads
  BY ConstFacts DEF Slot

LEMMA ProcFacts ==
  \A n : n \in Proc <=> n \in 0 .. MpCount /\ n < MpCount
  BY ConstFacts DEF Proc

LEMMA LayoutFacts ==
  ASSUME TypeOK
  PROVE  /\ Length \in [Slot -> Nat]
         /\ Location \in [0 .. MaxThreads -> Nat]
         /\ Location[0] = 0
         /\ \A s \in Slot : Location[s + 1] = Location[s] + Length[s]
  BY PoolAssumption DEF TypeOK, LayoutAssumption, Slot, Length, Location

USE ConstFacts, SetFacts
USE DEF table, threads, payload, spin, Goto, Loader, Runs, NoFlags,
        MutexSync, MutexLock, MutexUnlock, IsThreadingEnabled,
        Parked, InCrypt, InFinish, InRefresh, InStart, OnBsp,
        PreSpin, Waiting, Starting, AtSlot, Spinning
------------------------------------------------------------------------------
(* Steps of the loader inside UefiSpin: no AP moves and no order changes. *)
LEMMA LoaderFrame ==
  ASSUME IInv, TypeOK', ControlInv', TallyInv', SpinReturnsDecrypted',
         UNCHANGED <<protocol, mpCount, context, finished, payload, events, layout>>,
         pc[Bsp] \in Spinning, pc'[Bsp] \notin PreSpin,
         \A p \in Ctx \ {Bsp} : pc'[p] = pc[p] /\ job'[p] = job[p],
         \A s \in Slot : Launched(s)' <=> Launched(s)
  PROVE  IInv'
<1>1. Length' = Length
  BY DEF Length
<1>2. QuietInv'
  BY DEF QuietInv
<1>3. NotifyInv'
  BY DEF IInv, NotifyInv, NotifyNeverBlocks
<1>4. HolderInv'
  <2> SUFFICES ASSUME NEW p \in AP, Holding(p)'
               PROVE  /\ Launched(job[p])'
                      /\ ~finished[job[p]]'
                      /\ decrypted[job[p]]' = pos[p]'
                      /\ pos[p]' <= Length[job[p]]'
                      /\ pc[p]' = "block" => pos[p]' < Length[job[p]]'
                      /\ pc[p]' \in InFinish => pos[p]' = Length[job[p]]'
                      /\ \A q \in AP : Holding(q)' /\ job[q]' = job[p]' => q = p
    BY DEF HolderInv
  <2>1. \A q \in AP : pc'[q] = pc[q] /\ job'[q] = job[q] /\ (Holding(q)' <=> Holding(q))
    BY DEF Holding
  <2>2. job[p] \in Slot
    BY <2>1 DEF IInv, ControlInv, Holding
  <2> QED
    BY <1>1, <2>1, <2>2 DEF IInv, HolderInv
<1>5. OrderInv'
  BY <1>1 DEF IInv, OrderInv, FinishedMeansDecrypted, DecryptedOnce, ControlInv
<1>6. SpawnInv'
  BY <1>1 DEF IInv, SpawnInv
<1> QED
  BY <1>2, <1>3, <1>4, <1>5, <1>6 DEF IInv
------------------------------------------------------------------------------
(* The tally of UefiSpin, slot by slot. *)
LEMMA SpinSkipStep == ASSUME IInv, SpinSkip PROVE IInv'
<1> DEFINE s == job[Bsp]
<1> USE DEF SpinSkip
<1>1. Length' = Length /\ Location' = Location
  BY DEF Length, Location
<1>2. /\ TypeOK /\ s \in 0 .. MaxThreads /\ s \in Slot
      /\ s + 1 \in 0 .. MaxThreads
  BY SlotFacts DEF IInv, TypeOK
<1>3. job' = [job EXCEPT ![Bsp] = s + 1] /\ job'[Bsp] = s + 1
  BY <1>2 DEF TypeOK
<1>4. job' \in [Ctx -> 0 .. MaxThreads]
  BY <1>2, <1>3 DEF TypeOK
<1>5. TypeOK'
  BY <1>2, <1>4 DEF TypeOK
<1>6. ControlInv'
  BY <1>2, <1>3 DEF IInv, ControlInv
<1>7. Length[s] = 0 /\ decrypted[s] = 0 /\ ~context[s] /\ Location[s + 1] = Location[s]
  <2>1. Length[s] \in Nat /\ decrypted[s] \in Nat /\ Location[s] \in Nat
    BY <1>2, LayoutFacts DEF TypeOK
  <2>2. Length[s] = 0
    BY <1>2, <2>1 DEF IInv, SpawnInv, ControlInv
  <2> QED
    BY <1>2, <2>1, <2>2, LayoutFacts DEF IInv, OrderInv, DecryptedOnce
<1>8. \A r \in Slot : r < s + 1 => r < s \/ r = s
  BY <1>2, SlotFacts
<1>9. TallyInv'
  BY <1>1, <1>2, <1>3, <1>7, <1>8 DEF IInv, TallyInv
<1>10. \A r \in Slot : Launched(r)' <=> Launched(r)
  BY DEF Launched
<1>11. \A p \in Ctx \ {Bsp} : pc'[p] = pc[p] /\ job'[p] = job[p]
  BY <1>3 DEF IInv, TypeOK
<1>12. SpinReturnsDecrypted'
  BY DEF SpinReturnsDecrypted
<1> QED
  BY <1>5, <1>6, <1>9, <1>10, <1>11, <1>12, LoaderFrame

LEMMA SpinTallyFinishedStep == ASSUME IInv, SpinTallyFinished PROVE IInv'
<1> DEFINE s == job[Bsp]
<1> USE DEF SpinTallyFinished
<1>1. Length' = Length /\ Location' = Location
  BY DEF Length, Location
<1>2. TypeOK /\ s \in Slot /\ s \in 0 .. MaxThreads /\ finished[s] \in BOOLEAN
  BY SlotFacts DEF IInv, TypeOK, ControlInv
<1>3. TypeOK'
  BY <1>2 DEF TypeOK
<1>4. ControlInv'
  BY <1>2 DEF IInv, ControlInv, TypeOK
<1>5. TallyInv'
  BY <1>1, <1>2 DEF IInv, TallyInv, TypeOK
<1>6. SpinReturnsDecrypted'
  BY <1>2 DEF SpinReturnsDecrypted, TypeOK
<1>7. \A r \in Slot : Launched(r)' <=> Launched(r)
  BY <1>2 DEF Launched, TypeOK
<1> QED
  BY <1>2, <1>3, <1>4, <1>5, <1>6, <1>7, LoaderFrame DEF TypeOK

LEMMA SpinTallyProgressStep == ASSUME IInv, SpinTallyProgress PROVE IInv'
<1> DEFINE s == job[Bsp]
<1> USE DEF SpinTallyProgress
<1>1. Length' = Length /\ Location' = Location
  BY DEF Length, Location
<1>2. /\ TypeOK /\ s \in Slot /\ s \in 0 .. MaxThreads /\ context[s]
      /\ s + 1 \in 0 .. MaxThreads
  BY SlotFacts DEF IInv, TypeOK, ControlInv
<1>3. /\ job' = [job EXCEPT ![Bsp] = s + 1] /\ job'[Bsp] = s + 1
      /\ pc'[Bsp] = "visit"
  BY <1>2 DEF TypeOK
<1>4. /\ place[s] \in Nat /\ decrypted[s] \in Nat /\ Length[s] \in Nat
      /\ Location[s] \in Nat /\ progress \in Nat
      /\ Location[s + 1] = Location[s] + Length[s]
  BY <1>2, LayoutFacts DEF TypeOK
<1>5. TypeOK'
  <2>1. job' \in [Ctx -> 0 .. MaxThreads]
    BY <1>2, <1>3 DEF TypeOK
  <2>2. progress' \in Nat
    BY <1>4
  <2> QED
    BY <1>2, <2>1, <2>2 DEF TypeOK
<1>6. ControlInv'
  BY <1>2, <1>3 DEF IInv, ControlInv, TypeOK
<1>7. \A r \in Slot : r < s + 1 => r < s \/ r = s
  BY <1>2, SlotFacts
<1>8. place[s] <= decrypted[s] /\ decrypted[s] <= Length[s]
  BY <1>2 DEF IInv, OrderInv, DecryptedOnce
<1>9. progress <= Location[s]
  BY DEF IInv, TallyInv
<1>10. /\ progress' <= Location[s + 1]
       /\ progress' = Location[s + 1] => progress = Location[s] /\ decrypted[s] = Length[s]
  BY <1>4, <1>8, <1>9
<1>11. TallyInv'
  BY <1>1, <1>2, <1>3, <1>7, <1>10 DEF IInv, TallyInv
<1>12. SpinReturnsDecrypted'
  BY <1>3 DEF SpinReturnsDecrypted
<1>13. \A r \in Slot : Launched(r)' <=> Launched(r)
  BY <1>3 DEF Launched
<1>14. \A p \in Ctx \ {Bsp} : pc'[p] = pc[p] /\ job'[p] = job[p]
  BY <1>2, <1>3 DEF TypeOK
<1> QED
  BY <1>3, <1>5, <1>6, <1>11, <1>12, <1>13, <1>14, LoaderFrame

LEMMA SpinAgainStep == ASSUME IInv, SpinAgain PROVE IInv'
<1> USE DEF SpinAgain, StartPass
<1>1. Length' = Length /\ Location' = Location
  BY DEF Length, Location
<1>2. TypeOK /\ 0 \in 0 .. MaxThreads
  BY DEF IInv
<1>3. job' = [job EXCEPT ![Bsp] = 0] /\ job'[Bsp] = 0
  BY <1>2 DEF TypeOK
<1>4. TypeOK'
  <2>1. job' \in [Ctx -> 0 .. MaxThreads]
    BY <1>2, <1>3 DEF TypeOK
  <2> QED
    BY <1>2, <2>1 DEF TypeOK
<1>5. ControlInv'
  BY <1>2, <1>3 DEF IInv, ControlInv, TypeOK
<1>6. \A s \in Slot : ~(s < 0) /\ (s = 0 => s = job'[Bsp])
  BY <1>3, SlotFacts
<1>7. TallyInv'
  BY <1>1, <1>2, <1>3, <1>6, LayoutFacts DEF TallyInv
<1>8. SpinReturnsDecrypted'
  BY DEF SpinReturnsDecrypted
<1>9. \A s \in Slot : Launched(s)' <=> Launched(s)
  BY DEF Launched
<1>10. \A p \in Ctx \ {Bsp} : pc'[p] = pc[p] /\ job'[p] = job[p]
  BY <1>2, <1>3 DEF TypeOK
<1> QED
  BY <1>4, <1>5, <1>7, <1>8, <1>9, <1>10, LoaderFrame

LEMMA SpinReturnStep == ASSUME IInv, SpinReturn PROVE IInv'
<1> USE DEF SpinReturn
<1>1. Length' = Length /\ TypeOK
  BY DEF Length, IInv
<1>2. TypeOK'
  BY <1>1 DEF TypeOK
<1>3. ControlInv'
  BY <1>1 DEF IInv, ControlInv, TypeOK
<1>4. TallyInv'
  BY <1>1 DEF TallyInv, TypeOK
<1>5. \A s \in Slot : s < MaxThreads /\ decrypted[s] \in Nat /\ Length[s] \in Nat
  BY <1>1, SlotFacts, LayoutFacts DEF TypeOK
<1>6. \A s \in Slot : decrypted[s] = Length[s]
  <2>1. CASE completed
    <3>1. \A s \in Slot : ~context[s] => decrypted[s] = Length[s]
      BY <1>5 DEF IInv, SpawnInv, ControlInv, OrderInv, DecryptedOnce
    <3>2. \A s \in Slot : context[s] => finished[s]
      BY <2>1, <1>5 DEF IInv, TallyInv
    <3> QED
      BY <3>1, <3>2 DEF IInv, OrderInv, FinishedMeansDecrypted
  <2>2. CASE progress >= QueuedBytes
    <3>1. progress \in Nat /\ Location[MaxThreads] \in Nat /\ job[Bsp] = MaxThreads
      BY <1>1, LayoutFacts DEF TypeOK
    <3>2. progress = Location[job[Bsp]]
      BY <2>2, <3>1 DEF IInv, TallyInv, QueuedBytes
    <3> QED
      BY <1>5, <3>1, <3>2 DEF IInv, TallyInv
  <2> QED
    BY <2>1, <2>2
<1>7. SpinReturnsDecrypted'
  BY <1>1, <1>6 DEF SpinReturnsDecrypted
<1>8. \A s \in Slot : Launched(s)' <=> Launched(s)
  BY <1>1 DEF Launched, TypeOK
<1> QED
  BY <1>1, <1>2, <1>3, <1>4, <1>7, <1>8, LoaderFrame DEF TypeOK
------------------------------------------------------------------------------
(* Steps that only move the loader on, inside StartThread and RefreshMPs. *)
LEMMA LoaderMove ==
  ASSUME IInv, TypeOK',
         UNCHANGED <<protocol, mpCount, threads, payload, events, job, layout, spin>>,
         NEW label, pc' = [pc EXCEPT ![Bsp] = label],
         \/ pc[Bsp] \in Waiting /\ label \in Waiting \cup {"tally"}
         \/ pc[Bsp] \in Starting /\ label \in Starting /\ idx'[Bsp] = idx[Bsp]
  PROVE  IInv'
<1>1. Length' = Length /\ Location' = Location /\ TypeOK
  BY DEF Length, Location, IInv
<1>2. pc'[Bsp] = label /\ \A p \in Ctx \ {Bsp} : pc'[p] = pc[p]
  BY <1>1 DEF TypeOK
<1>3. ControlInv'
  BY <1>2 DEF IInv, ControlInv
<1>4. TallyInv'
  BY <1>1, <1>2 DEF IInv, TallyInv
<1>5. SpinReturnsDecrypted'
  BY <1>2 DEF SpinReturnsDecrypted
<1>6. \A s \in Slot : Launched(s)' <=> Launched(s)
  BY <1>2 DEF Launched
<1> QED
  BY <1>2, <1>3, <1>4, <1>5, <1>6, LoaderFrame

LEMMA SpinRetryStep == ASSUME IInv, SpinRetry PROVE IInv'
<1> USE DEF SpinRetry
<1>1. Length' = Length /\ Location' = Location /\ TypeOK /\ job[Bsp] \in Slot
  BY SlotFacts DEF Length, Location, IInv, TypeOK
<1>2. pc'[Bsp] = "rsync" /\ \A p \in Ctx \ {Bsp} : pc'[p] = pc[p]
  BY <1>1 DEF TypeOK
<1>3. TypeOK'
  BY <1>1 DEF TypeOK
<1>4. ControlInv'
  BY <1>1, <1>2 DEF IInv, ControlInv
<1>5. TallyInv'
  BY <1>1, <1>2 DEF IInv, TallyInv
<1>6. SpinReturnsDecrypted'
  BY <1>2 DEF SpinReturnsDecrypted
<1>7. \A s \in Slot : Launched(s)' <=> Launched(s)
  BY <1>2 DEF Launched
<1> QED
  BY <1>2, <1>3, <1>4, <1>5, <1>6, <1>7, LoaderFrame

LEMMA SpinPastStep == ASSUME IInv, SpinPast PROVE IInv'
<1> USE DEF SpinPast
<1>1. Length' = Length /\ Location' = Location /\ TypeOK /\ job[Bsp] \in Slot
  BY SlotFacts DEF Length, Location, IInv, TypeOK
<1>2. pc'[Bsp] = "tally" /\ \A p \in Ctx \ {Bsp} : pc'[p] = pc[p]
  BY <1>1 DEF TypeOK
<1>3. TypeOK'
  BY <1>1 DEF TypeOK
<1>4. ControlInv'
  BY <1>1, <1>2 DEF IInv, ControlInv
<1>5. TallyInv'
  BY <1>1, <1>2 DEF IInv, TallyInv
<1>6. SpinReturnsDecrypted'
  BY <1>2 DEF SpinReturnsDecrypted
<1>7. \A s \in Slot : Launched(s)' <=> Launched(s)
  BY <1>2 DEF Launched
<1> QED
  BY <1>2, <1>3, <1>4, <1>5, <1>6, <1>7, LoaderFrame

(* The steps of StartThread after its RefreshMPs. *)
LEMMA StartThreadStep == ASSUME IInv, StartThread \/ StartSync PROVE IInv'
<1> SUFFICES ASSUME TypeOK PROVE IInv'
  BY DEF IInv
<1>1. CASE ScanUnavailable
  <2>1. idx' = [idx EXCEPT ![Bsp] = idx[Bsp] + 1] /\ idx[Bsp] + 1 \in 0 .. MpCount
    BY <1>1 DEF ScanUnavailable, TypeOK
  <2>2. idx' \in [Ctx -> 0 .. MpCount]
    BY <2>1 DEF TypeOK
  <2>3. TypeOK'
    BY <1>1, <2>2 DEF ScanUnavailable, TypeOK
  <2>4. pc' = [pc EXCEPT ![Bsp] = "scan"]
    BY <1>1 DEF ScanUnavailable, TypeOK
  <2> QED
    BY <1>1, <2>3, <2>4, LoaderMove DEF ScanUnavailable
<1>2. CASE ScanExhausted
  BY <1>2, LoaderMove DEF ScanExhausted, TypeOK
<1>3. CASE StartupRefused
  BY <1>3, LoaderMove DEF StartupRefused, TypeOK
<1>4. CASE StartSync
  BY <1>4, LoaderMove DEF StartSync, TypeOK
<1>5. CASE StartLock
  <2>1. mutex' \in BOOLEAN
    BY <1>5 DEF StartLock, TypeOK
  <2> QED
    BY <1>5, <2>1, LoaderMove DEF StartLock, TypeOK
<1>6. CASE StartMark
  <2>1. isWorking' \in [Proc -> BOOLEAN]
    BY <1>6 DEF StartMark, TypeOK
  <2> QED
    BY <1>6, <2>1, LoaderMove DEF StartMark, TypeOK
<1>7. CASE StartUnlock
  BY <1>7, LoaderMove DEF StartUnlock, TypeOK
<1>8. CASE StartStarted
  <2> USE <1>8 DEF StartStarted
  <2> DEFINE s == job[Bsp]
  <2>1. Length' = Length /\ Location' = Location /\ s \in Slot
    BY DEF Length, Location, IInv, ControlInv
  <2>2. pc'[Bsp] = "sassign" /\ \A p \in Ctx \ {Bsp} : pc'[p] = pc[p]
    BY DEF TypeOK
  <2>3. started'[s] /\ \A r \in Slot \ {s} : started'[r] = started[r]
    BY <2>1 DEF TypeOK
  <2>4. TypeOK'
    BY DEF TypeOK
  <2>5. ControlInv'
    BY <2>1, <2>2 DEF IInv, ControlInv
  <2>6. TallyInv'
    BY <2>1, <2>2 DEF IInv, TallyInv
  <2>7. SpinReturnsDecrypted'
    BY <2>2 DEF SpinReturnsDecrypted
  <2>8. \A r \in Slot : Launched(r)' <=> Launched(r)
    BY <2>1, <2>2, <2>3 DEF Launched
  <2> QED
    BY <2>2, <2>4, <2>5, <2>6, <2>7, <2>8, LoaderFrame
<1>9. CASE StartAssign
  <2> USE <1>9 DEF StartAssign
  <2>1. Length' = Length /\ Location' = Location
    BY DEF Length, Location
  <2>2. pc'[Bsp] = "tally" /\ \A p \in Ctx \ {Bsp} : pc'[p] = pc[p]
    BY DEF TypeOK
  <2>3. idx[Bsp] \in Proc
    BY DEF IInv, ControlInv
  <2>4. TypeOK'
    BY <2>3 DEF TypeOK
  <2>5. ControlInv'
    BY <2>1, <2>2 DEF IInv, ControlInv
  <2>6. TallyInv'
    BY <2>1, <2>2 DEF IInv, TallyInv
  <2>7. SpinReturnsDecrypted'
    BY <2>2 DEF SpinReturnsDecrypted
  <2>8. \A r \in Slot : Launched(r)' <=> Launched(r)
    BY <2>2 DEF Launched
  <2> QED
    BY <2>2, <2>4, <2>5, <2>6, <2>7, <2>8, LoaderFrame
<1>10. CASE StartupThisAP
  <2> USE <1>10 DEF StartupThisAP
  <2> DEFINE s == job[Bsp]
             i == idx[Bsp]
  <2>1. Length' = Length /\ Location' = Location
    BY DEF Length, Location
  <2>2. i \in AP /\ i \in Ctx /\ i # Bsp /\ i # Notify /\ pc[i] = "idle"
    <3>1. i \in 0 .. MpCount /\ mpCount \in 0 .. MpCount /\ i < mpCount
      BY DEF TypeOK
    <3>2. i \in Proc
      BY <3>1, ProcFacts
    <3> QED
      BY <3>2 DEF AP
  <2>3. s \in Slot /\ ~started[s] /\ ~finished[s]
    BY DEF IInv, ControlInv
  <2>4. s \in 0 .. MaxThreads
    BY DEF TypeOK
  <2>5. ~Launched(s) /\ decrypted[s] = 0
    BY <2>3 DEF IInv, Launched, OrderInv, ControlInv
  <2>6. /\ pc'[Bsp] = "ssync" /\ pc'[i] = "crypt"
        /\ \A p \in Ctx \ {Bsp, i} : pc'[p] = pc[p]
    BY <2>2 DEF TypeOK
  <2>7. job'[i] = s /\ \A p \in Ctx \ {i} : job'[p] = job[p]
    BY <2>2 DEF TypeOK
  <2>8. pos'[i] = 0 /\ \A p \in Ctx \ {i} : pos'[p] = pos[p]
    BY <2>2 DEF TypeOK
  <2>9. TypeOK'
    <3>1. job' \in [Ctx -> 0 .. MaxThreads]
      BY <2>4 DEF TypeOK
    <3>2. pos' \in [Ctx -> Nat]
      BY DEF TypeOK
    <3> QED
      BY <3>1, <3>2 DEF TypeOK
  <2>10. ControlInv'
    BY <2>2, <2>3, <2>6, <2>7 DEF IInv, ControlInv
  <2>11. QuietInv'
    BY <2>6 DEF QuietInv
  <2>12. NotifyInv'
    BY <2>2, <2>6, <2>7 DEF IInv, NotifyInv, NotifyNeverBlocks
  <2>13. Launched(s)' /\ \A r \in Slot : Launched(r) => Launched(r)'
    BY <2>2, <2>6, <2>7 DEF Launched
  <2>14. \A r \in Slot \ {s} : Launched(r)' => Launched(r)
    BY <2>2, <2>6, <2>7 DEF Launched
  <2>15. Holding(i)' /\ \A p \in AP \ {i} : Holding(p)' <=> Holding(p)
    BY <2>6 DEF Holding
  <2>16. \A p \in AP \ {i} : Holding(p) => job[p] \in Slot /\ job[p] # s
    BY <2>5 DEF IInv, HolderInv, ControlInv, Holding
  <2>17. HolderInv'
    <3> SUFFICES ASSUME NEW p \in AP, Holding(p)'
                 PROVE  /\ Launched(job[p])'
                        /\ ~finished[job[p]]'
                        /\ decrypted[job[p]]' = pos[p]'
                        /\ pos[p]' <= Length[job[p]]'
                        /\ pc[p]' = "block" => pos[p]' < Length[job[p]]'
                        /\ pc[p]' \in InFinish => pos[p]' = Length[job[p]]'
                        /\ \A q \in AP : Holding(q)' /\ job[q]' = job[p]' => q = p
      BY DEF HolderInv
    <3>1. CASE p = i
      <4>1. Length[s] \in Nat
        BY <2>3, LayoutFacts
      <4>2. \A q \in AP : Holding(q)' /\ job[q]' = s => q = i
        BY <2>7, <2>15, <2>16
      <4> QED
        BY <3>1, <4>1, <4>2, <2>1, <2>3, <2>5, <2>6, <2>7, <2>8, <2>13
    <3>2. CASE p # i
      <4>1. Holding(p) /\ job'[p] = job[p] /\ pos'[p] = pos[p] /\ pc'[p] = pc[p]
            /\ job[p] \in Slot /\ job[p] # s
        BY <3>2, <2>6, <2>7, <2>8, <2>15, <2>16
      <4>2. \A q \in AP : Holding(q)' /\ job[q]' = job[p] => q = p
        BY <3>2, <4>1, <2>7, <2>15, <2>16 DEF IInv, HolderInv
      <4> QED
        BY <4>1, <4>2, <2>1, <2>13 DEF IInv, HolderInv
    <3> QED
      BY <3>1, <3>2
  <2>18. OrderInv'
    BY <2>1, <2>3, <2>5, <2>7, <2>13, <2>14
       DEF IInv, OrderInv, FinishedMeansDecrypted, DecryptedOnce, ControlInv
  <2>19. SpawnInv'
    BY <2>1, <2>6, <2>7 DEF IInv, SpawnInv
  <2>20. TallyInv'
    BY <2>1, <2>2, <2>6, <2>7 DEF IInv, TallyInv
  <2>21. SpinReturnsDecrypted'
    BY <2>6 DEF SpinReturnsDecrypted
  <2> QED
    BY <2>9, <2>10, <2>11, <2>12, <2>17, <2>18, <2>19, <2>20, <2>21 DEF IInv
<1> QED
  BY <1>1, <1>2, <1>3, <1>4, <1>5, <1>6, <1>7, <1>8, <1>9, <1>10 DEF StartThread
------------------------------------------------------------------------------
(* Steps that only move an AP on, inside FinishThread and RefreshMPs. *)
LEMMA ApMove ==
  ASSUME IInv, TypeOK', NEW p \in AP,
         UNCHANGED <<protocol, mpCount, threads, payload, events, job, layout, spin>>,
         idx'[Bsp] = idx[Bsp],
         NEW label, pc' = [pc EXCEPT ![p] = label],
         \/ pc[p] \in InFinish /\ label \in InFinish
         \/ pc[p] \in InRefresh /\ label \in InRefresh \cup {"return"}
         \/ pc[p] = "block" /\ label = "panic"
  PROVE  IInv'
<1>1. Length' = Length /\ Location' = Location /\ TypeOK
  BY DEF Length, Location, IInv
<1>2. pc'[p] = label /\ \A q \in Ctx \ {p} : pc'[q] = pc[q]
  BY <1>1 DEF TypeOK
<1>3. pc'[Bsp] = pc[Bsp] /\ pc'[Notify] = pc[Notify]
  BY <1>2
<1>4. ControlInv'
  BY <1>2, <1>3 DEF IInv, ControlInv
<1>5. QuietInv'
  BY <1>3 DEF IInv, QuietInv
<1>6. NotifyInv'
  BY <1>2, <1>3 DEF IInv, NotifyInv, NotifyNeverBlocks
<1>7. \A s \in Slot : Launched(s)' <=> Launched(s)
  BY <1>3 DEF Launched
<1>8. HolderInv'
  <2> SUFFICES ASSUME NEW q \in AP, Holding(q)'
               PROVE  /\ Launched(job[q])'
                      /\ ~finished[job[q]]'
                      /\ decrypted[job[q]]' = pos[q]'
                      /\ pos[q]' <= Length[job[q]]'
                      /\ pc[q]' = "block" => pos[q]' < Length[job[q]]'
                      /\ pc[q]' \in InFinish => pos[q]' = Length[job[q]]'
                      /\ \A r \in AP : Holding(r)' /\ job[r]' = job[q]' => r = q
    BY DEF HolderInv
  <2>1. \A r \in AP : Holding(r)' => Holding(r) /\ job[r] \in Slot
    BY <1>2 DEF IInv, ControlInv, Holding
  <2>2. pc'[q] = "block" => pc[q] = "block"
    BY <1>2
  <2>3. pc'[q] \in InFinish => pc[q] \in InFinish
    BY <1>2
  <2> QED
    BY <1>1, <1>7, <2>1, <2>2, <2>3 DEF IInv, HolderInv
<1>9. OrderInv'
  BY <1>1, <1>7 DEF IInv, OrderInv, FinishedMeansDecrypted, DecryptedOnce
<1>10. SpawnInv'
  BY <1>1, <1>3 DEF IInv, SpawnInv
<1>11. TallyInv'
  BY <1>1, <1>3 DEF IInv, TallyInv
<1>12. SpinReturnsDecrypted'
  BY <1>1, <1>3 DEF IInv, SpinReturnsDecrypted
<1> QED
  BY <1>4, <1>5, <1>6, <1>8, <1>9, <1>10, <1>11, <1>12 DEF IInv

(* RefreshMPs, by the loader or at the end of FinishThread. *)
LEMMA RefreshStep ==
  ASSUME IInv, NEW p \in Ctx, RefreshSync(p) \/ RefreshMPs(p)
  PROVE  IInv'
<1> USE DEF RefreshMPs, RefreshSync, RefreshLock, RefreshCopy, RefreshAbort, RefreshSwap, RefreshReturn
<1>1. TypeOK /\ 0 \in 0 .. MpCount
  BY DEF IInv
<1>2. p = Bsp \/ p \in AP
  BY DEF IInv, NotifyInv, NotifyNeverBlocks
<1>3. PICK label \in InRefresh \cup {"scan", "return"} :
        /\ pc' = [pc EXCEPT ![p] = label]
        /\ p = Bsp => label # "return"
        /\ p # Bsp => label # "scan"
  <2>1. CASE RefreshCopy(p)
    BY <2>1, <1>1 DEF TypeOK
  <2>2. CASE RefreshReturn(p)
    BY <2>2
  <2> QED
    BY <2>1, <2>2
<1>4. pc[p] \in InRefresh
  OBVIOUS
<1>5. TypeOK'
  <2>1. idx' \in [Ctx -> 0 .. MpCount]
    <3>1. CASE RefreshCopy(p)
      <4>1. idx[p] + 1 \in 0 .. MpCount /\ idx' = [idx EXCEPT ![p] = idx[p] + 1]
        BY <3>1, <1>1 DEF TypeOK
      <4> QED
        BY <4>1, <1>1 DEF TypeOK
    <3> QED
      BY <3>1, <1>1 DEF TypeOK
  <2>2. mutex' \in BOOLEAN
    BY <1>1 DEF TypeOK
  <2>3. isWorking' \in [Proc -> BOOLEAN]
    <3>1. isWorking' = isWorking \/ isWorking' = fresh[p]
      OBVIOUS
    <3>2. fresh[p] \in [Proc -> BOOLEAN]
      BY <1>1 DEF TypeOK
    <3> QED
      BY <1>1, <3>1, <3>2 DEF TypeOK
  <2>4. fresh' \in [Ctx -> [Proc -> BOOLEAN]]
    <3>1. CASE RefreshCopy(p)
      <4>1. idx[p] \in Proc
        BY <3>1, <1>1, ProcFacts DEF TypeOK
      <4>2. isWorking[idx[p]] \in BOOLEAN /\ fresh[p] \in [Proc -> BOOLEAN]
        BY <4>1, <1>1 DEF TypeOK
      <4>3. [fresh[p] EXCEPT ![idx[p]] = isWorking[idx[p]]] \in [Proc -> BOOLEAN]
        BY <4>1, <4>2
      <4>4. fresh' = [fresh EXCEPT ![p] = [fresh[p] EXCEPT ![idx[p]] = isWorking[idx[p]]]]
        BY <3>1, <1>1 DEF TypeOK
      <4> QED
        BY <4>3, <4>4, <1>1 DEF TypeOK
    <3>2. NoFlags \in [Proc -> BOOLEAN]
      OBVIOUS
    <3> QED
      BY <3>1, <3>2, <1>1 DEF TypeOK
  <2>5. pc' \in [Ctx -> Parked \cup InCrypt \cup InFinish \cup InRefresh \cup OnBsp]
    BY <1>1, <1>3 DEF TypeOK
  <2> QED
    BY <1>1, <2>1, <2>2, <2>3, <2>4, <2>5 DEF TypeOK
<1>6. UNCHANGED <<protocol, mpCount, threads, payload, events, job, layout, spin>>
  OBVIOUS
<1>7. CASE p = Bsp
  BY <1>3, <1>4, <1>5, <1>6, <1>7, LoaderMove
<1>8. CASE p \in AP
  <2>1. idx'[Bsp] = idx[Bsp]
    BY <1>1, <1>8 DEF TypeOK
  <2> QED
    BY <1>3, <1>4, <1>5, <1>6, <1>8, <2>1, ApMove
<1> QED
  BY <1>2, <1>7, <1>8
------------------------------------------------------------------------------
(* Before the first pass of UefiSpin: no AP runs, no thread was started. *)
LEMMA SetupFrame ==
  ASSUME IInv, TypeOK', ControlInv', OrderInv', SpawnInv', TallyInv', SpinReturnsDecrypted',
         pc[Bsp] \in PreSpin, UNCHANGED events,
         \A s \in Slot : ~started'[s] /\ ~finished'[s],
         \A p \in Ctx \ {Bsp} : pc'[p] = pc[p]
  PROVE  IInv'
<1>1. /\ \A p \in AP : pc'[p] = "idle"
      /\ pc'[Notify] = "idle" /\ events' = {}
  BY DEF IInv, QuietInv
<1>2. QuietInv'
  BY <1>1 DEF QuietInv
<1>3. NotifyInv'
  BY <1>1 DEF NotifyInv, NotifyNeverBlocks
<1>4. HolderInv'
  BY <1>1 DEF HolderInv, Holding
<1> QED
  BY <1>2, <1>3, <1>4 DEF IInv

LEMMA InitializeStep == ASSUME IInv, InitializeThreading PROVE IInv'
<1> USE DEF InitializeThreading, SkipThreading, MpServicesMissing, InitializeFails,
            CountProcessors, ProbeProcessor, PublishMps
<1>1. Length' = Length /\ Location' = Location /\ TypeOK
  BY DEF Length, Location, IInv
<1>2. pc[Bsp] \in {"init", "probe"} /\ pc[Notify] = "idle" /\ job[Bsp] = 0 /\ job' = job
  BY DEF IInv, ControlInv
<1>3. /\ pc'[Bsp] \in {"probe", "spawn"}
      /\ \A p \in Ctx \ {Bsp} : pc'[p] = pc[p]
  BY <1>1, <1>2 DEF TypeOK
<1>a. pc'[Bsp] = "probe" => IsThreadingEnabled'
  <2>1. CASE ProbeProcessor
    BY <2>1 DEF IInv, ControlInv
  <2>2. CASE CountProcessors
    BY <2>2
  <2> QED
    BY <1>1, <2>1, <2>2 DEF TypeOK
<1>4. TypeOK'
  <2>1. mpCount' \in 0 .. MpCount /\ protocol' \in BOOLEAN
    BY <1>1 DEF TypeOK
  <2>a. limit' \in 0 .. MpCount
    <3>1. CASE ProbeProcessor
      <4>1. idx[Bsp] \in 0 .. MpCount /\ limit \in 0 .. MpCount /\ idx[Bsp] < limit
        BY <1>1, <3>1 DEF TypeOK
      <4> QED
        BY <3>1, <4>1
    <3>2. CASE ~ProbeProcessor
      BY <1>1, <3>2 DEF TypeOK
    <3> QED
      BY <3>1, <3>2
  <2>2. idx' \in [Ctx -> 0 .. MpCount]
    <3>1. CASE ProbeProcessor
      <4>1. idx[Bsp] + 1 \in 0 .. MpCount /\ idx' = [idx EXCEPT ![Bsp] = idx[Bsp] + 1]
        BY <1>1, <3>1 DEF TypeOK
      <4> QED
        BY <1>1, <4>1 DEF TypeOK
    <3> QED
      BY <1>1, <3>1 DEF TypeOK
  <2>3. pc' \in [Ctx -> Parked \cup InCrypt \cup InFinish \cup InRefresh \cup OnBsp]
    BY <1>1 DEF TypeOK
  <2>4. isWorking' \in [Proc -> BOOLEAN]
    <3>1. isWorking' = isWorking \/ isWorking' = [q \in Proc |-> FALSE]
      OBVIOUS
    <3>2. [q \in Proc |-> FALSE] \in [Proc -> BOOLEAN]
      OBVIOUS
    <3>3. isWorking \in [Proc -> BOOLEAN]
      BY <1>1 DEF TypeOK
    <3> QED
      BY ONLY <3>1, <3>2, <3>3
  <2> QED
    BY <1>1, <2>1, <2>a, <2>2, <2>3, <2>4 DEF TypeOK
<1>5. \A s \in Slot : ~started'[s] /\ ~finished'[s]
  BY <1>2 DEF IInv, QuietInv
<1>6. ControlInv'
  <2>1. \A p \in AP : pc'[p] = "idle"
    BY <1>2, <1>3 DEF IInv, QuietInv
  <2> QED
    BY <1>2, <1>3, <1>a, <2>1 DEF ControlInv
<1>7. \A s \in Slot : ~(s < 0) /\ Length[s] \in Nat
  BY <1>1, SlotFacts, LayoutFacts
<1>8. \A s \in Slot : decrypted[s] = 0 /\ place[s] <= decrypted[s]
  <2>1. \A s \in Slot : ~Launched(s)
    BY <1>2 DEF IInv, QuietInv, Launched
  <2> QED
    BY <1>2, <1>7, <2>1 DEF IInv, OrderInv
<1>9. OrderInv'
  BY <1>1, <1>2, <1>5, <1>7, <1>8 DEF OrderInv, FinishedMeansDecrypted, DecryptedOnce
<1>10. SpawnInv'
  BY <1>1, <1>2, <1>3, <1>7 DEF SpawnInv
<1>11. TallyInv' /\ SpinReturnsDecrypted'
  BY <1>3 DEF TallyInv, SpinReturnsDecrypted
<1>12. UNCHANGED events
  OBVIOUS
<1> QED
  BY <1>2, <1>3, <1>4, <1>5, <1>6, <1>9, <1>10, <1>11, <1>12, SetupFrame

LEMMA SpawnStep == ASSUME IInv, SpawnDecryptionWorker PROVE IInv'
<1> DEFINE s == job[Bsp]
<1> USE DEF SpawnDecryptionWorker
<1>1. /\ TypeOK /\ pc[Bsp] = "spawn" /\ s \in 0 .. MaxThreads
      /\ Length' = Length /\ Location' = Location
  BY DEF IInv, TypeOK, Length, Location, SpawnNothing, SpawnSynchronously, SpawnThread,
         SpawnFails, CallSpin
<1>2. /\ \A r \in Slot : ~started[r] /\ ~finished[r] /\ ~Launched(r)
      /\ \A p \in AP : pc[p] = "idle"
  BY <1>1 DEF IInv, QuietInv, Launched
<1>3. \A r \in Slot : /\ Length[r] \in Nat /\ decrypted[r] \in Nat /\ r \in 0 .. MaxThreads
                      /\ r < MaxThreads
  BY <1>1, LayoutFacts, SlotFacts DEF TypeOK
<1>4. ASSUME SpawnNothing \/ SpawnSynchronously \/ SpawnThread
      PROVE  IInv'
  <2> USE <1>4 DEF SpawnNothing, SpawnSynchronously, SpawnThread
  <2>1. s \in Slot /\ s + 1 \in 0 .. MaxThreads /\ pc' = pc
    BY <1>1, SlotFacts
  <2>2. job' = [job EXCEPT ![Bsp] = s + 1] /\ job'[Bsp] = s + 1
    BY <1>1 DEF TypeOK
  <2>3. job' \in [Ctx -> 0 .. MaxThreads]
    BY <1>1, <2>1, <2>2 DEF TypeOK
  <2>4. TypeOK'
    <3>1. decrypted' \in [Slot -> Nat]
      <4>1. decrypted[s] + Length[s] \in Nat
        BY <1>3, <2>1
      <4>2. decrypted' = decrypted \/ decrypted' = [decrypted EXCEPT ![s] = decrypted[s] + Length[s]]
        OBVIOUS
      <4> QED
        BY <1>1, <4>1, <4>2 DEF TypeOK
    <3>2. /\ place' \in [Slot -> Nat] /\ context' \in [Slot -> BOOLEAN]
          /\ started' \in [Slot -> BOOLEAN] /\ finished' \in [Slot -> BOOLEAN]
      <4>1. CASE SpawnThread
        BY <1>1, <4>1 DEF TypeOK
      <4>2. CASE UNCHANGED <<threads, place>>
        BY <1>1, <4>2 DEF TypeOK
      <4> QED
        BY <4>1, <4>2
    <3> QED
      BY <1>1, <2>1, <2>3, <3>1, <3>2 DEF TypeOK
  <2>5. \A r \in Slot : ~started'[r] /\ ~finished'[r]
    BY <1>1, <1>2 DEF TypeOK
  <2>6. ControlInv'
    BY <1>1, <1>2, <2>1 DEF ControlInv
  <2>7. \A r \in Slot : /\ r < s + 1 <=> r < s \/ r = s
                        /\ ~(s < s)
    BY <1>1, <1>3
  <2>8. OrderInv'
    <3>1. \A r \in Slot : ~Launched(r)'
      BY <1>1, <2>1, <2>5 DEF Launched
    <3>2. IsThreadingEnabled' <=> IsThreadingEnabled
      OBVIOUS
    <3>3. CASE IsThreadingEnabled
      <4>1. decrypted' = decrypted /\ \A r \in Slot : decrypted[r] = 0
        BY <1>2, <3>3 DEF IInv, OrderInv
      <4>2. \A r \in Slot : place'[r] = place[r] \/ place'[r] = 0
        BY <1>1 DEF TypeOK
      <4>3. \A r \in Slot : place'[r] <= decrypted[r]
        BY <4>1, <4>2 DEF IInv, OrderInv
      <4> QED
        BY <1>1, <1>3, <2>5, <3>1, <3>2, <3>3, <4>1, <4>3
           DEF OrderInv, FinishedMeansDecrypted, DecryptedOnce
    <3>4. CASE ~IsThreadingEnabled
      <4>1. place' = place
        BY <3>4
      <4>2. \A r \in Slot : decrypted[r] = IF r < s THEN Length[r] ELSE 0
        BY <3>4 DEF IInv, OrderInv
      <4>3. \A r \in Slot \ {s} : decrypted'[r] = decrypted[r]
        BY <1>1, <2>1 DEF TypeOK
      <4>4. decrypted'[s] = Length[s]
        <5>1. decrypted[s] = 0 /\ Length[s] \in Nat
          BY <1>3, <2>1, <2>7, <4>2
        <5> QED
          BY <1>1, <2>1, <3>4, <5>1 DEF TypeOK
      <4>5. \A r \in Slot : decrypted'[r] = IF r < s + 1 THEN Length[r] ELSE 0
        BY <2>7, <4>2, <4>3, <4>4
      <4>6. \A r \in Slot : decrypted[r] <= decrypted'[r] /\ decrypted'[r] <= Length[r]
        BY <1>3, <2>1, <2>7, <4>2, <4>5
      <4>7. \A r \in Slot : place[r] \in Nat /\ decrypted'[r] \in Nat
        BY <1>1, <1>3, <4>5 DEF TypeOK
      <4>8. \A r \in Slot : place[r] <= decrypted'[r]
        BY <1>3, <4>6, <4>7 DEF IInv, OrderInv
      <4> QED
        BY <1>1, <2>2, <2>5, <3>1, <3>2, <3>4, <4>1, <4>5, <4>6, <4>8
           DEF OrderInv, FinishedMeansDecrypted, DecryptedOnce
    <3> QED
      BY <3>3, <3>4
  <2>9. SpawnInv'
    <3>1. \A r \in Slot : context[r] => context'[r]
      BY <1>1 DEF TypeOK
    <3>2. IsThreadingEnabled /\ Length[s] > 0 => context'[s]
      BY <1>1, <2>1 DEF TypeOK
    <3> QED
      BY <1>1, <2>1, <2>2, <2>7, <3>1, <3>2 DEF IInv, SpawnInv
  <2>10. TallyInv' /\ SpinReturnsDecrypted'
    BY <1>1, <2>1 DEF TallyInv, SpinReturnsDecrypted
  <2>11. UNCHANGED events
    OBVIOUS
  <2> QED
    BY <1>1, <2>1, <2>4, <2>5, <2>6, <2>8, <2>9, <2>10, <2>11, SetupFrame
<1>5. ASSUME SpawnFails \/ CallSpin
      PROVE  IInv'
  <2> USE <1>5 DEF SpawnFails, CallSpin
  <2>1. /\ pc'[Bsp] \in {"panic", "spin"} /\ (pc'[Bsp] = "spin" => s = MaxThreads)
        /\ \A p \in Ctx \ {Bsp} : pc'[p] = pc[p]
    BY <1>1 DEF TypeOK
  <2>2. TypeOK'
    BY <1>1 DEF TypeOK
  <2>3. ControlInv'
    BY <1>2, <2>1 DEF ControlInv
  <2>4. OrderInv'
    <3>1. \A r \in Slot : ~Launched(r)'
      BY <1>2, <2>1 DEF Launched
    <3> QED
      BY <1>1, <1>2, <3>1 DEF IInv, OrderInv, FinishedMeansDecrypted, DecryptedOnce
  <2>5. SpawnInv'
    BY <1>1, <1>3, <2>1 DEF IInv, SpawnInv
  <2>6. TallyInv' /\ SpinReturnsDecrypted'
    BY <2>1 DEF TallyInv, SpinReturnsDecrypted
  <2>7. UNCHANGED events
    OBVIOUS
  <2> QED
    BY <1>1, <1>2, <2>1, <2>2, <2>3, <2>4, <2>5, <2>6, <2>7, SetupFrame
<1> QED
  BY <1>4, <1>5

LEMMA SpinEntryStep == ASSUME IInv, SpinDisabled \/ SpinNothing \/ SpinEnter PROVE IInv'
<1> USE DEF SpinDisabled, SpinNothing, SpinEnter, StartPass
<1>1. TypeOK /\ pc[Bsp] = "spin" /\ Length' = Length /\ Location' = Location
  BY DEF IInv, Length, Location
<1>2. /\ \A s \in Slot : ~started[s] /\ ~finished[s] /\ ~Launched(s)
      /\ \A p \in AP : pc[p] = "idle"
      /\ job[Bsp] = MaxThreads
  BY <1>1 DEF IInv, QuietInv, Launched, ControlInv
<1>3. \A s \in Slot : s < MaxThreads /\ ~(s < 0)
  BY SlotFacts
<1>4. /\ pc'[Bsp] \in {"done", "panic", "visit"} /\ \A p \in Ctx \ {Bsp} : pc'[p] = pc[p]
      /\ pc'[Bsp] = "done" => ~IsThreadingEnabled
      /\ pc'[Bsp] = "visit" => IsThreadingEnabled /\ SpinEnter
      /\ ~IsThreadingEnabled => pc'[Bsp] = "done" /\ job' = job
  BY <1>1 DEF TypeOK
<1>5. /\ job' \in [Ctx -> 0 .. MaxThreads]
      /\ SpinEnter => job'[Bsp] = 0 /\ progress' = 0
      /\ completed' \in BOOLEAN /\ progress' \in Nat
  <2>1. CASE SpinEnter
    <3>1. 0 \in 0 .. MaxThreads /\ job' = [job EXCEPT ![Bsp] = 0]
      BY <2>1
    <3> QED
      BY <1>1, <2>1, <3>1 DEF TypeOK
  <2>2. CASE UNCHANGED <<job, spin>>
    <3>1. ~SpinEnter
      BY <1>1, <2>2 DEF IInv, ControlInv, TypeOK
    <3> QED
      BY <1>1, <2>2, <3>1 DEF TypeOK
  <2> QED
    BY <2>1, <2>2
<1>6. TypeOK'
  <2>2. pc' \in [Ctx -> Parked \cup InCrypt \cup InFinish \cup InRefresh \cup OnBsp]
    BY <1>1 DEF TypeOK
  <2> QED
    BY <1>1, <1>5, <2>2 DEF TypeOK
<1>7. ControlInv'
  BY <1>2, <1>4 DEF ControlInv
<1>8. OrderInv'
  <2>1. \A s \in Slot : ~Launched(s)'
    BY <1>2, <1>4 DEF Launched
  <2> QED
    BY <1>1, <1>2, <1>4, <2>1 DEF IInv, OrderInv, FinishedMeansDecrypted, DecryptedOnce
<1>9. SpawnInv'
  BY <1>1, <1>4 DEF IInv, SpawnInv
<1>10. TallyInv'
  BY <1>1, <1>3, <1>4, <1>5, LayoutFacts DEF TallyInv
<1>11. SpinReturnsDecrypted'
  BY <1>1, <1>2, <1>3, <1>4 DEF IInv, OrderInv, SpinReturnsDecrypted
<1>12. UNCHANGED <<events, started, finished>>
  OBVIOUS
<1> QED
  BY <1>1, <1>2, <1>4, <1>6, <1>7, <1>8, <1>9, <1>10, <1>11, <1>12, SetupFrame
------------------------------------------------------------------------------
(* work: the order of the AP advances, and no other. *)
LEMMA CryptReportStep == ASSUME IInv, NEW p \in AP, CryptReport(p) PROVE IInv'
<1> DEFINE s == job[p]
<1> USE DEF CryptReport
<1>1. Length' = Length /\ Location' = Location /\ TypeOK
  BY DEF Length, Location, IInv
<1>2. s \in Slot /\ pos[p] \in Nat /\ Length[s] \in Nat /\ decrypted[s] \in Nat
  BY <1>1, LayoutFacts DEF IInv, ControlInv, TypeOK
<1>3. /\ pc'[p] = IF pos[p] < Length[s] THEN "block" ELSE "finish"
      /\ \A q \in Ctx \ {p} : pc'[q] = pc[q]
  BY <1>1 DEF TypeOK
<1>4. pc'[Bsp] = pc[Bsp] /\ pc'[Notify] = pc[Notify]
  BY <1>3
<1>5. decrypted[s] = pos[p] /\ pos[p] <= Length[s] /\ Holding(p) /\ ~finished[s]
  BY DEF IInv, HolderInv, Holding
<1>6. /\ pc'[p] = "block" => pos[p] < Length[s]
      /\ pc'[p] = "finish" => pos[p] = Length[s]
  BY <1>2, <1>3, <1>5
<1>7. TypeOK'
  <2>1. place' \in [Slot -> Nat]
    BY <1>1, <1>2 DEF TypeOK
  <2>2. pc' \in [Ctx -> Parked \cup InCrypt \cup InFinish \cup InRefresh \cup OnBsp]
    BY <1>1 DEF TypeOK
  <2> QED
    BY <1>1, <2>1, <2>2 DEF TypeOK
<1>8. ControlInv'
  BY <1>3, <1>4 DEF IInv, ControlInv
<1>9. QuietInv'
  BY <1>4 DEF IInv, QuietInv
<1>10. NotifyInv'
  BY <1>3, <1>4 DEF IInv, NotifyInv, NotifyNeverBlocks
<1>11. \A r \in Slot : Launched(r)' <=> Launched(r)
  BY <1>4 DEF Launched
<1>12. HolderInv'
  <2> SUFFICES ASSUME NEW q \in AP, Holding(q)'
               PROVE  /\ Launched(job[q])'
                      /\ ~finished[job[q]]'
                      /\ decrypted[job[q]]' = pos[q]'
                      /\ pos[q]' <= Length[job[q]]'
                      /\ pc[q]' = "block" => pos[q]' < Length[job[q]]'
                      /\ pc[q]' \in InFinish => pos[q]' = Length[job[q]]'
                      /\ \A r \in AP : Holding(r)' /\ job[r]' = job[q]' => r = q
    BY DEF HolderInv
  <2>1. \A r \in AP : Holding(r)' => Holding(r) /\ job[r] \in Slot
    BY <1>3, <1>5 DEF IInv, ControlInv, Holding
  <2>2. pc'[q] = "block" => pos[q] < Length[job[q]]
    BY <1>3, <1>6, <2>1 DEF IInv, HolderInv
  <2>3. pc'[q] \in InFinish => pos[q] = Length[job[q]]
    BY <1>3, <1>6, <2>1 DEF IInv, HolderInv
  <2> QED
    BY <1>1, <1>11, <2>1, <2>2, <2>3 DEF IInv, HolderInv
<1>13. \A r \in Slot : place'[r] <= decrypted[r]
  <2>1. \A r \in Slot : place'[r] = place[r] \/ (r = s /\ place'[r] = pos[p])
    BY <1>1, <1>2 DEF TypeOK
  <2> QED
    BY <1>2, <1>5, <2>1 DEF IInv, OrderInv
<1>14. OrderInv'
  BY <1>1, <1>11, <1>13 DEF IInv, OrderInv, FinishedMeansDecrypted, DecryptedOnce
<1>15. SpawnInv'
  BY <1>1, <1>4 DEF IInv, SpawnInv
<1>16. TallyInv'
  BY <1>1, <1>4 DEF IInv, TallyInv
<1>17. SpinReturnsDecrypted'
  BY <1>1, <1>4 DEF IInv, SpinReturnsDecrypted
<1> QED
  BY <1>7, <1>8, <1>9, <1>10, <1>12, <1>14, <1>15, <1>16, <1>17 DEF IInv

LEMMA CryptBlocksStep == ASSUME IInv, NEW p \in AP, CryptBlocks(p) PROVE IInv'
<1> DEFINE s == job[p]
<1> USE DEF CryptBlocks
<1>1. Length' = Length /\ Location' = Location /\ TypeOK
  BY DEF Length, Location, IInv
<1>2. s \in Slot /\ pos[p] \in Nat /\ Length[s] \in Nat /\ decrypted[s] \in Nat
  BY <1>1, LayoutFacts DEF IInv, ControlInv, TypeOK
<1>3. pc'[p] = "crypt" /\ \A q \in Ctx \ {p} : pc'[q] = pc[q]
  BY <1>1 DEF TypeOK
<1>4. pc'[Bsp] = pc[Bsp] /\ pc'[Notify] = pc[Notify]
  BY <1>3
<1>5. /\ decrypted[s] = pos[p] /\ pos[p] < Length[s] /\ Holding(p) /\ ~finished[s]
      /\ Launched(s)
  BY DEF IInv, HolderInv, Holding
<1>6. /\ decrypted'[s] = decrypted[s] + 1 /\ pos'[p] = pos[p] + 1
      /\ \A r \in Slot \ {s} : decrypted'[r] = decrypted[r]
      /\ \A q \in Ctx \ {p} : pos'[q] = pos[q]
  BY <1>1, <1>2 DEF TypeOK
<1>7. TypeOK'
  <2>1. decrypted' \in [Slot -> Nat]
    BY <1>1, <1>2 DEF TypeOK
  <2>2. pos' \in [Ctx -> Nat]
    BY <1>1, <1>2 DEF TypeOK
  <2>3. pc' \in [Ctx -> Parked \cup InCrypt \cup InFinish \cup InRefresh \cup OnBsp]
    BY <1>1 DEF TypeOK
  <2> QED
    BY <1>1, <2>1, <2>2, <2>3 DEF TypeOK
<1>8. ControlInv'
  BY <1>3, <1>4 DEF IInv, ControlInv
<1>9. QuietInv'
  BY <1>4 DEF IInv, QuietInv
<1>10. NotifyInv'
  BY <1>3, <1>4 DEF IInv, NotifyInv, NotifyNeverBlocks
<1>11. \A r \in Slot : Launched(r)' <=> Launched(r)
  BY <1>4 DEF Launched
<1>12. HolderInv'
  <2> SUFFICES ASSUME NEW q \in AP, Holding(q)'
               PROVE  /\ Launched(job[q])'
                      /\ ~finished[job[q]]'
                      /\ decrypted[job[q]]' = pos[q]'
                      /\ pos[q]' <= Length[job[q]]'
                      /\ pc[q]' = "block" => pos[q]' < Length[job[q]]'
                      /\ pc[q]' \in InFinish => pos[q]' = Length[job[q]]'
                      /\ \A r \in AP : Holding(r)' /\ job[r]' = job[q]' => r = q
    BY DEF HolderInv
  <2>1. \A r \in AP : Holding(r)' => Holding(r) /\ job[r] \in Slot
    BY <1>3, <1>5 DEF IInv, ControlInv, Holding
  <2>2. \A r \in AP : Holding(r)' /\ job[r]' = job[q]' => r = q
    BY <2>1 DEF IInv, HolderInv
  <2>3. CASE q = p
    BY <1>1, <1>2, <1>3, <1>5, <1>6, <1>11, <2>2, <2>3
  <2>4. CASE q # p
    <3>1. job[q] # s /\ job[q] \in Slot
      BY <1>5, <2>1, <2>4 DEF IInv, HolderInv
    <3>2. pos'[q] = pos[q] /\ pc'[q] = pc[q] /\ decrypted'[job[q]] = decrypted[job[q]]
      BY <1>3, <1>6, <2>4, <3>1
    <3> QED
      BY <1>1, <1>11, <2>1, <2>2, <3>1, <3>2 DEF IInv, HolderInv
  <2> QED
    BY <2>3, <2>4
<1>13. \A r \in Slot : decrypted[r] \in Nat /\ place[r] \in Nat
  BY <1>1 DEF TypeOK
<1>14. \A r \in Slot : place[r] <= decrypted'[r] /\ decrypted'[r] <= Length[r]
  BY <1>2, <1>5, <1>6, <1>13 DEF IInv, OrderInv, DecryptedOnce
<1>15. IsThreadingEnabled
  BY DEF IInv, ControlInv
<1>16. OrderInv'
  <2>1. \A r \in Slot : finished[r] => decrypted'[r] = Length[r]
    BY <1>5, <1>6 DEF IInv, OrderInv, FinishedMeansDecrypted
  <2>2. \A r \in Slot : ~Launched(r) => decrypted'[r] = 0
    BY <1>5, <1>6, <1>15 DEF IInv, OrderInv
  <2> QED
    BY <1>1, <1>11, <1>14, <1>15, <2>1, <2>2
       DEF IInv, OrderInv, FinishedMeansDecrypted, DecryptedOnce
<1>17. SpawnInv'
  BY <1>1, <1>4 DEF IInv, SpawnInv
<1>18. \A r \in Slot : decrypted[r] = Length[r] => decrypted'[r] = Length[r]
  BY <1>2, <1>5, <1>6
<1>19. TallyInv'
  BY <1>1, <1>4, <1>18 DEF IInv, TallyInv
<1>20. SpinReturnsDecrypted'
  BY <1>1, <1>4, <1>18 DEF IInv, SpinReturnsDecrypted
<1> QED
  BY <1>7, <1>8, <1>9, <1>10, <1>12, <1>16, <1>17, <1>19, <1>20 DEF IInv
------------------------------------------------------------------------------
(* work as a whole. *)
LEMMA WorkStep == ASSUME IInv, NEW p \in AP, work(p) PROVE IInv'
<1>1. CASE CryptFails(p)
  <2>1. TypeOK'
    BY <1>1 DEF CryptFails, IInv, TypeOK
  <2> QED
    BY <1>1, <2>1, ApMove DEF CryptFails
<1> QED
  BY <1>1, CryptReportStep, CryptBlocksStep DEF work

(* FinishThread: the notification function only ever takes its early return. *)
LEMMA FinishMarkStep == ASSUME IInv, NEW p \in AP, FinishMark(p) PROVE IInv'
<1> DEFINE s == job[p]
<1> USE DEF FinishMark
<1>1. Length' = Length /\ Location' = Location /\ TypeOK
  BY DEF Length, Location, IInv
<1>2. s \in Slot
  BY DEF IInv, ControlInv
<1>3. pc'[p] = "rsync" /\ \A q \in Ctx \ {p} : pc'[q] = pc[q]
  BY <1>1 DEF TypeOK
<1>4. pc'[Bsp] = pc[Bsp] /\ pc'[Notify] = pc[Notify]
  BY <1>3
<1>5. decrypted[s] = pos[p] /\ pos[p] = Length[s] /\ Holding(p) /\ Launched(s)
  BY DEF IInv, HolderInv, Holding
<1>6. finished'[s] /\ \A r \in Slot \ {s} : finished'[r] = finished[r]
  BY <1>1, <1>2 DEF TypeOK
<1>7. \A r \in Slot : finished[r] => finished'[r]
  BY <1>6
<1>8. TypeOK'
  BY <1>1 DEF TypeOK
<1>9. \A r \in Slot : Launched(r)' <=> Launched(r)
  BY <1>4 DEF Launched
<1>10. ControlInv'
  <2>1. pc[Bsp] \in Waiting => job[Bsp] # s
    BY <1>5 DEF IInv, ControlInv, Launched
  <2> QED
    BY <1>3, <1>4, <1>6, <2>1 DEF IInv, ControlInv
<1>11. QuietInv'
  BY <1>3, <1>4 DEF IInv, QuietInv
<1>12. NotifyInv'
  <2>1. \A q \in AP : pc[q] # "idle" => job[q] \in Slot
    BY DEF IInv, ControlInv
  <2>2. events \subseteq Slot
    BY <1>1 DEF TypeOK
  <2> QED
    BY <1>2, <1>3, <1>4, <1>6, <1>7, <2>1, <2>2 DEF IInv, NotifyInv, NotifyNeverBlocks
<1>13. HolderInv'
  <2> SUFFICES ASSUME NEW q \in AP, Holding(q)'
               PROVE  /\ Launched(job[q])'
                      /\ ~finished[job[q]]'
                      /\ decrypted[job[q]]' = pos[q]'
                      /\ pos[q]' <= Length[job[q]]'
                      /\ pc[q]' = "block" => pos[q]' < Length[job[q]]'
                      /\ pc[q]' \in InFinish => pos[q]' = Length[job[q]]'
                      /\ \A r \in AP : Holding(r)' /\ job[r]' = job[q]' => r = q
    BY DEF HolderInv
  <2>1. q # p /\ pc'[q] = pc[q]
    BY <1>3 DEF Holding
  <2>2. \A r \in AP : Holding(r)' => Holding(r) /\ job[r] \in Slot
    BY <1>3, <1>5 DEF IInv, ControlInv, Holding
  <2>3. job[q] # s
    BY <1>5, <2>1, <2>2 DEF IInv, HolderInv
  <2> QED
    BY <1>1, <1>6, <1>9, <2>1, <2>2, <2>3 DEF IInv, HolderInv
<1>14. OrderInv'
  BY <1>1, <1>5, <1>6, <1>9 DEF IInv, OrderInv, FinishedMeansDecrypted, DecryptedOnce
<1>15. SpawnInv'
  BY <1>1, <1>4 DEF IInv, SpawnInv
<1>16. TallyInv'
  BY <1>1, <1>4, <1>7 DEF IInv, TallyInv
<1>17. SpinReturnsDecrypted'
  BY <1>1, <1>4 DEF IInv, SpinReturnsDecrypted
<1> QED
  BY <1>8, <1>10, <1>11, <1>12, <1>13, <1>14, <1>15, <1>16, <1>17 DEF IInv

(* Steps of the notification context and of the firmware: no order changes. *)
LEMMA FirmwareFrame ==
  ASSUME IInv, TypeOK', NotifyInv',
         UNCHANGED <<protocol, mpCount, threads, payload, layout, spin>>,
         pc[Bsp] \notin PreSpin, pc'[Bsp] = pc[Bsp],
         job'[Bsp] = job[Bsp], idx'[Bsp] = idx[Bsp],
         \A p \in AP : job'[p] = job[p] /\ (pc'[p] = pc[p] \/ pc'[p] = "idle")
  PROVE  IInv'
<1>1. Length' = Length /\ Location' = Location
  BY DEF Length, Location
<1>2. ControlInv'
  BY DEF IInv, ControlInv
<1>3. QuietInv'
  BY DEF QuietInv
<1>4. \A s \in Slot : Launched(s)' <=> Launched(s)
  BY DEF Launched
<1>5. HolderInv'
  <2> SUFFICES ASSUME NEW q \in AP, Holding(q)'
               PROVE  /\ Launched(job[q])'
                      /\ ~finished[job[q]]'
                      /\ decrypted[job[q]]' = pos[q]'
                      /\ pos[q]' <= Length[job[q]]'
                      /\ pc[q]' = "block" => pos[q]' < Length[job[q]]'
                      /\ pc[q]' \in InFinish => pos[q]' = Length[job[q]]'
                      /\ \A r \in AP : Holding(r)' /\ job[r]' = job[q]' => r = q
    BY DEF HolderInv
  <2>1. \A r \in AP : Holding(r)' => Holding(r) /\ job[r] \in Slot /\ pc'[r] = pc[r]
    BY DEF IInv, ControlInv, Holding
  <2> QED
    BY <1>1, <1>4, <2>1 DEF IInv, HolderInv
<1>6. OrderInv'
  BY <1>1, <1>4 DEF IInv, OrderInv, FinishedMeansDecrypted, DecryptedOnce
<1>7. SpawnInv'
  BY <1>1 DEF IInv, SpawnInv
<1>8. TallyInv'
  BY <1>1 DEF IInv, TallyInv
<1>9. SpinReturnsDecrypted'
  BY <1>1 DEF IInv, SpinReturnsDecrypted
<1> QED
  BY <1>2, <1>3, <1>5, <1>6, <1>7, <1>8, <1>9 DEF IInv

LEMMA FinishStep ==
  ASSUME IInv, NEW p \in AP \cup {Notify}, FinishSync(p) \/ FinishThread(p)
  PROVE  IInv'
<1> USE DEF FinishThread
<1>1. TypeOK
  BY DEF IInv
<1>2. CASE p = Notify
  <2>1. FinishAlready(p)
    BY <1>2 DEF IInv, NotifyInv, NotifyNeverBlocks, FinishSync, FinishEnter,
                FinishLock, FinishClear, FinishUnlock, FinishMark
  <2>2. pc'[Notify] = "return" /\ \A q \in Ctx \ {Notify} : pc'[q] = pc[q]
    BY <1>1, <1>2, <2>1 DEF FinishAlready, TypeOK
  <2>3. TypeOK'
    BY <1>1, <2>1 DEF FinishAlready, TypeOK
  <2>4. NotifyInv'
    BY <1>2, <2>1, <2>2 DEF IInv, NotifyInv, NotifyNeverBlocks, FinishAlready
  <2>5. pc[Bsp] \notin PreSpin
    BY <1>2, <2>1 DEF IInv, QuietInv, FinishAlready
  <2> QED
    BY <2>1, <2>2, <2>3, <2>4, <2>5, FirmwareFrame DEF FinishAlready
<1>3. CASE p \in AP
  <2>1. ~FinishAlready(p)
    BY <1>3 DEF IInv, HolderInv, Holding, FinishAlready
  <2>2. CASE FinishEnter(p)
    <3>1. job[p] \in Slot /\ assigned[job[p]] \in 0 .. MpCount
      BY <1>1, <1>3, <2>2, ProcFacts DEF IInv, ControlInv, TypeOK, FinishEnter
    <3>2. idx' \in [Ctx -> 0 .. MpCount] /\ idx'[Bsp] = idx[Bsp]
      BY <1>1, <1>3, <2>2, <3>1 DEF TypeOK, FinishEnter
    <3>3. TypeOK'
      BY <1>1, <2>2, <3>2 DEF TypeOK, FinishEnter
    <3> QED
      BY <1>3, <2>2, <3>2, <3>3, ApMove DEF FinishEnter
  <2>3. CASE FinishSync(p)
    <3>1. TypeOK'
      BY <1>1, <2>3 DEF TypeOK, FinishSync
    <3> QED
      BY <1>3, <2>3, <3>1, ApMove DEF FinishSync
  <2>4. CASE FinishLock(p)
    <3>1. mutex' \in BOOLEAN
      BY <1>1, <2>4 DEF TypeOK, FinishLock
    <3>2. TypeOK'
      BY <1>1, <2>4, <3>1 DEF TypeOK, FinishLock
    <3> QED
      BY <1>3, <2>4, <3>2, ApMove DEF FinishLock
  <2>5. CASE FinishClear(p)
    <3>1. TypeOK'
      BY <1>1, <2>5 DEF TypeOK, FinishClear
    <3> QED
      BY <1>3, <2>5, <3>1, ApMove DEF FinishClear
  <2>6. CASE FinishUnlock(p)
    <3>1. TypeOK'
      BY <1>1, <2>6 DEF TypeOK, FinishUnlock
    <3> QED
      BY <1>3, <2>6, <3>1, ApMove DEF FinishUnlock
  <2> QED
    BY <1>3, <2>1, <2>2, <2>3, <2>4, <2>5, <2>6, FinishMarkStep
<1> QED
  BY <1>2, <1>3

LEMMA FirmwareNext == ASSUME IInv, FirmwareStep PROVE IInv'
<1>1. TypeOK
  BY DEF IInv
<1>2. ASSUME NEW p \in AP, ApReturns(p) PROVE IInv'
  <2> USE <1>2 DEF ApReturns
  <2>1. pc'[p] = "idle" /\ \A q \in Ctx \ {p} : pc'[q] = pc[q]
    BY <1>1 DEF TypeOK
  <2>2. job[p] \in Slot /\ finished[job[p]]
    BY DEF IInv, ControlInv, NotifyInv
  <2>3. TypeOK'
    <3>1. events' \subseteq Slot
      BY <1>1, <2>2 DEF TypeOK
    <3> QED
      BY <1>1, <3>1 DEF TypeOK
  <2>4. NotifyInv'
    BY <2>1, <2>2 DEF IInv, NotifyInv, NotifyNeverBlocks
  <2>5. pc[Bsp] \notin PreSpin
    BY DEF IInv, QuietInv
  <2> QED
    BY <2>1, <2>3, <2>4, <2>5, FirmwareFrame
<1>3. ASSUME NEW s \in Slot, NotifyEvent(s) PROVE IInv'
  <2> USE <1>3 DEF NotifyEvent
  <2>1. pc'[Notify] = "finish" /\ \A q \in Ctx \ {Notify} : pc'[q] = pc[q]
    BY <1>1 DEF TypeOK
  <2>2. job'[Notify] = s /\ \A q \in Ctx \ {Notify} : job'[q] = job[q]
    BY <1>1 DEF TypeOK
  <2>3. TypeOK'
    <3>1. s \in 0 .. MaxThreads
      BY SlotFacts
    <3>2. job' \in [Ctx -> 0 .. MaxThreads]
      BY <1>1, <3>1 DEF TypeOK
    <3>3. events' \subseteq Slot
      BY <1>1 DEF TypeOK
    <3> QED
      BY <1>1, <3>2, <3>3 DEF TypeOK
  <2>4. NotifyInv'
    BY <2>1, <2>2 DEF IInv, NotifyInv, NotifyNeverBlocks
  <2>5. pc[Bsp] \notin PreSpin
    BY DEF IInv, QuietInv
  <2> QED
    BY <2>1, <2>2, <2>3, <2>4, <2>5, FirmwareFrame
<1>4. CASE NotifyReturns
  <2> USE <1>4 DEF NotifyReturns
  <2>1. pc'[Notify] = "idle" /\ \A q \in Ctx \ {Notify} : pc'[q] = pc[q]
    BY <1>1 DEF TypeOK
  <2>2. TypeOK'
    BY <1>1 DEF TypeOK
  <2>3. NotifyInv'
    BY <2>1 DEF IInv, NotifyInv, NotifyNeverBlocks
  <2>4. pc[Bsp] \notin PreSpin
    BY DEF IInv, QuietInv
  <2> QED
    BY <2>1, <2>2, <2>3, <2>4, FirmwareFrame
<1> QED
  BY <1>2, <1>3, <1>4 DEF FirmwareStep
------------------------------------------------------------------------------
LEMMA InitIInv == ASSUME Init PROVE IInv
<1> USE DEF Init
<1>1. TypeOK
  <2>1. 0 \in 0 .. MpCount /\ 0 \in 0 .. MaxThreads
    OBVIOUS
  <2> QED
    BY <2>1 DEF TypeOK
<1>2. pc[Bsp] = "init" /\ \A p \in Ctx \ {Bsp} : pc[p] = "idle"
  OBVIOUS
<1>3. \A s \in Slot : /\ ~started[s] /\ ~finished[s] /\ ~Launched(s)
                      /\ decrypted[s] = 0 /\ place[s] = 0 /\ ~(s < 0)
  BY <1>2, SlotFacts DEF Launched
<1>4. ControlInv /\ QuietInv
  BY <1>2, <1>3 DEF ControlInv, QuietInv
<1>5. NotifyInv /\ HolderInv
  BY <1>2 DEF NotifyInv, NotifyNeverBlocks, HolderInv, Holding
<1>6. OrderInv
  <2>1. \A s \in Slot : Length[s] \in Nat
    BY <1>1, LayoutFacts
  <2>2. job[Bsp] = 0
    OBVIOUS
  <2> QED
    BY <1>3, <2>1, <2>2 DEF OrderInv, FinishedMeansDecrypted, DecryptedOnce
<1>7. SpawnInv /\ TallyInv /\ SpinReturnsDecrypted
  BY <1>2 DEF SpawnInv, TallyInv, SpinReturnsDecrypted
<1> QED
  BY <1>1, <1>4, <1>5, <1>6, <1>7 DEF IInv

LEMMA NextIInv == ASSUME IInv, [Next]_vars PROVE IInv'
<1>1. CASE LoaderStep
  BY <1>1, InitializeStep, SpawnStep, SpinEntryStep, SpinSkipStep, SpinRetryStep, SpinPastStep,
     SpinTallyFinishedStep, SpinTallyProgressStep, SpinAgainStep, SpinReturnStep, StartThreadStep
     DEF LoaderStep, UefiSpin
<1>2. ASSUME NEW p \in Ctx, Await(p) \/ RefreshMPs(p) PROVE IInv'
  <2>1. CASE RefreshSync(p) \/ RefreshMPs(p)
    BY <2>1, RefreshStep
  <2>2. CASE p = Bsp /\ StartSync
    BY <2>2, StartThreadStep
  <2>3. CASE FinishSync(p)
    <3>1. p \in AP \cup {Notify}
      BY <2>3 DEF FinishSync, IInv, ControlInv
    <3> QED
      BY <2>3, <3>1, FinishStep
  <2> QED
    BY <1>2, <2>1, <2>2, <2>3 DEF Await
<1>3. ASSUME NEW p \in AP, work(p) PROVE IInv'
  BY <1>3, WorkStep
<1>4. ASSUME NEW p \in AP \cup {Notify}, FinishThread(p) PROVE IInv'
  BY <1>4, FinishStep
<1>5. CASE FirmwareStep
  BY <1>5, FirmwareNext
<1>6. CASE UNCHANGED vars
  <2>1. Length' = Length /\ Location' = Location
    BY <1>6 DEF vars, Length, Location
  <2>2. TypeOK' /\ ControlInv' /\ QuietInv' /\ NotifyInv'
    BY <1>6 DEF vars, IInv, TypeOK, ControlInv, QuietInv, NotifyInv, NotifyNeverBlocks
  <2>3. HolderInv'
    BY <1>6, <2>1 DEF vars, IInv, HolderInv, Holding, Launched
  <2>4. OrderInv'
    BY <1>6, <2>1 DEF vars, IInv, OrderInv, Launched, FinishedMeansDecrypted, DecryptedOnce
  <2>5. SpawnInv' /\ TallyInv' /\ SpinReturnsDecrypted'
    BY <1>6, <2>1 DEF vars, IInv, SpawnInv, TallyInv, SpinReturnsDecrypted
  <2> QED
    BY <2>2, <2>3, <2>4, <2>5 DEF IInv
<1> QED
  BY <1>1, <1>2, <1>3, <1>4, <1>5, <1>6 DEF Next, Halted

LEMMA Inductive == Spec => []IInv
  BY InitIInv, NextIInv, PTL DEF Spec

(* The state of the pool always has its type, in every instance. *)
THEOREM TypeCorrect == Spec => []TypeOK
<1>1. IInv => TypeOK
  BY DEF IInv
<1> QED
  BY Inductive, <1>1, PTL

(***************************************************************************)
(* What UefiSpin takes for completion is completion: a thread marked       *)
(* Finished has decrypted its order (util.c:272).                          *)
(***************************************************************************)
THEOREM FinishedIsDecrypted == Spec => []FinishedMeansDecrypted
<1>1. IInv => FinishedMeansDecrypted
  BY DEF IInv, OrderInv
<1> QED
  BY Inductive, <1>1, PTL

(***************************************************************************)
(* UefiSpin returns only when the whole payload is decrypted, by either of *)
(* its exits, and in the synchronous loader as well (util.c:229-291).      *)
(***************************************************************************)
THEOREM SpinIsCorrect == Spec => []SpinReturnsDecrypted
<1>1. IInv => SpinReturnsDecrypted
  BY DEF IInv
<1> QED
  BY Inductive, <1>1, PTL

(***************************************************************************)
(* No interval of an order is decrypted twice, although the mutex does not *)
(* exclude and an AP may end before it is recorded (threading.c:291-383).  *)
(***************************************************************************)
THEOREM NoDoubleDecryption == Spec => []DecryptedOnce
<1>1. IInv => DecryptedOnce
  BY DEF IInv, OrderInv
<1> QED
  BY Inductive, <1>1, PTL

(***************************************************************************)
(* The completion event always finds its thread marked, so the             *)
(* notification function never waits for the mutex (threading.c:365).      *)
(***************************************************************************)
THEOREM NotificationReturns == Spec => []NotifyNeverBlocks
<1>1. IInv => NotifyNeverBlocks
  BY DEF IInv, NotifyInv
<1> QED
  BY Inductive, <1>1, PTL

------------------------------------------------------------------------------
(***************************************************************************)
(* The flags of the processors.  IInv says nothing of them; MarkInv does,  *)
(* on top of it.                                                           *)
(***************************************************************************)
\* FinishThread, before it has cleared a flag.
Clearing == {"fsync", "flock", "fclear"}

\* Only an AP of the table runs, and its refresh aborts at the first processor.
RunsInv ==
  \A p \in AP :
    /\ pc[p] # "idle" => p < mpCount
    /\ pc[p] = "rcopy" => idx[p] = 0

\* An AP clears its own flag, or that of MP 0 if it was not assigned yet.
AssignInv ==
  /\ pc[Bsp] \in Starting \cup {"sassign"} =>
       \A q \in AP : Holding(q) /\ job[q] = job[Bsp] => q = idx[Bsp]
  /\ pc[Bsp] = "sassign" => started[job[Bsp]]
  /\ \A s \in Slot : ~started[s] => assigned[s] = 0
  /\ \A q \in AP : Holding(q) => assigned[job[q]] \in {0, q}
  /\ \A q \in AP : pc[q] \in Clearing => idx[q] \in {0, q}

\* The refresh of the loader has seen every AP that is decrypting.
CopyInv ==
  pc[Bsp] = "rcopy" /\ Bsp = 0 =>
    \A p \in AP : pc[p] \in InCrypt /\ p < idx[Bsp] => fresh[Bsp][p]

MarkInv == RunsInv /\ AssignInv /\ CopyInv /\ WorkingApIsMarked

USE DEF Clearing

\* Before UefiSpin no AP runs.
LEMMA QuietMarks ==
  ASSUME IInv, MarkInv, pc[Bsp] \in PreSpin,
         \A p \in AP : pc'[p] = pc[p],
         pc'[Bsp] \notin Starting \cup {"sassign", "rcopy"}, assigned' = assigned
  PROVE  MarkInv'
<1>1. \A p \in AP : pc'[p] = "idle"
  BY DEF IInv, QuietInv
<1>2. \A s \in Slot : assigned[s] = 0
  BY DEF IInv, QuietInv, MarkInv, AssignInv
<1>3. RunsInv'
  BY <1>1 DEF RunsInv
<1>4. AssignInv'
  BY <1>1, <1>2 DEF AssignInv, Holding
<1>5. CopyInv' /\ WorkingApIsMarked'
  BY <1>1 DEF CopyInv, WorkingApIsMarked
<1> QED
  BY <1>3, <1>4, <1>5 DEF MarkInv

\* Steps of the loader that start no AP and touch no flag.
LEMMA LoaderMarks ==
  ASSUME IInv, MarkInv, UNCHANGED <<mpCount, started, assigned, isWorking>>,
         \A p \in AP : pc'[p] = pc[p] /\ job'[p] = job[p] /\ idx'[p] = idx[p],
         pc[Bsp] \notin {"ssync", "slock", "smark"},
         pc'[Bsp] \notin Starting \cup {"sassign", "rcopy"}
  PROVE  MarkInv'
<1>1. RunsInv'
  BY DEF MarkInv, RunsInv
<1>2. AssignInv'
  BY DEF MarkInv, AssignInv, Holding
<1>3. CopyInv'
  BY DEF CopyInv
<1>4. WorkingApIsMarked'
  BY DEF MarkInv, WorkingApIsMarked
<1> QED
  BY <1>1, <1>2, <1>3, <1>4 DEF MarkInv

\* Steps of StartThread after StartupThisAP.
LEMMA StartingMarks ==
  ASSUME IInv, MarkInv, UNCHANGED <<mpCount, isWorking, idx, job, assigned>>,
         pc[Bsp] \in Starting, pc'[Bsp] \in Starting \cup {"sassign"},
         pc[Bsp] \in {"ssync", "slock", "smark"} => pc'[Bsp] \in {"ssync", "slock", "smark"},
         \A p \in AP : pc'[p] = pc[p],
         \A s \in Slot : ~started'[s] => ~started[s],
         pc'[Bsp] = "sassign" => started'[job[Bsp]]
  PROVE  MarkInv'
<1>1. RunsInv'
  BY DEF MarkInv, RunsInv
<1>2. AssignInv'
  BY DEF MarkInv, AssignInv, Holding
<1>3. CopyInv'
  BY DEF CopyInv
<1>4. WorkingApIsMarked'
  BY DEF MarkInv, WorkingApIsMarked
<1> QED
  BY <1>1, <1>2, <1>3, <1>4 DEF MarkInv

\* Steps of an AP that is running.
LEMMA ApMarks ==
  ASSUME IInv, MarkInv, NEW p \in AP,
         UNCHANGED <<mpCount, started, assigned, job>>,
         pc[p] # "idle",
         \A q \in Ctx : q # p => pc'[q] = pc[q] /\ idx'[q] = idx[q],
         fresh'[Bsp] = fresh[Bsp],
         Holding(p)' => Holding(p),
         pc'[p] \in InCrypt => pc[p] \in InCrypt /\ isWorking'[p] = isWorking[p],
         pc'[p] = "rcopy" => idx'[p] = 0,
         pc'[p] \in Clearing => idx'[p] \in {0, p},
         Bsp = 0 => \A q \in AP : q # p => isWorking'[q] = isWorking[q]
  PROVE  MarkInv'
<1>0. Bsp # p
  OBVIOUS
<1>1. RunsInv'
  BY DEF MarkInv, RunsInv
<1>2. AssignInv'
  <2>1. \A q \in AP : Holding(q)' => Holding(q)
    BY DEF Holding
  <2> QED
    BY <1>0, <2>1 DEF MarkInv, AssignInv
<1>3. CopyInv'
  BY <1>0 DEF MarkInv, CopyInv
<1>4. WorkingApIsMarked'
  BY <1>0 DEF MarkInv, WorkingApIsMarked
<1> QED
  BY <1>1, <1>2, <1>3, <1>4 DEF MarkInv

\* Steps of the firmware over the loader.
LEMMA NotifyMarks ==
  ASSUME IInv, MarkInv, UNCHANGED <<mpCount, started, assigned, isWorking, idx, fresh>>,
         \A q \in Ctx : q # Notify => pc'[q] = pc[q] /\ job'[q] = job[q]
  PROVE  MarkInv'
<1>1. RunsInv'
  BY DEF MarkInv, RunsInv
<1>2. AssignInv'
  BY DEF MarkInv, AssignInv, Holding
<1>3. CopyInv' /\ WorkingApIsMarked'
  BY DEF MarkInv, CopyInv, WorkingApIsMarked
<1> QED
  BY <1>1, <1>2, <1>3 DEF MarkInv

LEMMA InitializeMarks ==
  ASSUME IInv, MarkInv, InitializeThreading \/ SpawnDecryptionWorker \/ SpinDisabled \/ SpinNothing \/ SpinEnter
  PROVE  MarkInv'
<1>1. TypeOK
  BY DEF IInv
<1>2. pc[Bsp] \in PreSpin /\ assigned' = assigned
  BY DEF InitializeThreading, SpawnDecryptionWorker, SkipThreading, MpServicesMissing, InitializeFails,
     CountProcessors, ProbeProcessor, PublishMps, SpawnNothing, SpawnSynchronously, SpawnThread, SpawnFails,
     CallSpin, SpinDisabled, SpinNothing, SpinEnter, StartPass
<1>3. /\ \A p \in AP : pc'[p] = pc[p]
      /\ pc'[Bsp] \notin Starting \cup {"sassign", "rcopy"}
  <2>1. CASE InitializeThreading
    BY <1>1, <2>1 DEF TypeOK, InitializeThreading, SkipThreading, MpServicesMissing, InitializeFails,
       CountProcessors, ProbeProcessor, PublishMps
  <2>2. CASE SpawnDecryptionWorker
    BY <1>1, <2>2 DEF TypeOK, SpawnDecryptionWorker, SpawnNothing, SpawnSynchronously, SpawnThread,
       SpawnFails, CallSpin
  <2>3. CASE SpinDisabled \/ SpinNothing \/ SpinEnter
    BY <1>1, <2>3 DEF TypeOK, SpinDisabled, SpinNothing, SpinEnter, StartPass
  <2> QED
    BY <2>1, <2>2, <2>3
<1> QED
  BY <1>2, <1>3, QuietMarks

LEMMA SpinMarks ==
  ASSUME IInv, MarkInv,
         \/ SpinSkip \/ SpinRetry \/ SpinPast \/ SpinTallyFinished \/ SpinTallyProgress
         \/ SpinAgain \/ SpinReturn \/ ScanUnavailable \/ ScanExhausted \/ StartupRefused
  PROVE  MarkInv'
<1>1. TypeOK
  BY DEF IInv
<1>2. CASE SpinSkip \/ SpinRetry \/ SpinPast \/ SpinTallyFinished
  BY <1>1, <1>2, LoaderMarks DEF TypeOK, SpinSkip, SpinRetry, SpinPast, SpinTallyFinished
<1>3. CASE SpinTallyProgress \/ SpinAgain \/ SpinReturn
  BY <1>1, <1>3, LoaderMarks DEF TypeOK, SpinTallyProgress, SpinAgain, SpinReturn, StartPass
<1>4. CASE ScanUnavailable \/ ScanExhausted \/ StartupRefused
  BY <1>1, <1>4, LoaderMarks DEF TypeOK, ScanUnavailable, ScanExhausted, StartupRefused
<1> QED
  BY <1>2, <1>3, <1>4

LEMMA StartMarks ==
  ASSUME IInv, MarkInv,
         StartupThisAP \/ StartSync \/ StartLock \/ StartMark \/ StartUnlock \/ StartStarted \/ StartAssign
  PROVE  MarkInv'
<1>1. TypeOK
  BY DEF IInv
<1>2. CASE StartupThisAP
  <2> DEFINE i == idx[Bsp]
             s == job[Bsp]
  <2> USE <1>2 DEF StartupThisAP
  <2>1. /\ i \in AP /\ i < mpCount /\ pc[i] = "idle" /\ pc[Bsp] = "scan"
        /\ UNCHANGED <<mpCount, started, assigned, isWorking, idx, fresh>>
    <3>1. i \in Proc
      BY <1>1, ProcFacts DEF TypeOK
    <3> QED
      BY <3>1 DEF AP
  <2>2. s \in Slot /\ ~started[s] /\ assigned[s] = 0
    BY <2>1 DEF IInv, ControlInv, MarkInv, AssignInv
  <2>3. /\ pc'[Bsp] = "ssync" /\ pc'[i] = "crypt" /\ job'[i] = s /\ job'[Bsp] = s
        /\ \A q \in AP : q # i => pc'[q] = pc[q] /\ job'[q] = job[q]
    BY <1>1, <2>1 DEF TypeOK
  <2>4. \A q \in AP : Holding(q) => job[q] # s
    BY <2>1, <2>2 DEF IInv, HolderInv, Launched
  <2>5. \A q \in AP : q # i => (Holding(q)' <=> Holding(q))
    BY <2>3 DEF Holding
  <2>6. RunsInv'
    BY <2>1, <2>3 DEF MarkInv, RunsInv
  <2>7. AssignInv'
    <3>1. \A q \in AP : Holding(q)' /\ job'[q] = job'[Bsp] => q = i
      BY <2>3, <2>4, <2>5
    <3>2. \A q \in AP : Holding(q)' => assigned[job'[q]] \in {0, q}
      BY <2>2, <2>3, <2>5 DEF MarkInv, AssignInv
    <3>3. \A q \in AP : pc'[q] \in Clearing => idx[q] \in {0, q}
      BY <2>3 DEF MarkInv, AssignInv
    <3>4. \A r \in Slot : ~started[r] => assigned[r] = 0
      BY DEF MarkInv, AssignInv
    <3> QED
      BY ONLY <2>1, <2>3, <3>1, <3>2, <3>3, <3>4 DEF AssignInv, Clearing
  <2>8. CopyInv'
    BY <2>3 DEF CopyInv
  <2>9. WorkingApIsMarked'
    BY <2>1, <2>3 DEF MarkInv, WorkingApIsMarked
  <2> QED
    BY <2>6, <2>7, <2>8, <2>9 DEF MarkInv
<1>3. CASE StartSync \/ StartLock
  BY <1>1, <1>3, StartingMarks DEF TypeOK, StartSync, StartLock
<1>4. CASE StartUnlock
  BY <1>1, <1>4, StartingMarks DEF TypeOK, StartUnlock
<1>5. CASE StartStarted
  <2>1. job[Bsp] \in Slot
    BY <1>5 DEF StartStarted, IInv, ControlInv
  <2>2. started'[job[Bsp]] /\ \A s \in Slot : ~started'[s] => ~started[s]
    BY <1>1, <1>5, <2>1 DEF TypeOK, StartStarted
  <2> QED
    BY <1>1, <1>5, <2>2, StartingMarks DEF TypeOK, StartStarted
<1>6. CASE StartMark
  <2> USE <1>6 DEF StartMark
  <2>1. /\ pc'[Bsp] = "sunlock" /\ \A p \in AP : pc'[p] = pc[p]
        /\ UNCHANGED <<mpCount, started, assigned, idx, job>>
    BY <1>1 DEF TypeOK
  <2>2. /\ isWorking'[idx[Bsp]] = TRUE
        /\ \A p \in AP : isWorking[p] => isWorking'[p]
    BY <1>1 DEF TypeOK, IInv, ControlInv
  <2>3. RunsInv'
    BY <2>1 DEF MarkInv, RunsInv
  <2>4. AssignInv'
    BY <2>1 DEF MarkInv, AssignInv, Holding
  <2>5. CopyInv'
    BY <2>1 DEF CopyInv
  <2>6. WorkingApIsMarked'
    BY <2>1, <2>2 DEF MarkInv, WorkingApIsMarked
  <2> QED
    BY <2>3, <2>4, <2>5, <2>6 DEF MarkInv
<1>7. CASE StartAssign
  <2> DEFINE s == job[Bsp]
  <2> USE <1>7 DEF StartAssign
  <2>1. /\ pc[Bsp] = "sassign" /\ pc'[Bsp] = "tally" /\ \A p \in AP : pc'[p] = pc[p]
        /\ UNCHANGED <<mpCount, started, isWorking, idx, job>>
    BY <1>1 DEF TypeOK
  <2>2. s \in Slot /\ started[s]
    BY <2>1 DEF IInv, ControlInv, MarkInv, AssignInv
  <2>3. /\ assigned'[s] = idx[Bsp]
        /\ \A r \in Slot : r # s => assigned'[r] = assigned[r]
    BY <1>1, <2>2 DEF TypeOK
  <2>4. RunsInv'
    BY <2>1 DEF MarkInv, RunsInv
  <2>5. AssignInv'
    <3>1. \A r \in Slot : ~started[r] => assigned'[r] = 0
      BY <2>2, <2>3 DEF MarkInv, AssignInv
    <3>2. \A q \in AP : Holding(q) => assigned'[job[q]] \in {0, q}
      <4>1. \A q \in AP : Holding(q) => job[q] \in Slot
        BY DEF IInv, ControlInv, Holding
      <4> QED
        BY <2>1, <2>3, <4>1 DEF MarkInv, AssignInv
    <3> QED
      BY <2>1, <3>1, <3>2 DEF MarkInv, AssignInv, Holding
  <2>6. CopyInv'
    BY <2>1 DEF CopyInv
  <2>7. WorkingApIsMarked'
    BY <2>1 DEF MarkInv, WorkingApIsMarked
  <2> QED
    BY <2>4, <2>5, <2>6, <2>7 DEF MarkInv
<1> QED
  BY <1>2, <1>3, <1>4, <1>5, <1>6, <1>7

LEMMA RefreshMarks ==
  ASSUME IInv, MarkInv, NEW p \in Ctx, RefreshSync(p) \/ RefreshMPs(p)
  PROVE  MarkInv'
<1>1. TypeOK
  BY DEF IInv
<1>2. pc[p] \in InRefresh
  BY DEF RefreshSync, RefreshMPs, RefreshLock, RefreshCopy, RefreshAbort, RefreshSwap, RefreshReturn
<1>3. p \in AP \/ p = Bsp
  BY <1>2 DEF IInv, NotifyInv, NotifyNeverBlocks
<1>4. CASE p \in AP
  <2>1. p < mpCount /\ (pc[p] = "rcopy" => idx[p] = 0)
    BY <1>2, <1>4 DEF MarkInv, RunsInv
  <2>2. mpCount \in Nat /\ p \in Nat
    BY <1>1, <1>4, ProcFacts DEF TypeOK
  <2>3. ~ RefreshCopy(p)
    BY <1>4 DEF RefreshCopy
  <2>4. ~ RefreshSwap(p)
    BY <2>1, <2>2 DEF RefreshSwap
  <2>5. CASE RefreshSync(p)
    BY <1>1, <1>4, <2>5, ApMarks DEF TypeOK, RefreshSync, Holding
  <2>6. CASE RefreshLock(p)
    BY <1>1, <1>4, <2>6, ApMarks DEF TypeOK, RefreshLock, Holding
  <2>7. CASE RefreshAbort(p)
    BY <1>1, <1>4, <2>7, ApMarks DEF TypeOK, RefreshAbort, Holding
  <2>8. CASE RefreshReturn(p)
    BY <1>1, <1>4, <2>8, ApMarks DEF TypeOK, RefreshReturn, Holding
  <2> QED
    BY <2>3, <2>4, <2>5, <2>6, <2>7, <2>8 DEF RefreshMPs
<1>5. CASE p = Bsp
  <2>1. CASE RefreshSync(p)
    BY <1>1, <1>5, <2>1, LoaderMarks DEF TypeOK, RefreshSync
  <2>2. CASE RefreshAbort(p)
    BY <1>1, <1>5, <2>2, LoaderMarks DEF TypeOK, RefreshAbort
  <2>3. CASE RefreshReturn(p)
    BY <1>1, <1>5, <2>3, LoaderMarks DEF TypeOK, RefreshReturn
  <2>4. CASE RefreshLock(p)
    <3>1. /\ pc'[Bsp] = "rcopy" /\ idx'[Bsp] = 0 /\ pc[Bsp] = "rlock"
          /\ \A q \in AP : pc'[q] = pc[q] /\ idx'[q] = idx[q]
          /\ UNCHANGED <<mpCount, isWorking, started, assigned, job>>
      BY <1>1, <1>5, <2>4 DEF TypeOK, RefreshLock
    <3>2. RunsInv'
      BY <3>1 DEF MarkInv, RunsInv
    <3>3. AssignInv'
      BY <3>1 DEF MarkInv, AssignInv, Holding
    <3>4. CopyInv'
      <4>1. \A q \in AP : ~(q < 0)
        BY ProcFacts
      <4> QED
        BY <3>1, <4>1 DEF CopyInv
    <3>5. WorkingApIsMarked'
      BY <3>1 DEF MarkInv, WorkingApIsMarked
    <3> QED
      BY <3>2, <3>3, <3>4, <3>5 DEF MarkInv
  <2>5. CASE RefreshCopy(p)
    <3> DEFINE i == idx[Bsp]
    <3>1. /\ pc[Bsp] = "rcopy" /\ pc' = pc /\ idx'[Bsp] = i + 1
          /\ \A q \in AP : idx'[q] = idx[q]
          /\ fresh' = [fresh EXCEPT ![Bsp][i] = isWorking[i]]
          /\ UNCHANGED <<mpCount, isWorking, started, assigned, job>>
      BY <1>1, <1>5, <2>5 DEF TypeOK, RefreshCopy
    <3>2. i \in Proc
      BY <1>1, <1>5, <2>5, ProcFacts DEF TypeOK, RefreshCopy
    <3>3. \A q \in Proc : fresh'[Bsp][q] = IF q = i THEN isWorking[i] ELSE fresh[Bsp][q]
      BY <1>1, <3>1, <3>2 DEF TypeOK
    <3>4. RunsInv'
      BY <3>1 DEF MarkInv, RunsInv
    <3>5. AssignInv'
      BY <3>1 DEF MarkInv, AssignInv, Holding
    <3>6. CopyInv'
      <4>1. SUFFICES ASSUME Bsp = 0, NEW q \in AP, pc[q] \in InCrypt, q < i + 1
                     PROVE  fresh'[Bsp][q]
        BY <3>1 DEF CopyInv
      <4>2. q \in Nat /\ i \in Nat
        BY <3>2, ProcFacts
      <4>3. CASE q = i
        BY <3>1, <3>3, <4>1, <4>3 DEF MarkInv, WorkingApIsMarked
      <4>4. CASE q < i
        BY <3>1, <3>3, <4>1, <4>2, <4>4 DEF MarkInv, CopyInv
      <4> QED
        BY <4>1, <4>2, <4>3, <4>4
    <3>7. WorkingApIsMarked'
      BY <3>1 DEF MarkInv, WorkingApIsMarked
    <3> QED
      BY <3>4, <3>5, <3>6, <3>7 DEF MarkInv
  <2>6. CASE RefreshSwap(p)
    <3>1. /\ pc[Bsp] = "rcopy" /\ pc'[Bsp] = "runlock" /\ idx[Bsp] >= mpCount
          /\ \A q \in AP : pc'[q] = pc[q]
          /\ isWorking' = fresh[Bsp]
          /\ UNCHANGED <<mpCount, idx, started, assigned, job>>
      BY <1>1, <1>5, <2>6 DEF TypeOK, RefreshSwap
    <3>2. \A q \in AP : pc[q] \in InCrypt => q < idx[Bsp]
      <4>1. \A q \in AP : pc[q] \in InCrypt => q < mpCount
        BY DEF MarkInv, RunsInv
      <4>2. mpCount \in Nat /\ idx[Bsp] \in Nat /\ \A q \in AP : q \in Nat
        BY <1>1, ProcFacts DEF TypeOK
      <4> QED
        BY <3>1, <4>1, <4>2
    <3>3. RunsInv'
      BY <3>1 DEF MarkInv, RunsInv
    <3>4. AssignInv'
      BY <3>1 DEF MarkInv, AssignInv, Holding
    <3>5. CopyInv'
      BY <3>1 DEF CopyInv
    <3>6. WorkingApIsMarked'
      BY <3>1, <3>2 DEF MarkInv, CopyInv, WorkingApIsMarked
    <3> QED
      BY <3>3, <3>4, <3>5, <3>6 DEF MarkInv
  <2> QED
    BY <2>1, <2>2, <2>3, <2>4, <2>5, <2>6 DEF RefreshMPs
<1> QED
  BY <1>3, <1>4, <1>5

LEMMA WorkMarks ==
  ASSUME IInv, MarkInv, NEW p \in AP, work(p)
  PROVE  MarkInv'
<1>1. TypeOK
  BY DEF IInv
<1>2. CASE CryptReport(p)
  BY <1>1, <1>2, ApMarks DEF TypeOK, CryptReport, Holding
<1>3. CASE CryptBlocks(p)
  BY <1>1, <1>3, ApMarks DEF TypeOK, CryptBlocks, Holding
<1>4. CASE CryptFails(p)
  BY <1>1, <1>4, ApMarks DEF TypeOK, CryptFails, Holding
<1> QED
  BY <1>2, <1>3, <1>4 DEF work

LEMMA FinishMarks ==
  ASSUME IInv, MarkInv, NEW p \in AP \cup {Notify}, FinishSync(p) \/ FinishThread(p)
  PROVE  MarkInv'
<1>1. TypeOK
  BY DEF IInv
<1>2. CASE p = Notify
  <2>1. FinishAlready(p)
    BY <1>2 DEF IInv, NotifyInv, NotifyNeverBlocks, FinishSync, FinishThread, FinishEnter, FinishLock,
       FinishClear, FinishUnlock, FinishMark
  <2> QED
    BY <1>1, <1>2, <2>1, NotifyMarks DEF TypeOK, FinishAlready
<1>3. CASE p \in AP
  <2>1. CASE FinishAlready(p)
    BY <1>1, <1>3, <2>1, ApMarks DEF TypeOK, FinishAlready, Holding
  <2>2. CASE FinishEnter(p)
    <3>1. assigned[job[p]] \in {0, p}
      BY <1>3, <2>2 DEF FinishEnter, Holding, MarkInv, AssignInv
    <3> QED
      BY <1>1, <1>3, <2>2, <3>1, ApMarks DEF TypeOK, FinishEnter, Holding
  <2>3. CASE FinishSync(p) \/ FinishLock(p)
    <3>1. idx[p] \in {0, p}
      BY <1>3, <2>3 DEF FinishSync, FinishLock, MarkInv, AssignInv
    <3> QED
      BY <1>1, <1>3, <2>3, <3>1, ApMarks DEF TypeOK, FinishSync, FinishLock, Holding
  <2>4. CASE FinishClear(p)
    <3>1. idx[p] \in {0, p}
      BY <1>3, <2>4 DEF FinishClear, MarkInv, AssignInv
    <3>2. Bsp = 0 => \A q \in AP : q # p => isWorking'[q] = isWorking[q]
      BY <1>1, <1>3, <2>4, <3>1 DEF TypeOK, FinishClear
    <3> QED
      BY <1>1, <1>3, <2>4, <3>2, ApMarks DEF TypeOK, FinishClear, Holding
  <2>5. CASE FinishUnlock(p)
    BY <1>1, <1>3, <2>5, ApMarks DEF TypeOK, FinishUnlock, Holding
  <2>6. CASE FinishMark(p)
    BY <1>1, <1>3, <2>6, ApMarks DEF TypeOK, FinishMark, Holding
  <2> QED
    BY <2>1, <2>2, <2>3, <2>4, <2>5, <2>6 DEF FinishThread
<1> QED
  BY <1>2, <1>3

LEMMA FirmwareMarks ==
  ASSUME IInv, MarkInv, FirmwareStep
  PROVE  MarkInv'
<1>1. TypeOK
  BY DEF IInv
<1>2. ASSUME NEW p \in AP, ApReturns(p) PROVE MarkInv'
  BY <1>1, <1>2, ApMarks DEF TypeOK, ApReturns, Holding
<1>3. ASSUME NEW s \in Slot, NotifyEvent(s) PROVE MarkInv'
  BY <1>1, <1>3, NotifyMarks DEF TypeOK, NotifyEvent
<1>4. CASE NotifyReturns
  BY <1>1, <1>4, NotifyMarks DEF TypeOK, NotifyReturns
<1> QED
  BY <1>2, <1>3, <1>4 DEF FirmwareStep

LEMMA InitMarkInv == ASSUME Init PROVE MarkInv
<1>1. pc[Bsp] = "init" /\ \A p \in AP : pc[p] = "idle"
  BY DEF Init
<1>2. \A s \in Slot : assigned[s] = 0
  BY DEF Init
<1> QED
  BY <1>1, <1>2 DEF MarkInv, RunsInv, AssignInv, CopyInv, WorkingApIsMarked, Holding

LEMMA NextMarkInv == ASSUME IInv, MarkInv, [Next]_vars PROVE MarkInv'
<1>1. CASE LoaderStep
  BY <1>1, InitializeMarks, SpinMarks, StartMarks DEF LoaderStep, UefiSpin, StartThread
<1>2. ASSUME NEW p \in Ctx, Await(p) \/ RefreshMPs(p) PROVE MarkInv'
  <2>1. CASE RefreshSync(p) \/ RefreshMPs(p)
    BY <2>1, RefreshMarks
  <2>2. CASE p = Bsp /\ StartSync
    BY <2>2, StartMarks
  <2>3. CASE FinishSync(p)
    <3>1. p \in AP \cup {Notify}
      BY <2>3 DEF FinishSync, IInv, ControlInv
    <3> QED
      BY <2>3, <3>1, FinishMarks
  <2> QED
    BY <1>2, <2>1, <2>2, <2>3 DEF Await
<1>3. ASSUME NEW p \in AP, work(p) PROVE MarkInv'
  BY <1>3, WorkMarks
<1>4. ASSUME NEW p \in AP \cup {Notify}, FinishThread(p) PROVE MarkInv'
  BY <1>4, FinishMarks
<1>5. CASE FirmwareStep
  BY <1>5, FirmwareMarks
<1>6. CASE UNCHANGED vars
  BY <1>6, NotifyMarks DEF vars
<1> QED
  BY <1>1, <1>2, <1>3, <1>4, <1>5, <1>6 DEF Next, Halted

(***************************************************************************)
(* If MP 0 is the BSP, an AP that is decrypting stays marked through every *)
(* RefreshMPs and every FinishThread of the other APs, although none of    *)
(* them excludes the others (threading.c:27-72, 291-383).                *)
(***************************************************************************)
THEOREM WorkingApStaysMarked == Spec => []WorkingApIsMarked
<1>1. Init => MarkInv
  BY InitMarkInv
<1>2. IInv /\ MarkInv /\ [Next]_vars => MarkInv'
  BY NextMarkInv
<1>3. MarkInv => WorkingApIsMarked
  BY DEF MarkInv
<1> QED
  BY Inductive, <1>1, <1>2, <1>3, PTL DEF Spec
==============================================================================
