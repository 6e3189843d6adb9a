# A TLA+ model of CrOwS and its loader

CrOwS is a small operating system with an encrypted boot chain. Most of its own logic is in the MFTAH
loader, a UEFI application (`src/boot/mftah_uefi/`): it finds encrypted payloads on the boot volume, lets
the user choose one and enter its password, decrypts it into memory (on several processors, if threading
is on), registers it as a RAM disk and starts the system on it. The kernel (`src/kernel/`) does little yet: it
finds a pool of memory and reports on the serial line.

These modules model the loader and the start of the kernel. Source paths below are relative to the repository.

## 1. Inventory

| Part | State it keeps | Operations | What is hard | What makes it correct |
|---|---|---|---|---|
| Thread pool, `threading.c` | protocol pointer, `MpCount`, list of processors with `IsWorking`, `ThreadMutex`, the slots `Threads[]` | `InitializeThreading`, `CreateThread`, `StartThread`, `FinishThread`, `RefreshMPs` | APs and BSP share everything, a mutex that is no mutex, completion events that may not come | an order is decrypted once, finished means decrypted, an AP at work is not offered again, waiting threads start |
| Decryption workers, `util.c` | contexts with `CurrentPlace`, `Completed` and `Progress` | `SpawnDecryptionWorker`, `work`, `UefiSpin` | a loop that reads flags and counters other processors write, and has no timeout | it returns only when everything is decrypted, and it returns |
| Keyboard, `input.c` | the caller's buffer, the length | `ReadChar16KeyboardInput` | Backspace, limits, errors in the middle of a line | it is a line editor |
| Discovery and menu, `loader.c` | table of handles, partial matches, `gOperatingPayload` | `DiscoverPayloads`, `SelectPayload` | regrown buffers, partial against full matches, going back | finds every payload, selects what was typed |
| Boot flow, `main.c` | handle and its position, passwords, the image, EFI variables | `efi_main` and its helpers | retries over one handle, steps of several that fail, a started system that returns | what starts is the payload that was selected, whole and decrypted |
| RAM disk, `ramdisk.c` | private data and protocols of every disk, the ACPI tables | `Register`, `Unregister`, block I/O | eleven steps that may fail, I/O in the middle of them, a memory map that grows while it is read, sums that wrap around | disks are independent arrays and I/O stays inside them; no memory is lost; ACPI describes disks that exist |
| SHA-256, `sha256.c` | chunk buffer, total length, ring of the schedule | `init`, `write`, `close` | pieces of any size, padding at the boundary, a ring in place of an array | every byte is hashed once and in order, with the padding of the standard |
| AES, `wrappers.c` | cipher context | CBC, allocation wrappers | pure byte arithmetic | - |
| ACPI and graphics lookups | a protocol pointer | one lookup each | nothing | - |
| Kernel, `kernel/` | the Multiboot structure, the memory hole, lines on the stack, the UART | `kmain`, `kinit`, tag search, `snprintf`, UART output | an uninitialised context, sizes that come from the structure, strings without terminator, a busy wait | finds the map if there is one, takes the first hole, writes nothing else, says what it means, returns |
| `boot/uefi/main.c`, port I/O, build files | none | - | nothing | - |

How they interact: `efi_main` calls `SelectPayload`, which calls the prompt; `LoadAndDecrypt` hands
`SpawnDecryptionWorker` and `UefiSpin` to the MFTAH library as callbacks; the library calls the first for
every work order and then the second. `UefiSpin` starts threads on the APs; they write `CurrentPlace` and
end in `FinishThread`, which the firmware may also run on the BSP as notification function of the
completion event. The MFTAH library and gnu-efi are submodules whose sources are not in the repository;
they are modelled by how the loader uses them and marked external in `PROJECT.json`.

The hazards of the code are listed, each at its line, in `PROJECT.json`.

## 2. Modules

```
LineEditor            an editor of bounded lines (abstract)
  ^ implemented by
KeyboardInput         input.c             MCKeyboard     KeyboardProofs
  ^ instantiated by
PayloadMenu           loader.c            MCPayloadMenu  PayloadMenuProofs
BootFlow              main.c              MCBootFlow     BootFlowProofs
Threading             threading.c, util.c MCThreading    ThreadingProofs
BlockDevices          independent arrays of blocks (abstract)
  ^ implemented by
RamDisk               ramdisk.c, acpi.c   MCRamDisk      RamDiskProofs
Sha256                sha256.c            MCSha256       Sha256Proofs
Kernel                kernel/             MCKernel       KernelProofs
InductionLemmas       induction over numbers, used by the proofs of PayloadMenu, Sha256 and Kernel
```

### Threading

The execution contexts are the processors `0 .. MpCount - 1`, one of which is the BSP, and `Notify`, the
notification function, which runs on the BSP over the interrupted loader (so `Loader` and `Runs` let the
BSP move only while `Notify` is idle). Every context has a `pc`; a step is one access to state another
context can see. Each slot `s` has its `Threads[s]` fields and the `CurrentPlace` of its context;
`decrypted` is the ghost that counts how much of the order really was decrypted.

- *InitializeThreading* ends in one of four ways: it is not called (the shipped loader, `main.c:226` is
  commented out), the protocol is missing, a later call fails, or the list is published. `NOT_FOUND` for a
  processor shortens the loop, as in the code. `Enabled` are the APs that are enabled when the loop is over; an AP
  that is not stays in the list as one that is free, and `StartupThisAP` refuses it.
- *The mutex* is `MUTEX_SYNC` (wait until it reads FALSE) and `MUTEX_LOCK` (store TRUE), two steps.
  `ThreadMutex` is not volatile, so in a section with no opaque call the optimiser may drop the store of
  TRUE; `MayElide` allows it.
- *RefreshMPs* copies the flags one by one, then swaps the list. On an AP `GetProcessorInfo` refuses, so
  the refresh aborts. A write that hits the list just replaced is lost; so is a write between copy and
  swap, which the model has and which has the same outcome.
- *StartThread* starts the AP first and marks it afterwards, in four separate steps.
- *work* decrypts interval by interval (an interval is the 2^22 bytes between two progress reports of
  `AES_CBC_decrypt_buffer`), reports its place, and calls FinishThread.
- *The firmware* notices that an AP returned and may or may not signal the event; a signalled event is
  notified at any later time.

An order is `Length[s]` intervals from `Location[s]`; the layouts are a constant. A slot is used once.

### KeyboardInput, LineEditor

One action per kind of key and per failure. The length is kept in bytes modulo 256 as in the code. Backspace
clears the slot *behind* the last character and then steps back, so the erased character stays in the
buffer; callers that read up to the terminator see it, callers that read `resultLength` do not. The
refinement maps the first `InputLength` characters to the edited line. The buffer is taken to be as long as
the function uses it (see section 7).

### PayloadMenu

`DiscoverPayloads` and `SelectPayload`, with `KeyboardInput` instantiated as the prompt and typed into key
by key. Names are sequences of characters because the properties are about prefixes and case; there are
four characters. `GoBack` is the way back from the password prompt, which re-enters the menu with everything
the last visit left. `name` is the one the password prompt will show. `IsFullMatch` and `IsPartialMatch` are the two calls of `StrnCmp`, the second with its
limit in bytes. With a single payload the NULL of a failed `LibFileInfo` is used (`loader.c:337`): a fault, or a name
taken from low memory, which the model makes an empty one.

### BootFlow

`efi_main` from start to handover. The menu is seen by what it returns. The payload file is a number of
units; `buffer` records *which* unit of the file was read to which place, so a wrong position or a missing
chunk shows. `LoadAndDecrypt` asks for the size again; when that fails it is 0 and the buffer empty, and the library
is taken to refuse a buffer that has no room for a header (`NoHeader`; its source is not here). The library accepts the right password exactly if it was given the header of the file. `Panic`
is the `PANIC` of every failing call on the way.

### RamDisk, BlockDevices

An action for every step of `RamDiskRegister` and `RamDiskPublishNfit` that can fail or that others can see.
`held` is what the registration in progress acquired and has not given back; `handles` maps a registered disk to
its private data, and a disk is identified by the request that made it. Addresses, sizes and block numbers wrap
around at `Limit`. `BlockIo` may happen at any moment once the protocols are installed. `MapGrows` is another user
of the firmware splitting descriptors of the memory map between the calls that read it. The contents of the ACPI
tables are reduced to their kind and the range they describe.

When `ConnectController` fails the private data is freed under installed protocols. The model moves such a disk
to `dangling` and offers no Block I/O on it: what that would do depends on who reuses the memory. `dangling`
only makes a second registration of the same memory either succeed or be refused.

`BlockDevices` says what the driver promises: each disk an array of its own, transfers of whole blocks within
it are carried out, everything else is refused and changes nothing, other memory is never written, and the event
of a token is signalled by success only. The mapping takes `content` and `outside` from the memory.

### Sha256

`sha_256_init`, `sha_256_write` and `sha_256_close`, with `consume_chunk` as a sequence of 64 rounds. A byte of the
message and a word of the schedule are one thing here, a word of `Base` values: a chunk is 16 of them. `Mix` stands
for the sum of rotations that makes a new word; which four words go into it is the code's. What a round does with
its word is left out, so `h` is not the hash but the list of the schedules that went into it, and two messages with
equal lists have equal hashes. The array on the stack starts with garbage and keeps what the last hash left.
`calc_sha_256` and `H` are sequences of these calls.

### Kernel

`kmain` and `kinit`, one action per statement that prints, writes to memory or decides. Memory is a function from
addresses to words; a field of a structure is a word, and the Multiboot structure lies in that memory, possibly in
the very hole that becomes the pool. `boot` has the registers, the memory and what is on the stack; it also records
where the loader put its tags (`tags`, `tag`), which the kernel does not read. `LaidOut` and `MapsFit` say what the
loader promises of that structure. A message is its kind and its length, since the properties only tell apart
who wrote a character: `Formatted(kind)` is a text of any length in `TextLen[kind]`, whatever the numbers in it. `snprintf`
is modelled by what it writes: the text up to the limit, and no terminator. A string without one goes on with what
follows the buffer on the stack (`boot.tail`). Lines are cleared as the code does it, their first character only.
`uart_putc` waits for the holding register, which `Transmit`, the hardware, empties.

## 3. Runs

| Run | Result | What it shows |
|---|---|---|
| `ThreadingSafety` | pass | all safety promises with three orders of up to two intervals, two usable APs, one that cannot be enabled, a missing processor, every outcome of the initialisation, failures and dropped lock stores |
| `ThreadingLive` | pass | with an AP for every order every thread starts and `UefiSpin` ends |
| `ThreadingWaiting` | violation | with one AP and two orders the second may wait forever |
| `Keyboard` | pass | the prompt implements `LineEditor`; one erased character at most stays |
| `PayloadMenu` | pass | every payload is opened; what is selected starts with the line; the prompt names no other; full names select; with all failures |
| `PayloadMenuMatch` | violation | a unique prefix selects nothing, and an ambiguous line selects by the erased character behind it |
| `BootFlow` | pass | what is started is the payload selected last, whole, decrypted, announced |
| `RamDisk` | pass | two disks, one that ends with the address space, requests to be refused, every failure, a growing memory map, Block I/O at any time: `BlockDevices` is implemented, no pool memory is lost, the NFIT is right, the call returns |
| `RamDiskFailure` | violation | a registration that fails in `ConnectController` leaves its protocols behind |
| `Kernel` | pass | however it is started, nothing but the pool of the context and the mark of its entry is written, and what is said is sent; without padded tags the map is found and the kernel returns; with a context of zeros the pool is the first hole |
| `KernelPool` | violation | behind a tag that needs padding the map is missed or the search does not end; with garbage in the context the pool is no hole of the map |
| `Sha256` | pass | the ring gives the schedule, no word is lost or repeated, the padding is right, every call returns |

A violation run states what a comment, a message or a header of the repository says, and TLC's
counterexample is what the code does instead; `PROJECT.json` quotes the line. The runs of Threading concern
code that the shipped loader has switched off.

`EveryThreadStarts` appears in both kinds of run: it holds where every order has a working AP of its own and the list
is right, and fails where an order has to wait for an AP to be seen free. `ThreadingLive` has neither a missing
processor, nor an AP that cannot be enabled, nor an initialisation that fails; `ThreadingSafety` has them all, and what
they do to progress is in section 7.

`SelectedWasTyped` and `SingleMatchSelects` are about the line, the characters that the user typed and did not
erase; the code compares the string in the buffer, which may have one erased character more. The first holds all the
same. The second says which payload a line should select, and fails in both directions. With the names `q..` and
`Q....` the keys `q . . Backspace Enter` select the first, though the line `q.` starts both; and a line that starts one
name only selects nothing, because the partial comparison goes on for twice as many characters as were typed.

`UsesAHoleOfTheMap` says what `kinit` is for, and asks nothing of how it is started. It fails in three ways, of which
TLC shows the first: the search misses the map behind a padded tag; it reads padding as a size of 0 and stays
there; or garbage in the context is taken for the pool. `FindsAnAlignedMap`, `PoolIsTheFirstHole` and `KmainReturns` are
what remains when these are ruled out, each by a condition that it states.

`WorkingApIsMarked` is stated for a BSP with number 0 only. If processor 0 is an AP, a thread that ends
before it was assigned clears the flag of *that* AP; the firmware then refuses to start the busy AP, and the
promises about the data hold all the same: the other theorems of section 4 are for every number of the BSP.

`FullNameSelects` is stated for answers shorter than the longest one. At the full length the comparison of
`loader.c:282` stops before the end of a longer name, and takes whichever of the two the directory has first.

### Bounds

- Threading: 3 orders and 2 APs are the least with an AP reused, an order waiting and a third AP context's
  flag to disturb; 5 processor numbers, one missing and one that cannot be enabled, exercise both refusals. Lengths 0, 1 and 2 are "no order",
  "one report at each end" and "a report in the middle"; their sum is at most 3. One slot has its progress
  suppressed.
- Keyboard: a limit of 4, two characters; longer lines repeat the same steps, and the proofs cover every
  limit up to 127.
- PayloadMenu: answers of up to 4 characters over `1 q Q .`; directories without a payload, with one, with a
  name that is a prefix of another in both orders, with more payloads than the table (3) has room for, with
  names longer than the longest answer, and with a name of exactly that length that starts a longer one.
- BootFlow: files of 10, 7 and 4 units with blocks of 2, chunks of 4 and headers of 3: two full chunks and a
  short one, a size that is no multiple of a block, an image without content. One password is "b".

- RamDisk: an address space of 16 bytes with blocks of 2 and pages of 4. A disk of two blocks in the middle has
  memory before and behind it that must not be written; a disk of one block at the end makes every sum wrap; the
  requests that are refused have a size that is no multiple of a block, exceed the memory, or name no type. The
  transfers cover the whole disk, its first block, a block behind its end, a length of a block and a half, none,
  and block 15, whose last block wraps to 0. Two growths of the map would only repeat the loop.
- Sha256: sizes 0, 1, 13, 16 and 17 reach every fill of the buffer and both ways into a chunk, and lengths up to
  33 end on both sides of the boundary at which the length needs a chunk of its own. The length counts 4 bits per
  word of 16 values, so that its two words both matter.
- Kernel: 57 words, 2 MiB at 28 and 1 MiB as 4, and a `Width` of 32 for 2^32, so that a hole of 22 is negative as
  an int. The four maps have a hole first, second, too short, reserved, or none; the information block is below
  the kernel's limit or in the hole. A text has 2 to 7 characters; that the one that announces the map (7) is longer
  than any of an entry (3 or 5) is as in the code, where it has at least 67 characters and theirs at most about 60,
  and a line of 10 holds each, as one of 256 does. The report in the hole is longer or shorter than the hole. Blocks
  with a padded tag have padding that reads as a size of 0 or of 2.

Deadlock is checked where the system does not stop; the states in which the loader has ended stutter explicitly.
RamDisk stops after a panic and Kernel when `kmain` has returned.

### Fairness

Threading (`FairSpec`): processors keep executing (weak fairness of every context's
steps). A context polls the mutex every 250 ms while holders keep it for microseconds, so it meets it free if
it is free again and again: strong fairness of `Await`. The firmware notices an AP that returned. *Not*
assumed: that a completion event is ever signalled or notified.

RamDisk and Sha256: a call that was made runs on, since the code is sequential; nobody has to make a call. Kernel:
the processor runs on, and the hardware sends what is in its register, which the busy wait of `uart.c:70` relies on.

## 4. Proofs

`ThreadingProofs` proves, for every number of processors and slots, every layout, every set of present
and of enabled processors, and whatever fails or is elided:

- `TypeCorrect`, `FinishedIsDecrypted`, `SpinIsCorrect`, `NoDoubleDecryption`, `NotificationReturns`.

They rest on `PoolAssumption` alone. The mutex plays no part: `MutualExclusion` is false, and the inductive
invariant does not mention `mutex` or `isWorking` beyond their types. What protects the data is that only the
BSP starts threads, and that `Started` is set by the BSP itself before it looks at the slot again. Hence the
parts of `IInv`:

- `ControlInv`: which `pc` goes with which index, and that a thread being tried or started is not started yet;
- `QuietInv`: before `UefiSpin` no AP runs and nothing is finished;
- `HolderInv`: a thread that was launched (started, or StartupThisAP was just called for it) and not finished
  is with one AP only, and `decrypted` is where that AP is; needed because `decrypted <= Length` is not
  inductive as long as two APs might share an order;
- `NotifyInv`: whatever is pending or notified is finished already, so the notification function returns at
  its first test and never reaches the mutex of the code it interrupted;
- `OrderInv`: `place` never runs ahead of `decrypted`;
- `SpawnInv`: an order that has bytes has a context, so `UefiSpin` does not pass over it;
- `TallyInv`: `progress` is at most the sum of the lengths of the slots passed (that is what `Location` is),
  and equal only if each of them is decrypted, although it was added up over time; `completed` means that all
  slots passed are finished. Finished and decrypted are stable, so an old reading is still right when
  `UefiSpin` leaves.

`WorkingApStaysMarked` is about the flags, which any context may clear and a refresh may lose. `MarkInv`, on top of
`IInv`, has what it needs:

- `RunsInv`: only an AP of the table runs, and its own refresh aborts at the first processor, so it replaces no list;
- `AssignInv`: an AP that finishes clears its own flag, or that of MP 0 if `AssignedProcessor` is not set yet, and
  while the BSP is between starting an AP and assigning it no other AP has that thread; with a BSP of number 0 the
  second flag is nobody's;
- `CopyInv`: what the BSP's refresh copied already is marked for every AP that is decrypting. It is the BSP that
  starts APs, so no AP starts during the copy.

`KeyboardProofs` proves, for every character set and every limit up to 127, `KeyboardTypeCorrect`,
`TailStaysClear`, `LineIsReturned`, and `KeyboardEditsALine`: the loop implements `LineEditor`. The invariant
adds that the characters of the line are characters (`LineIsTyped`). `TailIsClear` is what makes it work: a
character typed after a Backspace overwrites the only one that was left behind.

`PayloadMenuProofs` proves, for every directory, every size of the table, every limit up to 127 and whatever fails,
`MenuTypeCorrect`, `SelectionIsTyped`, `SelectionIsNamed`, `EveryPayloadIsOpened` and the action property
`FullNamesSelect`. They rest on `MenuAssumption`, of which the part that matters is that no two names of a
directory differ in case only, as on a FAT volume. The prompt is not proved again: `KeyboardProofs` is instantiated with
`MaxLength <- MaxName`, and a step of the menu is shown to be a step of the prompt or to leave it alone. The parts:

- `MenuType`, and `PromptInv`: the prompt keeps its invariant, and what is compared is a line it returned;
- `ScanInv`: the table holds exactly the payloads among the entries read so far, in order; hence a full table is
  missing some only if there are more than it has room for;
- `SeenInv` and `PartialInv`: the loop passed over no full match, unless a name could not be had (`missed`), and what
  `PartialFileMatch` points to matches in part only;
- `VerdictInv` and `ChosenInv`: what the count and `IsValidSelection` say when the loop is over, and of the payload
  chosen. "What is selected was typed" is about the end only; these carry it through the loop and the verdict;
- `NameInv`: the name is set while there is one partial match and only then. `PromptNamesTheSelection` needs it of the
  loop too, because a match that sets the name is not the selection yet.

The lemma under them, `MatchFacts`, is about the two calls of `StrnCmp`: either match means that the answer is a prefix
of the name, and a match that is only partial takes a line of one character with an erased one behind it, since the
limit of the second call is in bytes.

`BootFlowProofs` proves, for all files, sizes, block and chunk lengths, passwords and lists of volumes, and whatever
fails, `BootTypeCorrect`, `HeaderIsChecked`, `WholePayloadIsStarted`, `HintsAreSet` and `CanariesInOrder`:

- `HandleInv`: the handle is at the start of the file whenever the header or the file is about to be read, after
  every wrong password and every way back;
- `ReadInv`: the buffer has the length of the file, or none if the size could not be read again; what was read so far
  is the start of the file and the position is where it ends, or at the end of the file when the last chunk is short;
- `HintInv` and `StartInv`: the variables set so far are right, all are set before anything is started, and the volumes
  started are behind the cursor.

`RamDiskProofs` proves, for every address space, block size, page size, set of requests and memory maps, and
whatever step of a registration fails, `DiskTypeCorrect`, `NoPoolMemoryIsLost`, `NfitIsTrue` and
`DiskImplementsDevices`, the refinement of `BlockDevices`. They rest on `RamDiskAssumption`: disks do not overlap
(the caller allocated them), and the block size is above 1 and divides the address space, as 512 does 2^64; with blocks
of one byte the number of the block behind the last could wrap to 0. The invariant has three parts:

- `TypeInv`: beyond the types, that a registration in progress passed the checks of `RamDiskRegister` and so lies
  in the address space, and that every handle is what `RamDiskInitBlockIo` made of its request;
- `HeldInv`: what is held before each step; "nothing is lost when the call is over" says nothing about the steps
  in between and is not inductive;
- `NfitInv`: the tables that are out describe disks of `Settled`, the ones that no failure of the call in progress
  can take back. A disk whose protocols are installed and whose controller is not connected yet still may be, and
  the proof shows that no table describes it before. It also carries the descriptor found by `RamDiskPublishNfit`
  from the search to the step that publishes.

For the refinement each action is mapped to one of `BlockDevices` or to a stutter. The transfers are the work: that
the checks of the driver, in arithmetic that wraps, accept exactly the whole blocks within the disk, and that the
copy then changes that disk's content and nothing else.

`Sha256Proofs` proves, for every sequence of writes of any sizes, every word size and every mixing function that gives
words, `Sha256TypeCorrect`, `RingKeepsTheSchedule`, `WritesLoseNothing` and `ClosedIsPadded`. The parts:

- `RingInv`: the ring holds the last sixteen words the rounds were given, so that the four words the code picks by
  index modulo 16 are those of the schedule's definition, whatever the array held before;
- `CountInv`: `total_len` is the length of the message, and a schedule in `h` is complete;
- `NothingIsLost`: the words consumed, the buffer and what the call has yet to take are the message; it is inductive;
- `CloseInv`: the stream after the first of two closing chunks (`HalfPadded`) and after the last (`Padded`). That
  the loop that shifts the length out gives its digits is shown by induction.

`KernelProofs` rests on `KernelAssumption`: the structure is laid out as the Multiboot 2 specification has it (`LaidOut`),
and whatever in it can be taken for a memory map lies in memory (`MapsFit`; the search may stop inside a tag, so this is
asked of every address of the structure). What it proves differs in how much it asks of the start:

- for every memory, every structure, padded or not, and every garbage on the stack: `KernelTypeCorrect`,
  `PrintedIsSent`, and `OnlyPoolWritten`, where "the pool" is what the context names, garbage or not;
- for a context of zeros, which `main.c:127` does not ensure, and every structure: `PoolIsFirst`, of the map found;
- for structures without a tag that needs padding, and every stack: `AlignedMapIsFound`. Most structures of real
  loaders have such tags; `KernelPool` is about them.

The parts of the invariant:

- `UartInv`: what is on the wire, in the register and still to be sent is what was printed;
- `SeekInv`: up to the search nothing was written, and without padding the search is at a tag and not past the map;
- `MapInv` and `PlaceInv`: the loop stays inside the map, whose header survives the marking of a hole, and is at the
  start of an entry;
- `PoolInv` and `DoneInv`: the memory is untouched until there is a pool, and then it has the mark of the first hole
  (`Marked`) or, with a pool from the stack, no mark. With zeros in the context every hole is still ahead while there is
  no pool, and once there is one it is the first. After the loop only the pool changes, which may hold the structure
  itself, so the map is not read again.

`InductionLemmas` has what these need beyond the library: a set that holds 0 and the successor of each of its members
holds every number, shown through the least number it might miss, and that a function defined step by step exists and
has the values of its definition. The installed provers cannot use the library's induction theorems, whose
hypothesis is an operator; a set in its place they can. `Shifted` is therefore a recursive function, not a
RECURSIVE operator.

What the proofs changed: `FullNameSelects` was false for an answer of the greatest length (above); some arms of a CASE in
the checks of RamDisk overlapped, where the code takes the first; and RamDisk needed its assumption on the blocks. TLC
had missed all of them on the instances it was given, and the listing of PayloadMenu now has the first.

Only model-checked: the liveness properties `SpinTerminates`, `EveryThreadStarts`, `RegisterReturns`, `KmainReturns` and
`CallsReturn`, which rest on fairness. Every invariant and action property of a passing run and both refinements are
theorems as well.

## 5. Not modelled

- AES beyond the loop over an order, the mixing of SHA-256 and `memmove`: byte arithmetic without control.
- What the kernel's `snprintf` prints for a number: a text is its length here. That leaves out `%d` of a negative number
  (`str.c:119-128`, a memory map entry with a type of 2^31 or more), which uses the uninitialised `d_at`, and that
  `%X` prints the low half of a number only (`str.c:35`).
- Bytes and words of SHA-256 are one thing: how four bytes make a word (`sha256.c:105-107`) is left out.
- `hmac_sha256`, `wrappers.c` and the checksum of the NFIT: their callers are in the MFTAH library or they fill
  bytes that the model leaves out.
- `GetThreadLimit`, `JoinThread`, `DestroyThread`, `Confirm`, `uart_get` and the other tokens of `snprintf`: no
  caller.
- The graphics lookup, the UEFI boot stub, port I/O and console output: no behaviour worth a model.
- A slot of the pool that is used for a second batch of orders: whether that happens depends on the library.
- Block I/O on a disk whose registration failed after its protocols were installed: undefined behaviour over freed
  memory.

## 6. Plan

Done, in this order: Threading with its proofs, KeyboardInput with its abstract specification and proofs,
PayloadMenu over it, BootFlow, RamDisk with its abstract specification and proofs, Kernel, Sha256, and the proofs of
PayloadMenu, BootFlow, Sha256, Kernel, of the flags of Threading and of the refinement of RamDisk. Next:

1. Threading with several batches per slot, and what remains of its promises then.
2. Action properties: that `CurrentPlace` and the decrypted part of an order only grow, that a published table is
   withdrawn only with its disk.

## 7. Seen while modelling, without a run

- `main.c:183` prints "No bootable device was found." also after a system was started and returned.
- `main.c:293` says empty passwords default to a hard-coded one; the code asks again.
- `loader.c:227` declares the buffer of the answer with 65 *bytes*; the prompt clears and fills 65 CHAR16.
  `main.c:72` is one byte short in the same way. The model takes the buffers to be long enough.
- `q` and `b` are not recognised when an erased character is left behind them, and a payload whose password
  is `q` (or `b`, in the menu of several) can be opened only in that way; BootFlow has both cases.
- `loader.h:16` says that the list of handles is NULL on an error; it is not.
- `threading.c:31`: the test and the store of the mutex are two accesses, so two contexts can be inside; the
  theorems of section 4 do not depend on it.
- `threading.c:160` says "Multiprocessing support disabled", but `InitializeThreading` fails with the protocol pointer
  set: `IsThreadingEnabled` says yes with an `MpCount` of 0, orders are queued, and `UefiSpin` never ends.
- `threading.c:147`: a number that does not exist stays in the list as an AP that is free, and the last processor is
  dropped in its place. With the processors 0 and 2 of three no AP can be started, and `UefiSpin` never ends.
- `threading.c:180`: an AP that cannot be enabled is only warned about, and the test of its health is commented out
  (313). `StartThread` tries it first and returns the error of `StartupThisAP` before it tries another: no thread starts.
  TLC finds counterexamples to `SpinTerminates` and `EveryThreadStarts` for each of these three if `ThreadingLive` is
  given that outcome, that set of processors or that AP.
- `main.c:465`: `FileSize` returns 0 when it fails, and an empty buffer passes every test of `LoadAndDecrypt`; what
  comes of it is up to the library, which the model takes to refuse it.
- `loader.c:337`: the result of `LibFileInfo` is used without a test.
- `input.c:54`: after a Backspace the string in the buffer is one character longer than the returned length.
- `loader.c:282`: the comparison of a whole name stops after MFTAH_MAX_FILENAME_LENGTH characters, so an answer of
  that length also matches every longer name that starts with it, and the first in the directory is taken.
- `loader.c:308`: a full match leaves `gOperatingPayload.Name` at NULL, so the password prompt names no payload.
- `main.c:155`: the hash of the payload is taken and never reaches its variable.
- `ramdisk.h:152` says INVALID_PARAMETER for a size of 0 or a missing type; `ramdisk.c:345` returns NOT_FOUND.
- `ramdisk.c:85` says the SSDT is inserted only if there is no NVDIMM root device yet; it always is, once for
  every disk.
- `ramdisk.c:220`: for a disk that ends with the address space the sums wrap to 0 and any descriptor that starts
  below it is accepted; `NfitDescribesADisk` leaves that case out.
- `ramdisk.c:459`: a failure to publish returns an error with the disk registered and in use.
- `util.c`'s `CalculateCheckSum8` returns the plain sum of the bytes, where a checksum would be its complement.
- `kernel/core/main.c:200`: the limit is an int; a hole of 2 GiB or more gets a negative one, so nothing is
  written before it is printed.
- `kernel/core/main.c:173`: the loop that clears the line asks for its length again after it cleared the first
  character, and stops; `snprintf` writes no terminator. The line that announces the map (160) has at least 67 characters
  and that of an entry at most about 60, so each of these ends in the rest of the line before. The model has this.
- `str.c:84`: `hex_as_str[16]` is never set, so `%X` may print what follows.

## 8. Running

`tlc -config <run>.cfg <module>` for the runs (`PROJECT.json` names the module of each). `tlapm <module>.tla` for
the proofs, with `ThreadingProofs`, `KeyboardProofs`, `RamDiskProofs`, `BootFlowProofs`, `InductionLemmas`,
`Sha256Proofs`, `PayloadMenuProofs` and `KernelProofs`. The operators named `Bug...` are plausible mistakes; each is
used in place of the action it is named after to see that a property can fail.
