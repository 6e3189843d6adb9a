----------------------------- MODULE PayloadMenu -----------------------------
(***************************************************************************)
(* DiscoverPayloads and SelectPayload of loader.c: the scan of the boot    *)
(* volume and the menu, composed with the prompt of KeyboardInput.         *)
(* efi_main enters the menu again when the user goes back from the         *)
(* password prompt.                                                        *)
(***************************************************************************)
EXTENDS Naturals, Sequences, SequencesExt

CONSTANTS
  Char, Nul,      \* as in KeyboardInput
  Upper,          \* what StrUpr makes of each character
  LowerQ,         \* the character 'q'
  Suffix,         \* BootPayloadExtensionPattern, upper-cased
  MaxName,        \* MFTAH_MAX_FILENAME_LENGTH
  MaxPayloads,    \* MFTAH_MAX_PAYLOADS
  Listings,       \* the root directories of this instance
  MayFail         \* whether firmware calls may fail

\* The file system is FAT: its names differ in more than their case.
ASSUME MenuAssumption ==
  /\ Nul \notin Char
  /\ MaxName \in 1 .. 127
  /\ Upper \in [Char -> Char]
  /\ LowerQ \in Char
  /\ Suffix \in Seq(Char) /\ Len(Suffix) >= 2
  /\ MaxPayloads \in Nat \ {0}
  /\ Listings \subseteq Seq(Seq(Char))
  /\ \A l \in Listings : \A j, k \in DOMAIN l :
       j # k => [c \in DOMAIN l[j] |-> Upper[l[j][c]]] # [c \in DOMAIN l[k] |-> Upper[l[k][c]]]
  /\ MayFail \in BOOLEAN

VARIABLES
  pc,
  files,          \* the names in the root directory, in the order of Read
  cursor,         \* how many of them Read returned
  roomy,          \* the buffer was grown for the next entry
  handles,        \* PayloadHandles: positions in files
  i,              \* the loop over the handles
  partial,        \* PartialFileMatch, 0 for NULL
  partials,       \* PartialMatchesCount
  valid,          \* IsValidSelection
  missed,         \* a handle of this pass gave no name; nothing depends on it
  selected,       \* *PayloadFileHandle, 0 for NULL
  name,           \* gOperatingPayload.Name, empty for NULL
  fromMulti,      \* gOperatingPayload.FromMultiSelect
  kpc, InputBuffer, InputLength, resultLength

Kbd == INSTANCE KeyboardInput WITH MaxLength <- MaxName

prompt  == <<kpc, InputBuffer, InputLength, resultLength>>
scan    == <<files, cursor, roomy, handles>>
matches == <<i, partial, partials, valid, missed>>
choice  == <<selected, name, fromMulti>>
vars    == <<pc, scan, matches, choice, prompt>>

TypeOK ==
  /\ pc \in {"open", "list", "single", "prompt", "typing", "compare", "verdict",
             "position", "selected", "reset", "panic"}
  /\ files \in Listings
  /\ cursor \in 0 .. Len(files)
  /\ roomy \in BOOLEAN
  /\ handles \in Seq(DOMAIN files) /\ Len(handles) <= MaxPayloads
  /\ i \in 1 .. Len(handles) + 1
  /\ partial \in 0 .. Len(files)
  /\ partials \in 0 .. 2
  /\ valid \in BOOLEAN /\ missed \in BOOLEAN
  /\ selected \in 0 .. Len(files)
  /\ name \in Seq(Char)
  /\ fromMulti \in BOOLEAN
  /\ Kbd!TypeOK

Init ==
  /\ pc = "open"
  /\ files \in Listings
  /\ cursor = 0 /\ roomy = FALSE /\ handles = << >>
  /\ i = 1 /\ partial = 0 /\ partials = 0 /\ valid = FALSE /\ missed = FALSE
  /\ selected = 0 /\ name = << >> /\ fromMulti = FALSE
  /\ Kbd!Init
------------------------------------------------------------------------------
(* Strings, as the firmware library handles them. *)

StrUpr(s) == [k \in DOMAIN s |-> Upper[s[k]]]

Take(s, n) == SubSeq(s, 1, IF n < Len(s) THEN n ELSE Len(s))

\* StrnCmp finds no difference in the first n characters.
StrnEq(s, t, n) == Take(s, n) = Take(t, n)

\* The terminated string in the buffer of the prompt.
Answer == [k \in 1 .. Kbd!StrLen(InputBuffer) |-> InputBuffer[k - 1]]

\* Longer than the suffix, and it ends in the suffix in any case.
IsPayload(s) == Len(s) > Len(Suffix) /\ IsSuffix(Suffix, StrUpr(s))

IsFullMatch(s) == StrnEq(Answer, StrUpr(s), MaxName)

\* A file that merely is a prefix match if the limit counts characters.
BugIsPartialMatch(s) == StrnEq(Answer, StrUpr(s), resultLength \div 2)

\* The limit is the length in bytes, twice the number of characters typed.
IsPartialMatch(s) == StrnEq(Answer, StrUpr(s), resultLength)
------------------------------------------------------------------------------
(* Bugs that this code could plausibly have; no action uses them. *)

\* A grown buffer is taken for an entry that was read.
BugReadTooSmall ==
  /\ pc = "list" /\ Len(handles) < MaxPayloads /\ cursor < Len(files) /\ ~roomy
  /\ roomy' = TRUE
  /\ cursor' = cursor + 1
  /\ UNCHANGED <<pc, files, handles, matches, choice, prompt>>

\* The table is filled one past its end.
BugOpenPayload ==
  /\ pc = "list" /\ Len(handles) <= MaxPayloads /\ cursor < Len(files)
  /\ IsPayload(files[cursor + 1])
  /\ cursor' = cursor + 1
  /\ roomy' = FALSE
  /\ handles' = Append(handles, cursor + 1)
  /\ UNCHANGED <<pc, files, matches, choice, prompt>>

\* An empty line is compared too.
BugAnswerName ==
  /\ pc = "typing" /\ kpc = "returned"
  /\ ~StrnEq(Answer, <<LowerQ>>, 4)
  /\ InputBuffer' = [k \in DOMAIN InputBuffer |->
                       IF InputBuffer[k] = Nul THEN Nul ELSE Upper[InputBuffer[k]]]
  /\ i' = 1
  /\ pc' = "compare"
  /\ UNCHANGED <<scan, partial, partials, valid, missed, choice, kpc, InputLength, resultLength>>

\* A second partial match leaves the name of the first.
BugCompareSecond ==
  /\ pc = "compare" /\ i <= Len(handles)
  /\ ~IsFullMatch(files[handles[i]]) /\ IsPartialMatch(files[handles[i]])
  /\ partials = 1
  /\ partial' = handles[i] /\ partials' = 2
  /\ pc' = "verdict"
  /\ UNCHANGED <<scan, i, valid, missed, choice, prompt>>
------------------------------------------------------------------------------
(* DiscoverPayloads.  Its hash of the loader only fills LoadedLoaderHash.   *)

\* The locals of SelectPayload, and the listing from its start.
OpenVolume ==
  /\ pc = "open"
  /\ pc' = "list"
  /\ cursor' = 0 /\ roomy' = FALSE /\ handles' = << >>
  /\ i' = 1 /\ partial' = 0 /\ partials' = 0 /\ valid' = FALSE /\ missed' = FALSE
  /\ UNCHANGED <<files, choice, prompt>>

\* A protocol, an allocation, a Read or an Open fails: SelectPayload panics.
DiscoverFails ==
  /\ pc \in {"open", "list"} /\ MayFail
  /\ pc' = "panic"
  /\ UNCHANGED <<scan, matches, choice, prompt>>

\* EFI_BUFFER_TOO_SMALL: the same entry is read again into a larger buffer.
ReadTooSmall ==
  /\ pc = "list" /\ Len(handles) < MaxPayloads /\ cursor < Len(files) /\ ~roomy
  /\ roomy' = TRUE
  /\ UNCHANGED <<pc, files, cursor, handles, matches, choice, prompt>>

SkipFile ==
  /\ pc = "list" /\ Len(handles) < MaxPayloads /\ cursor < Len(files)
  /\ ~IsPayload(files[cursor + 1])
  /\ cursor' = cursor + 1
  /\ roomy' = FALSE
  /\ UNCHANGED <<pc, files, handles, matches, choice, prompt>>

OpenPayload ==
  /\ pc = "list" /\ Len(handles) < MaxPayloads /\ cursor < Len(files)
  /\ IsPayload(files[cursor + 1])
  /\ cursor' = cursor + 1
  /\ roomy' = FALSE
  /\ handles' = Append(handles, cursor + 1)
  /\ UNCHANGED <<pc, files, matches, choice, prompt>>

\* The status, and what SelectPayload does with it; no payload is a panic.
EndOfListing ==
  /\ pc = "list"
  /\ Len(handles) = MaxPayloads \/ cursor = Len(files)
  /\ pc' = CASE Len(handles) = 0 -> "panic"
             [] Len(handles) = 1 -> "single"
             [] OTHER            -> "prompt"
  /\ UNCHANGED <<scan, matches, choice, prompt>>

DiscoverPayloads ==
  OpenVolume \/ DiscoverFails \/ ReadTooSmall \/ SkipFile \/ OpenPayload \/ EndOfListing
------------------------------------------------------------------------------
(* SelectPayload. *)

SelectSingle ==
  /\ pc = "single"
  /\ name' = files[handles[1]]
  /\ selected' = handles[1]
  /\ fromMulti' = FALSE
  /\ pc' = "position"
  /\ UNCHANGED <<scan, matches, prompt>>

\* LibFileInfo has no memory and its NULL is used: the machine faults, or the
\* name is what lies in low memory, which is taken for empty here.
SingleInfoMissing ==
  /\ pc = "single" /\ MayFail
  /\ name' = << >>
  /\ selected' = handles[1]
  /\ fromMulti' = FALSE
  /\ pc' \in {"position", "panic"}
  /\ UNCHANGED <<scan, matches, prompt>>

Ask ==
  /\ pc = "prompt" /\ Kbd!BeginRead
  /\ partial' = 0 /\ partials' = 0 /\ missed' = FALSE
  /\ pc' = "typing"
  /\ UNCHANGED <<scan, i, valid, choice>>

Type ==
  /\ pc = "typing" /\ Kbd!ReadKey
  /\ kpc' \in {"failed", "panic"} => MayFail
  /\ UNCHANGED <<pc, scan, matches, choice>>

\* An error of the prompt is a panic here, and so is a panic of the prompt.
AskFails ==
  /\ \/ pc = "prompt" /\ MayFail /\ Kbd!ResetFails
     \/ pc = "typing" /\ kpc \in {"failed", "panic"} /\ UNCHANGED prompt
  /\ pc' = "panic"
  /\ UNCHANGED <<scan, matches, choice>>

AnswerNothing ==
  /\ pc = "typing" /\ kpc = "returned" /\ resultLength = 0
  /\ pc' = "prompt"
  /\ UNCHANGED <<scan, matches, choice, prompt>>

\* Shutdown resets the machine, or panics if the firmware refuses.
AnswerQuit ==
  /\ pc = "typing" /\ kpc = "returned" /\ resultLength > 0
  /\ StrnEq(Answer, <<LowerQ>>, 4)
  /\ pc' \in {"reset"} \cup (IF MayFail THEN {"panic"} ELSE {})
  /\ UNCHANGED <<scan, matches, choice, prompt>>

\* The answer is upper-cased where it stands.
AnswerName ==
  /\ pc = "typing" /\ kpc = "returned" /\ resultLength > 0
  /\ ~StrnEq(Answer, <<LowerQ>>, 4)
  /\ InputBuffer' = [k \in DOMAIN InputBuffer |->
                       IF InputBuffer[k] = Nul THEN Nul ELSE Upper[InputBuffer[k]]]
  /\ i' = 1
  /\ pc' = "compare"
  /\ UNCHANGED <<scan, partial, partials, valid, missed, choice, kpc, InputLength, resultLength>>

\* LibFileInfo has no memory for this one.
InfoMissing ==
  /\ pc = "compare" /\ i <= Len(handles) /\ MayFail
  /\ i' = i + 1
  /\ missed' = TRUE
  /\ UNCHANGED <<pc, scan, partial, partials, valid, choice, prompt>>

CompareFull ==
  /\ pc = "compare" /\ i <= Len(handles) /\ IsFullMatch(files[handles[i]])
  /\ valid' = TRUE
  /\ selected' = handles[i]
  /\ pc' = "verdict"
  /\ UNCHANGED <<scan, i, partial, partials, missed, name, fromMulti, prompt>>

CompareFirst ==
  /\ pc = "compare" /\ i <= Len(handles)
  /\ ~IsFullMatch(files[handles[i]]) /\ IsPartialMatch(files[handles[i]])
  /\ partials = 0
  /\ partial' = handles[i] /\ partials' = 1
  /\ name' = StrUpr(files[handles[i]])
  /\ i' = i + 1
  /\ UNCHANGED <<pc, scan, valid, missed, selected, fromMulti, prompt>>

CompareSecond ==
  /\ pc = "compare" /\ i <= Len(handles)
  /\ ~IsFullMatch(files[handles[i]]) /\ IsPartialMatch(files[handles[i]])
  /\ partials = 1
  /\ partial' = handles[i] /\ partials' = 2
  /\ name' = << >>
  /\ pc' = "verdict"
  /\ UNCHANGED <<scan, i, valid, missed, selected, fromMulti, prompt>>

CompareNone ==
  /\ pc = "compare" /\ i <= Len(handles)
  /\ ~IsFullMatch(files[handles[i]]) /\ ~IsPartialMatch(files[handles[i]])
  /\ i' = i + 1
  /\ UNCHANGED <<pc, scan, partial, partials, valid, missed, choice, prompt>>

CompareDone ==
  /\ pc = "compare" /\ i > Len(handles)
  /\ pc' = "verdict"
  /\ UNCHANGED <<scan, matches, choice, prompt>>

\* A single partial match counts as a selection; without one, ask again.
Verdict ==
  /\ pc = "verdict"
  /\ selected' = IF partials = 1 THEN partial ELSE selected
  /\ valid' = (valid \/ partials = 1)
  /\ pc' = IF valid' THEN "position" ELSE "prompt"
  /\ fromMulti' = IF valid' THEN TRUE ELSE fromMulti
  /\ UNCHANGED <<scan, i, partial, partials, missed, name, prompt>>

GetPosition ==
  /\ pc = "position"
  /\ pc' \in {"selected"} \cup (IF MayFail THEN {"panic"} ELSE {})
  /\ UNCHANGED <<scan, matches, choice, prompt>>

SelectPayload ==
  \/ SelectSingle \/ SingleInfoMissing \/ Ask \/ Type \/ AskFails
  \/ AnswerNothing \/ AnswerQuit \/ AnswerName
  \/ InfoMissing \/ CompareFull \/ CompareFirst \/ CompareSecond
  \/ CompareNone \/ CompareDone \/ Verdict \/ GetPosition

\* 'b' at the password prompt: efi_main forgets the payload and starts over.
GoBack ==
  /\ pc = "selected" /\ fromMulti
  /\ selected' = 0
  /\ name' = << >>
  /\ pc' = "open"
  /\ UNCHANGED <<scan, matches, fromMulti, prompt>>

\* The menu is left for good.
Left == pc \in {"selected", "reset", "panic"} /\ UNCHANGED vars

Next == DiscoverPayloads \/ SelectPayload \/ GoBack \/ Left

Spec == Init /\ [][Next]_vars
------------------------------------------------------------------------------
(* What the menu promises. *)

Payloads == {k \in DOMAIN files : IsPayload(files[k])}

\* The scan opens the payloads of the directory in its order, each once and up
\* to the limit, however often an entry has to be read again into a larger
\* buffer (loader.c:135-192).
OpensEveryPayload ==
  pc \notin {"open", "list", "panic"} =>
    /\ ToSet(handles) =
         {k \in Payloads : Cardinality({j \in Payloads : j < k}) < MaxPayloads}
    /\ \A j, k \in DOMAIN handles : j < k => handles[j] < handles[k]

\* A payload is only ever selected by a non-empty line that its name starts
\* with, whatever the user typed, erased or answered before: the buffer may
\* hold one character more than the line (input.c:54, loader.c:282-322).
SelectedWasTyped ==
  pc = "selected" /\ fromMulti =>
    /\ Kbd!Line # << >>
    /\ IsPrefix(Kbd!Line, StrUpr(files[selected]))

\* The password prompt never names a payload other than the one that was
\* selected: the name is set at a first partial match, has to be taken back at a
\* second one and when the user goes back, and a full match may end the loop
\* with one set (loader.c:290-318, main.c:98, 272-275).  It may name none.
PromptNamesTheSelection ==
  pc = "selected" /\ fromMulti => name \in {<< >>, StrUpr(files[selected])}

\* The line was typed without an erased character left behind it.
Clean == Len(Answer) = InputLength

\* A name typed in full selects that payload and no other, although a partial
\* match found earlier overrules it (loader.c:308-322).  The name has to be
\* shorter than the longest answer: a longer name that starts with it is a full
\* match too (loader.c:282).
FullNameSelects ==
  [][\A k \in ToSet(handles) :
       pc = "verdict" /\ ~missed /\ Clean /\ Len(Answer) < MaxName /\ Answer = StrUpr(files[k])
         => pc' = "position" /\ selected' = k]_vars

\* "You can also type the first few unique characters of a payload to select
\* it" (loader.c:240), and "If and only if a SINGLE partial match was found, use
\* it" (loader.c:318): what the user typed and did not erase selects a payload
\* that has that name, or else the only one whose name starts with it, or none.
SingleMatchSelects ==
  [][LET named   == {k \in ToSet(handles) : StrUpr(files[k]) = Kbd!Line}
         started == {k \in ToSet(handles) : IsPrefix(Kbd!Line, StrUpr(files[k]))}
         meant   == IF named = {} /\ Cardinality(started) = 1 THEN started ELSE named
     IN pc = "verdict" /\ ~missed /\ InputLength < MaxName =>
          IF meant = {} THEN pc' = "prompt" ELSE pc' = "position" /\ selected' \in meant]_vars
==============================================================================
