---------------------------- MODULE KeyboardInput ----------------------------
(***************************************************************************)
(* ReadChar16KeyboardInput of input.c: the loop that reads a line from the *)
(* firmware's console into the buffer of its caller.  The buffer outlives  *)
(* the call; callers read it both up to its terminator and up to the       *)
(* length that was returned.  It is taken to have the MaxLength + 1        *)
(* characters that the function clears; the array of the payload menu is   *)
(* declared with as many bytes (loader.c:227).                             *)
(***************************************************************************)
EXTENDS Naturals

CONSTANTS
  Char,           \* the characters 0x20 .. 0x7E
  Nul,            \* the terminator
  MaxLength       \* the limit of the caller: 64, 32 or 1

\* The returned length is a UINT8 and counts bytes, two to a character.
ASSUME LineAssumption ==
  /\ Nul \notin Char
  /\ MaxLength \in 1 .. 127

Index == 0 .. MaxLength

VARIABLES
  kpc,            \* "idle", "reading", "returned", "failed" or "panic"
  InputBuffer,    \* MaxLength + 1 characters
  InputLength,    \* the characters of the line
  resultLength    \* *ResultingBufferLength

kvars == <<kpc, InputBuffer, InputLength, resultLength>>

TypeOK ==
  /\ kpc \in {"idle", "reading", "returned", "failed", "panic"}
  /\ InputBuffer \in [Index -> Char \cup {Nul}]
  /\ InputLength \in Index
  /\ resultLength \in 0 .. 255

\* The callers zero their buffers and lengths when they declare them.
Init ==
  /\ kpc = "idle"
  /\ InputBuffer = [i \in Index |-> Nul]
  /\ InputLength = 0
  /\ resultLength = 0
------------------------------------------------------------------------------
\* Bugs that this code could plausibly have; no action uses them.

\* The length is left in characters in a byte that counts bytes.
BugPressEnter ==
  /\ kpc = "reading"
  /\ resultLength' = InputLength
  /\ InputBuffer' = [InputBuffer EXCEPT ![MaxLength] = Nul]
  /\ kpc' = "returned"
  /\ UNCHANGED InputLength

\* Backspace moves back without clearing anything.
BugBackspaceKeeps ==
  /\ kpc = "reading"
  /\ InputLength' = IF InputLength > 0 THEN InputLength - 1 ELSE 0
  /\ UNCHANGED <<kpc, InputBuffer, resultLength>>

\* Backspace on an empty line wraps the UINT8.
BugBackspaceWraps ==
  /\ kpc = "reading"
  /\ InputBuffer' = [InputBuffer EXCEPT ![InputLength] = Nul]
  /\ InputLength' = (InputLength + 255) % 256
  /\ UNCHANGED <<kpc, resultLength>>

\* The line of the last prompt is not forgotten.
BugBeginRead ==
  /\ kpc \notin {"reading", "panic"}
  /\ InputBuffer' = [i \in Index |-> Nul]
  /\ kpc' = "reading"
  /\ UNCHANGED <<InputLength, resultLength>>
------------------------------------------------------------------------------
BeginRead ==
  /\ kpc \notin {"reading", "panic"}
  /\ InputBuffer' = [i \in Index |-> Nul]
  /\ InputLength' = 0
  /\ kpc' = "reading"
  /\ UNCHANGED resultLength

\* The first Reset fails: the caller gets the error and its old buffer.
ResetFails ==
  /\ kpc \notin {"reading", "panic"}
  /\ InputLength' = 0
  /\ kpc' = "failed"
  /\ UNCHANGED <<InputBuffer, resultLength>>

\* No keystroke, a character that is not printable, or one past the limit.
IgnoreKey ==
  /\ kpc = "reading"
  /\ UNCHANGED kvars

\* Backspace clears the slot after the last character, then steps back.
PressBackspace ==
  /\ kpc = "reading"
  /\ InputBuffer' = [InputBuffer EXCEPT ![InputLength] = Nul]
  /\ InputLength' = IF InputLength > 0 THEN InputLength - 1 ELSE 0
  /\ UNCHANGED <<kpc, resultLength>>

PressChar(c) ==
  /\ kpc = "reading" /\ InputLength < MaxLength
  /\ InputBuffer' = [InputBuffer EXCEPT ![InputLength] = c]
  /\ InputLength' = InputLength + 1
  /\ UNCHANGED <<kpc, resultLength>>

PressEnter ==
  /\ kpc = "reading"
  /\ InputBuffer' = [InputBuffer EXCEPT ![MaxLength] = Nul]
  /\ resultLength' = (2 * InputLength) % 256
  /\ kpc' = "returned"
  /\ UNCHANGED InputLength

\* WaitForEvent, ReadKeyStroke or the second Reset fails with another error.
ReadFails ==
  /\ kpc = "reading"
  /\ kpc' = "failed"
  /\ UNCHANGED <<InputBuffer, InputLength, resultLength>>

\* EFI_DEVICE_ERROR or EFI_UNSUPPORTED.
KeyboardFault ==
  /\ kpc = "reading"
  /\ kpc' = "panic"
  /\ UNCHANGED <<InputBuffer, InputLength, resultLength>>

\* PANIC ends in an endless loop.
Panicked == kpc = "panic" /\ UNCHANGED kvars

ReadKey ==
  \/ IgnoreKey
  \/ PressBackspace
  \/ \E c \in Char : PressChar(c)
  \/ PressEnter
  \/ ReadFails
  \/ KeyboardFault

Next == BeginRead \/ ResetFails \/ ReadKey \/ Panicked

Spec == Init /\ [][Next]_kvars
------------------------------------------------------------------------------
\* The characters up to the first terminator, which is how StrnCmp, StrUpr and
\* Print read the buffer.
StrLen(b) ==
  CHOOSE n \in Index : b[n] = Nul /\ \A i \in 0 .. n - 1 : b[i] # Nul

\* The line that the prompt shows: the first InputLength characters.
Line == [i \in 1 .. InputLength |-> InputBuffer[i - 1]]

Editor == INSTANCE LineEditor WITH
  line  <- Line,
  state <- CASE kpc = "reading"  -> "editing"
             [] kpc = "returned" -> "entered"
             [] kpc = "idle"     -> "idle"
             [] OTHER            -> "failed"

\* The loop is a line editor: every key edits the displayed line as an editor
\* of bounded lines does, and the returned buffer starts with that line,
\* whatever was typed, erased or left in the buffer by an earlier prompt.
EditsALine == Editor!Spec

\* Backspace leaves the erased character behind (input.c:54), but never more
\* than one: past the slot after the line the buffer is clear.  So no erased
\* character reappears when the line grows again.
TailIsClear ==
  kpc \in {"reading", "returned"} =>
    \A i \in InputLength + 1 .. MaxLength : InputBuffer[i] = Nul

\* A caller may read the buffer as a terminated string at any time, and the
\* returned length is that of the line in bytes (input.c:66-67).
ReturnsTheLine ==
  /\ InputBuffer[MaxLength] = Nul
  /\ kpc = "returned" => /\ resultLength = 2 * InputLength
                         /\ \A i \in 0 .. InputLength - 1 : InputBuffer[i] \in Char
==============================================================================
