------------------------------ MODULE LineEditor ------------------------------
(***************************************************************************)
(* What the user may expect of a prompt: a line of at most MaxLength       *)
(* characters, edited at its end until Enter is pressed.  This is the      *)
(* abstract specification that KeyboardInput implements.                   *)
(***************************************************************************)
EXTENDS Naturals, Sequences

CONSTANTS
  Char,           \* the printable characters
  MaxLength       \* how many of them a line may have

VARIABLES
  line,           \* what the user sees after the prompt
  state           \* "idle", "editing", "entered" or "failed"

vars == <<line, state>>

Init == line = << >> /\ state = "idle"

Open ==
  /\ state # "editing"
  /\ line' = << >>
  /\ state' = "editing"

Refuse ==
  /\ state # "editing"
  /\ line' = << >>
  /\ state' = "failed"

Type(c) ==
  /\ state = "editing" /\ Len(line) < MaxLength
  /\ line' = Append(line, c)
  /\ UNCHANGED state

Erase ==
  /\ state = "editing" /\ line # << >>
  /\ line' = SubSeq(line, 1, Len(line) - 1)
  /\ UNCHANGED state

Enter ==
  /\ state = "editing"
  /\ state' = "entered"
  /\ UNCHANGED line

Abandon ==
  /\ state = "editing"
  /\ state' = "failed"
  /\ UNCHANGED line

Next ==
  Open \/ Refuse \/ (\E c \in Char : Type(c)) \/ Erase \/ Enter \/ Abandon

Spec == Init /\ [][Next]_vars
===============================================================================
