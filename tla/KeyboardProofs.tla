---------------------------- MODULE KeyboardProofs ----------------------------
(***************************************************************************)
(* Proofs about KeyboardInput, for every alphabet and every limit up to    *)
(* 127: its invariants, and that it implements LineEditor.                 *)
(***************************************************************************)
EXTENDS KeyboardInput, SequenceTheorems, TLAPS

\* The characters of the line were typed: what the returned line needs of the
\* states in which the line is still being edited.
LineIsTyped ==
  kpc \in {"reading", "returned"} =>
    \A i \in 0 .. InputLength - 1 : InputBuffer[i] \in Char

IInv == TypeOK /\ TailIsClear /\ LineIsTyped /\ ReturnsTheLine

\* One step back uncovers at most one slot behind the line.
LEMMA StepBack ==
  ASSUME NEW n \in Nat, NEW m \in Nat, NEW k \in Nat,
         m <= n, n <= m + 1, n <= k
  PROVE  /\ \A i \in m + 1 .. k : i = n \/ i \in n + 1 .. k
         /\ \A i \in 0 .. m - 1 : i \in 0 .. n - 1 /\ i # n
         /\ \A i \in m + 1 .. k : i \in 0 .. k
         /\ \A i \in 0 .. m - 1 : i \in 0 .. k
OBVIOUS

\* The invariant holds before the first prompt.
LEMMA InitIInv == Init => IInv
BY LineAssumption DEF Init, IInv, TypeOK, TailIsClear, LineIsTyped, ReturnsTheLine, Index

\* Every step of the prompt preserves the invariant.
LEMMA NextIInv == IInv /\ [Next]_kvars => IInv'
<1> SUFFICES ASSUME IInv, [Next]_kvars PROVE IInv'
    OBVIOUS
<1> USE LineAssumption DEF IInv, TypeOK, TailIsClear, LineIsTyped, ReturnsTheLine, Index
<1>1. CASE BeginRead
      BY <1>1 DEF BeginRead
<1>2. CASE ResetFails
      BY <1>2 DEF ResetFails
<1>3. CASE PressBackspace
  <2>1. InputBuffer' = [InputBuffer EXCEPT ![InputLength] = Nul]
        BY <1>3 DEF PressBackspace
  <2>2. /\ InputBuffer'[InputLength] = Nul
        /\ \A i \in Index : i # InputLength => InputBuffer'[i] = InputBuffer[i]
        /\ InputBuffer' \in [Index -> Char \cup {Nul}]
        BY <2>1
  <2>3. /\ kpc = "reading" /\ kpc' = "reading" /\ resultLength' = resultLength
        /\ InputLength' \in Index /\ InputLength' <= InputLength
        /\ InputLength <= InputLength' + 1
        BY <1>3 DEF PressBackspace
  <2>4. TailIsClear' /\ LineIsTyped'
    <3>0. /\ InputLength \in Nat /\ InputLength' \in Nat /\ MaxLength \in Nat
          /\ InputLength <= MaxLength
          BY <2>3
    <3>1. /\ \A i \in InputLength' + 1 .. MaxLength :
               i = InputLength \/ i \in InputLength + 1 .. MaxLength
          /\ \A i \in 0 .. InputLength' - 1 :
               i \in 0 .. InputLength - 1 /\ i # InputLength
          /\ \A i \in InputLength' + 1 .. MaxLength : i \in 0 .. MaxLength
          /\ \A i \in 0 .. InputLength' - 1 : i \in 0 .. MaxLength
          BY ONLY <2>3, <3>0, StepBack
    <3>2. /\ \A i \in InputLength + 1 .. MaxLength : InputBuffer[i] = Nul
          /\ \A i \in 0 .. InputLength - 1 : InputBuffer[i] \in Char
          BY <2>3
    <3>5. \A i \in InputLength' + 1 .. MaxLength : InputBuffer'[i] = Nul
          BY ONLY <2>2, <3>1, <3>2 DEF Index
    <3>6. \A i \in 0 .. InputLength' - 1 : InputBuffer'[i] \in Char
          BY ONLY <2>2, <3>1, <3>2 DEF Index
    <3> QED BY <3>5, <3>6
  <2>5. InputBuffer'[MaxLength] = Nul
        BY <2>2
  <2> QED BY <2>2, <2>3, <2>4, <2>5
<1>4. ASSUME NEW c \in Char, PressChar(c) PROVE IInv'
  <2>1. InputBuffer' = [InputBuffer EXCEPT ![InputLength] = c]
        BY <1>4 DEF PressChar
  <2>2. /\ InputBuffer'[InputLength] = c
        /\ \A i \in Index : i # InputLength => InputBuffer'[i] = InputBuffer[i]
        /\ InputBuffer' \in [Index -> Char \cup {Nul}]
        BY <2>1
  <2>3. /\ kpc = "reading" /\ kpc' = "reading" /\ resultLength' = resultLength
        /\ InputLength < MaxLength /\ InputLength' = InputLength + 1
        BY <1>4 DEF PressChar
  <2>4. TailIsClear' /\ LineIsTyped'
        BY <2>2, <2>3
  <2>5. InputBuffer'[MaxLength] = Nul
        BY <2>2, <2>3
  <2> QED BY <2>2, <2>3, <2>4, <2>5
<1>5. CASE PressEnter
  <2>1. InputBuffer' = [InputBuffer EXCEPT ![MaxLength] = Nul]
        BY <1>5 DEF PressEnter
  <2>2. InputBuffer' = InputBuffer
        BY <2>1
  <2>3. 2 * InputLength \in 0 .. 255
        OBVIOUS
  <2>4. (2 * InputLength) % 256 = 2 * InputLength
        BY <2>3
  <2> QED BY <1>5, <2>2, <2>3, <2>4 DEF PressEnter
<1>6. CASE ReadFails \/ KeyboardFault
  <2>1. /\ kpc' \in {"failed", "panic"}
        /\ InputBuffer' = InputBuffer
        /\ InputLength' = InputLength /\ resultLength' = resultLength
        BY <1>6 DEF ReadFails, KeyboardFault
  <2> QED BY <2>1
<1>7. CASE UNCHANGED kvars
      BY <1>7 DEF kvars
<1> QED BY <1>1, <1>2, <1>3, <1>4, <1>5, <1>6, <1>7 DEF Next, ReadKey, IgnoreKey, Panicked

\* The invariant holds throughout every run of prompts.
LEMMA AlwaysIInv == Spec => []IInv
BY InitIInv, NextIInv, PTL DEF Spec

\* The prompt keeps its types: in particular InputLength never wraps and no
\* store falls outside the buffer (input.c:54-62).
THEOREM KeyboardTypeCorrect == Spec => []TypeOK
BY AlwaysIInv, PTL DEF IInv

\* At most one erased character is left behind the line (input.c:53-57).
THEOREM TailStaysClear == Spec => []TailIsClear
BY AlwaysIInv, PTL DEF IInv

\* What is returned is a terminated buffer that starts with the line, and the
\* length of the line in bytes (input.c:66-67).
THEOREM LineIsReturned == Spec => []ReturnsTheLine
BY AlwaysIInv, PTL DEF IInv
-------------------------------------------------------------------------------
\* The line is a sequence of InputLength characters.
LEMMA LineFacts ==
  ASSUME TypeOK
  PROVE  /\ Line \in Seq(Char \cup {Nul})
         /\ Len(Line) = InputLength
         /\ \A i \in 1 .. InputLength : Line[i] = InputBuffer[i - 1]
BY LineAssumption DEF TypeOK, Line, Index

\* A typed character is appended to the line.
LEMMA TypeAppends ==
  ASSUME TypeOK, NEW c \in Char, PressChar(c)
  PROVE  Line' = Append(Line, c)
<1>1. /\ InputLength \in Nat /\ InputLength < MaxLength /\ MaxLength \in Nat
      /\ InputLength' = InputLength + 1
      /\ InputBuffer' = [InputBuffer EXCEPT ![InputLength] = c]
      BY LineAssumption DEF TypeOK, PressChar, Index
<1>2. /\ InputBuffer'[InputLength] = c
      /\ \A i \in 0 .. InputLength - 1 : InputBuffer'[i] = InputBuffer[i]
      BY <1>1 DEF TypeOK, Index
<1>3. /\ Line' \in Seq(Char \cup {Nul})
      /\ Len(Line') = InputLength + 1
      /\ \A i \in 1 .. InputLength + 1 : Line'[i] = InputBuffer'[i - 1]
      BY <1>1 DEF Line, TypeOK, Index
<1>4. /\ Append(Line, c) \in Seq(Char \cup {Nul})
      /\ Len(Append(Line, c)) = InputLength + 1
      /\ \A i \in 1 .. InputLength : Append(Line, c)[i] = Line[i]
      /\ Append(Line, c)[InputLength + 1] = c
      BY LineFacts, AppendProperties
<1>5. \A i \in 1 .. InputLength + 1 : Line'[i] = Append(Line, c)[i]
      BY <1>1, <1>2, <1>3, <1>4, LineFacts
<1> QED BY <1>3, <1>4, <1>5, SeqEqual

\* Backspace drops the last character of the line, if there is one.
LEMMA BackspaceErases ==
  ASSUME TypeOK, PressBackspace
  PROVE  IF InputLength = 0
         THEN Line' = Line
         ELSE Line' = SubSeq(Line, 1, Len(Line) - 1) /\ Line # << >>
<1>1. /\ InputLength \in Nat /\ InputLength <= MaxLength /\ MaxLength \in Nat
      /\ InputLength' = IF InputLength > 0 THEN InputLength - 1 ELSE 0
      /\ InputBuffer' = [InputBuffer EXCEPT ![InputLength] = Nul]
      BY LineAssumption DEF TypeOK, PressBackspace, Index
<1>2. \A i \in 0 .. InputLength - 1 : InputBuffer'[i] = InputBuffer[i]
      BY <1>1 DEF TypeOK, Index
<1>3. CASE InputLength = 0
      BY <1>1, <1>3 DEF Line
<1>4. CASE InputLength > 0
  <2>1. Line' = [i \in 1 .. InputLength - 1 |-> InputBuffer'[i - 1]]
        BY <1>1, <1>4 DEF Line
  <2>2. SubSeq(Line, 1, Len(Line) - 1) = [i \in 1 .. InputLength - 1 |-> Line[i]]
        BY <1>1, <1>4, LineFacts
  <2>3. \A i \in 1 .. InputLength - 1 : InputBuffer'[i - 1] = Line[i]
        BY <1>1, <1>2, LineFacts
  <2>4. Line # << >>
        BY <1>4, LineFacts
  <2> QED BY <1>4, <2>1, <2>2, <2>3, <2>4
<1> QED BY <1>1, <1>3, <1>4

\* ReadChar16KeyboardInput implements the line editor: its steps are edits of
\* the displayed line, and the others leave that line as it is (input.c:5-71).
THEOREM KeyboardEditsALine == Spec => EditsALine
<1> DEFINE State == CASE kpc = "reading"  -> "editing"
                      [] kpc = "returned" -> "entered"
                      [] kpc = "idle"     -> "idle"
                      [] OTHER            -> "failed"
<1>1. Init => Editor!Init
      BY DEF Init, Editor!Init, Line
<1>2. IInv /\ [Next]_kvars => [Editor!Next]_(Editor!vars)
  <2> SUFFICES ASSUME IInv, [Next]_kvars
               PROVE  Editor!Next \/ (Line' = Line /\ State' = State)
      BY DEF Editor!vars
  <2>0. TypeOK
        BY DEF IInv
  <2>1. CASE BeginRead
    <3>1. Line' = << >>
          BY <2>1 DEF BeginRead, Line
    <3>2. State # "editing" /\ State' = "editing"
          BY <2>1 DEF BeginRead
    <3> QED BY <3>1, <3>2 DEF Editor!Next, Editor!Open
  <2>2. CASE ResetFails
    <3>1. Line' = << >>
          BY <2>2 DEF ResetFails, Line
    <3>2. State # "editing" /\ State' = "failed"
          BY <2>2 DEF ResetFails
    <3> QED BY <3>1, <3>2 DEF Editor!Next, Editor!Refuse
  <2>3. CASE PressBackspace
    <3>1. State = "editing" /\ State' = "editing"
          BY <2>3 DEF PressBackspace
    <3> QED BY <2>0, <2>3, <3>1, BackspaceErases DEF Editor!Next, Editor!Erase
  <2>4. ASSUME NEW c \in Char, PressChar(c) PROVE Editor!Next
    <3>1. State = "editing" /\ State' = "editing" /\ InputLength < MaxLength
          BY <2>4 DEF PressChar
    <3>2. Line' = Append(Line, c) /\ Len(Line) < MaxLength
          BY <2>0, <2>4, <3>1, TypeAppends, LineFacts
    <3> QED BY <3>1, <3>2 DEF Editor!Next, Editor!Type
  <2>5. CASE PressEnter
    <3>1. State = "editing" /\ State' = "entered"
          BY <2>5 DEF PressEnter
    <3>2. InputBuffer' = InputBuffer
          BY <2>5, LineAssumption DEF PressEnter, IInv, ReturnsTheLine, TypeOK, Index
    <3>3. Line' = Line
          BY <2>5, <3>2 DEF PressEnter, Line
    <3> QED BY <3>1, <3>3 DEF Editor!Next, Editor!Enter
  <2>6. CASE ReadFails \/ KeyboardFault
    <3>1. State = "editing" /\ State' = "failed"
          BY <2>6 DEF ReadFails, KeyboardFault
    <3>2. Line' = Line
          BY <2>6 DEF ReadFails, KeyboardFault, Line
    <3> QED BY <3>1, <3>2 DEF Editor!Next, Editor!Abandon
  <2>7. CASE UNCHANGED kvars
        BY <2>7 DEF kvars, Line
  <2> QED BY <2>1, <2>2, <2>3, <2>4, <2>5, <2>6, <2>7 DEF Next, ReadKey, IgnoreKey, Panicked
<1> QED BY <1>1, <1>2, AlwaysIInv, PTL DEF Spec, EditsALine, Editor!Spec
===============================================================================
