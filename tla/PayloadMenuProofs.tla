-------------------------- MODULE PayloadMenuProofs --------------------------
(***************************************************************************)
(* Proofs about PayloadMenu, for every alphabet, directory, limit and way  *)
(* to answer the prompt.  What the prompt guarantees is taken from         *)
(* KeyboardProofs.                                                         *)
(***************************************************************************)
EXTENDS PayloadMenu, InductionLemmas, FiniteSetTheorems, SequenceTheorems

KP == INSTANCE KeyboardProofs WITH MaxLength <- MaxName
------------------------------------------------------------------------------
(* The strings. *)

\* The first n characters of a string.
LEMMA TakeFacts ==
  ASSUME NEW s \in Seq(Char), NEW n \in Nat
  PROVE  /\ Take(s, n) \in Seq(Char)
         /\ Len(Take(s, n)) = IF n < Len(s) THEN n ELSE Len(s)
         /\ \A k \in 1 .. Len(Take(s, n)) : Take(s, n)[k] = s[k]
         /\ Len(s) <= n => Take(s, n) = s
<1> DEFINE m == IF n < Len(s) THEN n ELSE Len(s)
<1>1. m \in Nat /\ m <= Len(s) /\ \A k \in 1 .. m : s[k] \in Char
      BY LenProperties
<1>2. /\ SubSeq(s, 1, m) \in Seq(Char)
      /\ Len(SubSeq(s, 1, m)) = m
      /\ \A k \in 1 .. m : SubSeq(s, 1, m)[k] = s[k]
      BY <1>1
<1>3. ASSUME Len(s) <= n PROVE SubSeq(s, 1, m) = s
  <2>1. m = Len(s)
        BY <1>3, LenProperties
  <2> QED BY <2>1, SubSeqFull
<1> QED BY <1>2, <1>3 DEF Take

\* A string in upper case is as long as it was.
LEMMA StrUprFacts ==
  ASSUME NEW s \in Seq(Char)
  PROVE  StrUpr(s) \in Seq(Char) /\ Len(StrUpr(s)) = Len(s)
<1>1. DOMAIN s = 1 .. Len(s) /\ Len(s) \in Nat /\ \A k \in 1 .. Len(s) : Upper[s[k]] \in Char
      BY MenuAssumption, LenProperties
<1> QED BY <1>1 DEF StrUpr

\* What a string starts with is what can be taken from it.
LEMMA PrefixFacts ==
  ASSUME NEW a \in Seq(Char), NEW t \in Seq(Char)
  PROVE  /\ \A n \in Nat : a = Take(t, n) => IsPrefix(a, t)
         /\ IsPrefix(a, t) => a = Take(t, Len(a)) /\ Len(a) <= Len(t)
<1>0. Len(a) \in Nat /\ Len(t) \in Nat
      BY LenProperties
<1>1. IsPrefix(a, t) <=> Len(a) <= Len(t) /\ a = SubSeq(t, 1, Len(a))
      BY SubSeqFull DEF IsPrefix
<1>2. ASSUME NEW n \in Nat, a = Take(t, n) PROVE IsPrefix(a, t)
  <2>1. Len(a) = IF n < Len(t) THEN n ELSE Len(t)
        BY <1>2, TakeFacts
  <2>2. Len(a) <= Len(t)
        BY <1>0, <2>1
  <2> QED BY <1>1, <1>2, <2>1, <2>2 DEF Take
<1>3. ASSUME IsPrefix(a, t) PROVE a = Take(t, Len(a)) /\ Len(a) <= Len(t)
      BY <1>0, <1>1, <1>3 DEF Take
<1> QED BY <1>2, <1>3
------------------------------------------------------------------------------
(* The answer. *)

\* The buffer of the prompt is terminated after the line, or one character
\* later if the last of them was erased.
LEMMA AnswerFacts ==
  ASSUME KP!IInv, kpc = "returned"
  PROVE  /\ Answer \in Seq(Char)
         /\ InputLength \in Nat /\ Len(Answer) \in InputLength .. InputLength + 1
         /\ Len(Answer) <= MaxName
         /\ resultLength = 2 * InputLength
         /\ Kbd!Line \in Seq(Char) /\ Len(Kbd!Line) = InputLength
         /\ \A k \in 1 .. InputLength : Kbd!Line[k] = Answer[k]
<1> DEFINE b == InputBuffer
           Ends == {n \in 0 .. MaxName : b[n] = Nul}
<1>1. /\ b \in [0 .. MaxName -> Char \cup {Nul}]
      /\ InputLength \in 0 .. MaxName
      /\ b[MaxName] = Nul
      /\ resultLength = 2 * InputLength
      /\ \A k \in 0 .. InputLength - 1 : b[k] \in Char
      /\ \A k \in InputLength + 1 .. MaxName : b[k] = Nul
      BY DEF KP!IInv, KP!TypeOK, KP!TailIsClear, KP!LineIsTyped, KP!ReturnsTheLine, KP!Index
<1>2. PICK e \in Ends : \A n \in Ends : e <= n
  <2>1. Ends \subseteq Nat
        BY MenuAssumption
  <2>2. MaxName \in Ends
        BY <1>1, MenuAssumption
  <2> QED BY <2>1, <2>2, LeastNatural
<1>3. e \in 0 .. MaxName /\ b[e] = Nul /\ \A k \in 0 .. e - 1 : b[k] # Nul
      BY <1>2, MenuAssumption
<1> DEFINE z == Kbd!StrLen(b)
<1>4. z \in 0 .. MaxName /\ b[z] = Nul /\ \A k \in 0 .. z - 1 : b[k] # Nul
      BY <1>3 DEF Kbd!StrLen, Kbd!Index
<1> HIDE DEF z
<1>5. InputLength <= z
      BY <1>1, <1>4, MenuAssumption
<1>6. z <= InputLength + 1
  <2>1. SUFFICES ASSUME z > InputLength + 1 PROVE FALSE
        BY <1>1, <1>4, MenuAssumption
  <2>2. InputLength + 1 \in 0 .. z - 1 /\ InputLength + 1 \in InputLength + 1 .. MaxName
        BY <1>1, <1>4, <2>1, MenuAssumption
  <2> QED BY <1>1, <1>4, <2>2
<1>7. \A k \in 1 .. z : b[k - 1] \in Char
  <2>1. SUFFICES ASSUME NEW k \in 1 .. z PROVE b[k - 1] \in Char
        OBVIOUS
  <2>a. z \in 0 .. MaxName /\ MaxName \in 1 .. 127
        BY <1>4, MenuAssumption
  <2>0. k \in Int /\ z \in Int /\ MaxName \in Int /\ 1 <= k /\ k <= z /\ z <= MaxName
        BY ONLY <2>1, <2>a
  <2>2. k - 1 \in 0 .. z - 1 /\ k - 1 \in 0 .. MaxName
        BY ONLY <2>0
  <2> QED BY <1>1, <1>4, <2>2
<1>8. Answer = [k \in 1 .. z |-> b[k - 1]]
      BY DEF Answer, z
<1>9. Answer \in Seq(Char) /\ Len(Answer) = z /\ \A k \in 1 .. z : Answer[k] = b[k - 1]
      BY <1>4, <1>7, <1>8
<1>10. Kbd!Line = [k \in 1 .. InputLength |-> b[k - 1]]
      BY DEF Kbd!Line
<1>11. /\ Kbd!Line \in Seq(Char) /\ Len(Kbd!Line) = InputLength
       /\ \A k \in 1 .. InputLength : Kbd!Line[k] = b[k - 1]
      BY <1>1, <1>4, <1>5, <1>7, <1>10
<1> QED BY <1>1, <1>4, <1>5, <1>6, <1>9, <1>11

\* What the two comparisons of a name with the answer mean (loader.c:282-285):
\* either match is a prefix, and one that is only partial takes a line of one
\* character with an erased one behind it.
LEMMA MatchFacts ==
  ASSUME KP!IInv, kpc = "returned", resultLength > 0, NEW s \in Seq(Char)
  PROVE  /\ IsFullMatch(s) \/ IsPartialMatch(s) => IsPrefix(Answer, StrUpr(s))
         /\ IsPartialMatch(s) /\ ~IsFullMatch(s) =>
              InputLength = 1 /\ Len(Answer) = 2 /\ MaxName > 2
         /\ InputLength = 1 /\ Len(Answer) = 2 /\ IsPrefix(Answer, StrUpr(s)) => IsPartialMatch(s)
         /\ IsFullMatch(s) /\ Len(Answer) < MaxName => Answer = StrUpr(s)
         /\ Answer = StrUpr(s) => IsFullMatch(s)
<1> DEFINE a == Answer
           t == StrUpr(s)
           n == InputLength
<1>1. /\ a \in Seq(Char) /\ n \in Nat /\ Len(a) \in n .. n + 1 /\ Len(a) <= MaxName
      /\ resultLength = 2 * n /\ n > 0
      BY AnswerFacts
<1>2. t \in Seq(Char)
      BY StrUprFacts
<1>3. MaxName \in Nat /\ 2 * n \in Nat /\ Len(a) <= 2 * n /\ Len(t) \in Nat /\ Len(a) \in Nat
      BY <1>1, <1>2, MenuAssumption, LenProperties
<1>4. Take(a, MaxName) = a /\ Take(a, 2 * n) = a
      BY <1>1, <1>3, TakeFacts
<1>5. IsFullMatch(s) <=> a = Take(t, MaxName)
      BY <1>4 DEF IsFullMatch, StrnEq
<1>6. IsPartialMatch(s) <=> a = Take(t, 2 * n)
      BY <1>1, <1>4 DEF IsPartialMatch, StrnEq
<1>7. /\ Len(Take(t, MaxName)) = IF MaxName < Len(t) THEN MaxName ELSE Len(t)
      /\ Len(Take(t, 2 * n)) = IF 2 * n < Len(t) THEN 2 * n ELSE Len(t)
      /\ Len(t) <= MaxName => Take(t, MaxName) = t
      /\ Len(t) <= 2 * n => Take(t, 2 * n) = t
      BY <1>2, <1>3, TakeFacts
<1>8. /\ \A k \in Nat : a = Take(t, k) => IsPrefix(a, t)
      /\ IsPrefix(a, t) => a = Take(t, Len(a)) /\ Len(a) <= Len(t)
      BY <1>1, <1>2, PrefixFacts
<1> HIDE DEF a, t, n
<1>9. IsFullMatch(s) \/ IsPartialMatch(s) => IsPrefix(a, t)
      BY <1>3, <1>5, <1>6, <1>8
<1>10. ASSUME a = t PROVE a = Take(t, MaxName)
      BY <1>1, <1>7, <1>10
<1>11. ASSUME a = Take(t, 2 * n), a # Take(t, MaxName)
       PROVE  n = 1 /\ Len(a) = 2 /\ MaxName > 2
  <2>1. ~(Len(t) <= 2 * n)
        BY <1>7, <1>10, <1>11
  <2>2. Len(a) = 2 * n
        BY <1>3, <1>7, <1>11, <2>1
  <2>3. n = 1 /\ Len(a) = 2
        BY <1>1, <2>2
  <2>4. MaxName # 2
        BY <1>11, <2>3
  <2> QED BY <1>1, <1>3, <2>3, <2>4
<1>12. ASSUME n = 1, Len(a) = 2, IsPrefix(a, t) PROVE a = Take(t, 2 * n)
      BY <1>8, <1>12
<1>13. ASSUME a = Take(t, MaxName), Len(a) < MaxName PROVE a = t
      BY <1>3, <1>7, <1>13
<1> QED BY <1>5, <1>6, <1>9, <1>10, <1>11, <1>12, <1>13 DEF a, t, n
------------------------------------------------------------------------------
(* The invariant. *)

MenuType ==
  /\ pc \in {"open", "list", "single", "prompt", "typing", "compare", "verdict",
             "position", "selected", "reset", "panic"}
  /\ files \in Listings
  /\ cursor \in 0 .. Len(files)
  /\ roomy \in BOOLEAN
  /\ handles \in Seq(DOMAIN files) /\ Len(handles) <= MaxPayloads
  /\ i \in 1 .. Len(handles) + 1
  /\ partial \in 0 .. Len(files)
  /\ partials \in 0 .. 2
  /\ valid \in BOOLEAN /\ missed \in BOOLEAN
  /\ selected \in 0 .. Len(files)
  /\ name \in Seq(Char)
  /\ fromMulti \in BOOLEAN

\* The payloads among the entries that were read.
Read == {k \in Payloads : k <= cursor}

\* The table holds the payloads among the entries that were read, in order, and
\* the listing was only left at its end or with the table full.
ScanInv ==
  /\ ToSet(handles) = Read
  /\ Len(handles) = Cardinality(Read)
  /\ \A j, k \in DOMAIN handles : j < k => handles[j] < handles[k]
  /\ pc \notin {"open", "list", "panic"} => Len(handles) = MaxPayloads \/ cursor = Len(files)
  /\ pc = "single" => Len(handles) = 1

\* The prompt keeps its invariant, and what is compared is a line it returned.
Answered ==
  pc \in {"compare", "verdict"} \/ (pc \in {"position", "selected"} /\ fromMulti)
PromptInv == KP!IInv /\ (Answered => kpc = "returned" /\ resultLength > 0)

Full(k) == IsFullMatch(files[k])
Part(k) == IsPartialMatch(files[k])

\* The comparison passed over no full match, unless a name could not be had.
SeenInv ==
  pc \in {"compare", "verdict"} /\ ~missed => \A j \in 1 .. i - 1 : ~Full(handles[j])

\* PartialFileMatch is a payload that matches in part only.
PartialInv ==
  /\ pc = "typing" => partials = 0
  /\ pc = "compare" => partials < 2
  /\ pc \in {"compare", "verdict"} /\ partials > 0 =>
       partial \in ToSet(handles) /\ Part(partial) /\ ~Full(partial)

\* IsValidSelection says that there was a full match; without one all handles
\* were compared, or two of them match in part.
VerdictInv ==
  /\ pc \in {"list", "single", "prompt", "typing", "compare"} => ~valid
  /\ pc = "verdict" /\ valid => selected \in ToSet(handles) /\ Full(selected)
  /\ pc = "verdict" /\ ~valid /\ partials < 2 => i > Len(handles)

\* The payload that was chosen matches.
ChosenInv ==
  pc \in {"position", "selected"} /\ fromMulti =>
    selected \in ToSet(handles) /\ (Full(selected) \/ Part(selected))

\* The name is that of the single partial match, and is taken back with it.
NameInv ==
  /\ pc \in {"open", "list", "prompt", "typing"} => name = << >>
  /\ pc \in {"compare", "verdict"} => name = IF partials = 1 THEN StrUpr(files[partial]) ELSE << >>
  /\ PromptNamesTheSelection
  /\ pc = "position" /\ fromMulti => name \in {<< >>, StrUpr(files[selected])}

IInv ==
  /\ MenuType /\ ScanInv /\ PromptInv /\ SeenInv
  /\ PartialInv /\ VerdictInv /\ ChosenInv /\ NameInv
------------------------------------------------------------------------------
(* The steps. *)

\* The positions in the directory and in the table.
LEMMA TableFacts ==
  ASSUME MenuType
  PROVE  /\ Len(files) \in Nat /\ DOMAIN files = 1 .. Len(files)
         /\ \A k \in 1 .. Len(files) : files[k] \in Seq(Char)
         /\ Len(handles) \in Nat /\ DOMAIN handles = 1 .. Len(handles)
         /\ \A j \in 1 .. Len(handles) : handles[j] \in 1 .. Len(files) /\ handles[j] \in ToSet(handles)
         /\ \A k \in ToSet(handles) : k \in 1 .. Len(files) /\ \E j \in 1 .. Len(handles) : k = handles[j]
<1>1. files \in Seq(Seq(Char)) /\ handles \in Seq(DOMAIN files)
      BY MenuAssumption DEF MenuType
<1>2. /\ Len(files) \in Nat /\ DOMAIN files = 1 .. Len(files)
      /\ \A k \in 1 .. Len(files) : files[k] \in Seq(Char)
      BY <1>1, LenProperties
<1>3. /\ Len(handles) \in Nat /\ DOMAIN handles = 1 .. Len(handles)
      /\ \A j \in 1 .. Len(handles) : handles[j] \in DOMAIN files
      BY <1>1, LenProperties
<1> QED BY <1>2, <1>3 DEF ToSet

\* The first state.
LEMMA InitIInv == Init => IInv
<1> SUFFICES ASSUME Init PROVE IInv
    OBVIOUS
<1>1. files \in Listings /\ files \in Seq(Seq(Char)) /\ Len(files) \in Nat
      BY MenuAssumption, LenProperties DEF Init
<1>2. << >> \in Seq(DOMAIN files) /\ Len(<< >>) = 0 /\ << >> \in Seq(Char)
      BY EmptySeq
<1>3. MenuType
  <2>1. roomy \in BOOLEAN /\ valid \in BOOLEAN /\ missed \in BOOLEAN /\ fromMulti \in BOOLEAN
        BY Zenon DEF Init
  <2> QED BY <1>1, <1>2, <2>1, MenuAssumption DEF Init, MenuType
<1>4. Read = {}
      BY <1>1, LenProperties DEF Read, Payloads, Init
<1>5. ToSet(handles) = {} /\ Len(handles) = 0 /\ DOMAIN handles = {}
      BY DEF Init, ToSet
<1>6. ScanInv
      BY <1>4, <1>5, FS_EmptySet DEF Init, ScanInv
<1>7. KP!IInv
  <2>1. KP!Init
        BY DEF Init, KP!Init, Kbd!Init, KP!Index, Kbd!Index
  <2> QED BY <2>1, KP!InitIInv, MenuAssumption
<1> QED BY <1>3, <1>6, <1>7
        DEF Init, IInv, PromptInv, Answered, SeenInv, PartialInv, VerdictInv, ChosenInv,
            NameInv, PromptNamesTheSelection

\* The steps of the prompt are those of KeyboardProofs.
LEMMA PromptSteps ==
  Kbd!BeginRead \/ Kbd!ResetFails \/ Kbd!ReadKey \/ UNCHANGED prompt => [KP!Next]_(KP!kvars)
<1>1. Kbd!BeginRead => KP!Next
      BY DEF Kbd!BeginRead, KP!BeginRead, KP!Next, KP!Index, Kbd!Index
<1>2. Kbd!ResetFails => KP!Next
      BY DEF Kbd!ResetFails, KP!ResetFails, KP!Next
<1>3. Kbd!ReadKey => KP!ReadKey
      BY DEF Kbd!ReadKey, KP!ReadKey, Kbd!IgnoreKey, KP!IgnoreKey, Kbd!PressBackspace,
             KP!PressBackspace, Kbd!PressChar, KP!PressChar, Kbd!PressEnter, KP!PressEnter,
             Kbd!ReadFails, KP!ReadFails, Kbd!KeyboardFault, KP!KeyboardFault,
             Kbd!kvars, KP!kvars
<1>4. UNCHANGED prompt => UNCHANGED KP!kvars
      BY DEF prompt, KP!kvars
<1> QED BY <1>1, <1>2, <1>3, <1>4 DEF KP!Next

\* The answer in upper case is a line of the prompt too (loader.c:264).
LEMMA UpperKeepsThePrompt ==
  ASSUME KP!IInv, AnswerName PROVE KP!IInv'
<1> DEFINE b == InputBuffer
<1>1. /\ b \in [0 .. MaxName -> Char \cup {Nul}]
      /\ InputLength \in 0 .. MaxName /\ resultLength \in 0 .. 255
      /\ kpc = "returned"
      /\ b[MaxName] = Nul
      /\ resultLength = 2 * InputLength
      /\ \A k \in 0 .. InputLength - 1 : b[k] \in Char
      /\ \A k \in InputLength + 1 .. MaxName : b[k] = Nul
      BY DEF AnswerName, KP!IInv, KP!TypeOK, KP!TailIsClear, KP!LineIsTyped, KP!ReturnsTheLine, KP!Index
<1>2. InputBuffer' = [k \in 0 .. MaxName |-> IF b[k] = Nul THEN Nul ELSE Upper[b[k]]]
      BY <1>1 DEF AnswerName
<1>3. /\ InputBuffer' \in [0 .. MaxName -> Char \cup {Nul}]
      /\ \A k \in 0 .. MaxName : b[k] = Nul => InputBuffer'[k] = Nul
      /\ \A k \in 0 .. MaxName : b[k] \in Char => InputBuffer'[k] \in Char
      BY <1>1, <1>2, MenuAssumption
<1>4. /\ MaxName \in 0 .. MaxName
      /\ 0 .. InputLength - 1 \subseteq 0 .. MaxName /\ InputLength + 1 .. MaxName \subseteq 0 .. MaxName
      BY <1>1, MenuAssumption
<1>5. UNCHANGED <<kpc, InputLength, resultLength>>
      BY DEF AnswerName
<1> QED BY <1>1, <1>3, <1>4, <1>5
        DEF KP!IInv, KP!TypeOK, KP!TailIsClear, KP!LineIsTyped, KP!ReturnsTheLine, KP!Index

LEMMA PromptStep == IInv /\ [Next]_vars => PromptInv'
<1> SUFFICES ASSUME IInv, [Next]_vars PROVE PromptInv'
    OBVIOUS
<1>0. KP!IInv /\ PromptInv
      BY DEF IInv, PromptInv
<1>1. KP!IInv'
  <2>1. CASE AnswerName
        BY <1>0, <2>1, UpperKeepsThePrompt
  <2>2. CASE ~AnswerName
    <3>1. Kbd!BeginRead \/ Kbd!ResetFails \/ Kbd!ReadKey \/ UNCHANGED prompt
          BY <2>2 DEF Next, vars, DiscoverPayloads, OpenVolume, DiscoverFails, ReadTooSmall, SkipFile,
             OpenPayload, EndOfListing, SelectPayload, SelectSingle, SingleInfoMissing, Ask, Type, AskFails,
             AnswerNothing, AnswerQuit, InfoMissing, CompareFull, CompareFirst, CompareSecond,
             CompareNone, CompareDone, Verdict, GetPosition, GoBack, Left
    <3> QED BY <1>0, <3>1, PromptSteps, KP!NextIInv, MenuAssumption
  <2> QED BY <2>1, <2>2
<1>2. Answered' => kpc' = "returned" /\ resultLength' > 0
  <2> USE <1>0 DEF PromptInv, Answered, prompt
  <2>1. CASE DiscoverPayloads
        BY <2>1 DEF DiscoverPayloads, OpenVolume, DiscoverFails, ReadTooSmall, SkipFile,
             OpenPayload, EndOfListing
  <2>2. CASE SelectSingle \/ SingleInfoMissing \/ Ask \/ Type \/ AskFails \/ AnswerNothing \/ AnswerQuit
        BY <2>2 DEF SelectSingle, SingleInfoMissing, Ask, Type, AskFails, AnswerNothing, AnswerQuit
  <2>3. CASE AnswerName
        BY <2>3 DEF AnswerName
  <2>4. CASE InfoMissing \/ CompareFull \/ CompareFirst \/ CompareSecond \/ CompareNone \/ CompareDone
        BY <2>4 DEF InfoMissing, CompareFull, CompareFirst, CompareSecond, CompareNone, CompareDone
  <2>5. CASE Verdict
        BY <2>5 DEF Verdict
  <2>6. CASE GetPosition
        BY <2>6 DEF GetPosition, choice
  <2>7. CASE GoBack \/ Left \/ UNCHANGED vars
        BY <2>7 DEF GoBack, Left, vars, choice
  <2> QED BY <2>1, <2>2, <2>3, <2>4, <2>5, <2>6, <2>7 DEF Next, SelectPayload
<1> QED BY <1>1, <1>2 DEF PromptInv

\* The flags are Booleans.
LEMMA FlagStep ==
  ASSUME IInv, [Next]_vars
  PROVE  roomy' \in BOOLEAN /\ valid' \in BOOLEAN /\ missed' \in BOOLEAN /\ fromMulti' \in BOOLEAN
<1>0. roomy \in BOOLEAN /\ valid \in BOOLEAN /\ missed \in BOOLEAN /\ fromMulti \in BOOLEAN
      BY DEF IInv, MenuType
<1> USE <1>0 DEF scan, matches, choice
<1>1. CASE DiscoverPayloads
      BY <1>1, Zenon DEF DiscoverPayloads, OpenVolume, DiscoverFails, ReadTooSmall, SkipFile,
         OpenPayload, EndOfListing
<1>2. CASE SelectSingle \/ SingleInfoMissing \/ Ask \/ Type \/ AskFails \/ AnswerNothing \/ AnswerQuit \/ AnswerName
      BY <1>2, Zenon DEF SelectSingle, SingleInfoMissing, Ask, Type, AskFails, AnswerNothing, AnswerQuit, AnswerName
<1>3. CASE InfoMissing \/ CompareFull \/ CompareFirst \/ CompareSecond \/ CompareNone \/ CompareDone
      BY <1>3, Zenon DEF InfoMissing, CompareFull, CompareFirst, CompareSecond, CompareNone, CompareDone
<1>4. CASE Verdict
  <2>1. /\ roomy' = roomy /\ missed' = missed
        /\ valid' = (valid \/ partials = 1)
        /\ fromMulti' = IF valid' THEN TRUE ELSE fromMulti
        BY <1>4 DEF Verdict
  <2> QED BY <2>1, Zenon
<1>5. CASE GetPosition \/ GoBack \/ Left \/ UNCHANGED vars
      BY <1>5, Zenon DEF GetPosition, GoBack, Left, vars
<1> QED BY <1>1, <1>2, <1>3, <1>4, <1>5 DEF Next, SelectPayload

LEMMA TypeStep == IInv /\ [Next]_vars => MenuType'
<1> SUFFICES ASSUME IInv, [Next]_vars PROVE MenuType'
    OBVIOUS
<1>0. /\ roomy' \in BOOLEAN /\ valid' \in BOOLEAN /\ missed' \in BOOLEAN /\ fromMulti' \in BOOLEAN
      /\ MenuType
      BY FlagStep DEF IInv
<1>a. /\ Len(files) \in Nat /\ DOMAIN files = 1 .. Len(files)
      /\ \A k \in 1 .. Len(files) : files[k] \in Seq(Char)
      /\ Len(handles) \in Nat /\ DOMAIN handles = 1 .. Len(handles)
      /\ \A j \in 1 .. Len(handles) : handles[j] \in 1 .. Len(files)
      BY <1>0, TableFacts
<1>b. << >> \in Seq(DOMAIN files) /\ Len(<< >>) = 0 /\ << >> \in Seq(Char)
      BY EmptySeq
<1>c. Len(handles) <= MaxPayloads /\ MaxPayloads \in Nat
      BY <1>0, MenuAssumption DEF MenuType
<1> USE <1>0, <1>a, <1>b, <1>c DEF MenuType, scan, matches, choice
<1>1. CASE OpenVolume
      BY <1>1 DEF OpenVolume
<1>2. CASE OpenPayload
  <2>1. cursor + 1 \in DOMAIN files
        BY <1>2 DEF OpenPayload
  <2>2. /\ Append(handles, cursor + 1) \in Seq(DOMAIN files)
        /\ Len(Append(handles, cursor + 1)) = Len(handles) + 1
        BY <2>1
  <2> QED BY <1>2, <2>1, <2>2 DEF OpenPayload
<1>3. CASE DiscoverFails \/ ReadTooSmall
      BY <1>3 DEF DiscoverFails, ReadTooSmall
<1>15. CASE SkipFile
      BY <1>15 DEF SkipFile
<1>16. CASE EndOfListing
  <2>1. pc' \in {"panic", "single", "prompt"}
        BY ONLY <1>16 DEF EndOfListing
  <2> QED BY <1>16, <2>1 DEF EndOfListing
<1>4. CASE SelectSingle \/ SingleInfoMissing
  <2>1. 1 \in 1 .. Len(handles)
    <3>1. pc = "single" /\ ScanInv
          BY <1>4 DEF SelectSingle, SingleInfoMissing, IInv
    <3>2. Len(handles) = 1
          BY ONLY <3>1 DEF ScanInv
    <3> QED BY <3>2
  <2>2. CASE SelectSingle
        BY <2>1, <2>2 DEF SelectSingle
  <2>3. CASE SingleInfoMissing
        BY <2>1, <2>3 DEF SingleInfoMissing
  <2> QED BY <1>4, <2>2, <2>3
<1>5. CASE Ask \/ Type \/ AskFails \/ AnswerNothing \/ AnswerQuit \/ AnswerName
      BY <1>5 DEF Ask, Type, AskFails, AnswerNothing, AnswerQuit, AnswerName
<1>6. CASE InfoMissing \/ CompareNone
  <2>1. i' \in 1 .. Len(handles) + 1 /\ pc' = pc
        BY <1>6 DEF InfoMissing, CompareNone
  <2> QED BY <1>6, <2>1 DEF InfoMissing, CompareNone
<1>11. CASE CompareDone
      BY <1>11 DEF CompareDone
<1>9. CASE CompareFull
  <2>1. i \in 1 .. Len(handles) /\ handles[i] \in 1 .. Len(files)
        BY <1>9 DEF CompareFull
  <2> QED BY <1>9, <2>1 DEF CompareFull
<1>12. CASE CompareSecond
  <2>1. i \in 1 .. Len(handles) /\ handles[i] \in 1 .. Len(files)
        BY <1>12 DEF CompareSecond
  <2> QED BY <1>12, <2>1 DEF CompareSecond
<1>7. CASE CompareFirst
  <2>1. StrUpr(files[handles[i]]) \in Seq(Char)
        BY <1>7, StrUprFacts DEF CompareFirst
  <2> QED BY <1>7, <2>1 DEF CompareFirst
<1>8. CASE GetPosition
      BY <1>8 DEF GetPosition
<1>13. CASE GoBack
      BY <1>13 DEF GoBack
<1>14. CASE UNCHANGED vars
      BY <1>14 DEF vars
<1>10. CASE Verdict
  <2>1. selected' \in 0 .. Len(files) /\ pc' \in {"position", "prompt"}
        BY <1>10 DEF Verdict
  <2> QED BY <1>10, <2>1 DEF Verdict
<1> QED BY <1>1, <1>2, <1>3, <1>4, <1>5, <1>6, <1>7, <1>8, <1>9, <1>10,
           <1>11, <1>12, <1>13, <1>14, <1>15, <1>16
        DEF Left, Next, DiscoverPayloads, SelectPayload

\* Entries and handles are only read or opened by the scan.
LEMMA ScanStep == IInv /\ [Next]_vars => ScanInv'
<1> SUFFICES ASSUME IInv, [Next]_vars PROVE ScanInv'
    OBVIOUS
<1>0. MenuType /\ ScanInv
      BY DEF IInv
<1>a. /\ Len(files) \in Nat /\ DOMAIN files = 1 .. Len(files) /\ cursor \in 0 .. Len(files)
      /\ Len(handles) \in Nat /\ DOMAIN handles = 1 .. Len(handles)
      /\ \A j \in 1 .. Len(handles) : handles[j] \in 1 .. Len(files)
      /\ handles \in Seq(1 .. Len(files))
      BY <1>0, TableFacts DEF MenuType
<1>b. cursor \in Nat /\ Payloads \subseteq 1 .. Len(files) /\ \A k \in Payloads : k \in Nat /\ k > 0
      BY <1>a DEF Payloads
<1>c. /\ cursor + 1 \notin Payloads => {k \in Payloads : k <= cursor + 1} = {k \in Payloads : k <= cursor}
      /\ cursor + 1 \in Payloads =>
           {k \in Payloads : k <= cursor + 1} = {k \in Payloads : k <= cursor} \cup {cursor + 1}
      /\ cursor + 1 \notin {k \in Payloads : k <= cursor}
  <2>1. cursor \in Nat
        BY <1>b
  <2>2. \A k \in Payloads : k \in Nat /\ k > 0
        BY <1>b
  <2>3. \A k \in Payloads : k <= cursor + 1 <=> k <= cursor \/ k = cursor + 1
        BY ONLY <2>1, <2>2
  <2>4. ~(cursor + 1 <= cursor) /\ cursor + 1 <= cursor + 1
        BY ONLY <2>1
  <2> QED BY ONLY <2>3, <2>4, Zenon
<1>1. CASE OpenVolume
  <2>1. files' = files /\ cursor' = 0 /\ handles' = << >> /\ pc' = "list"
        BY <1>1 DEF OpenVolume
  <2>2. Payloads' = Payloads
        BY <2>1 DEF Payloads
  <2>3. Read' = {}
    <3>1. \A k \in Payloads : ~(k <= 0)
          BY <1>b
    <3> QED BY ONLY <2>1, <2>2, <3>1 DEF Read
  <2>4. ToSet(handles') = {} /\ Len(handles') = 0 /\ DOMAIN handles' = {}
        BY <2>1 DEF ToSet
  <2> QED BY <2>1, <2>3, <2>4, FS_EmptySet DEF ScanInv
<1>2. CASE SkipFile
  <2>1. /\ files' = files /\ cursor' = cursor + 1 /\ handles' = handles /\ pc = "list" /\ pc' = "list"
        /\ ~IsPayload(files[cursor + 1])
        BY <1>2 DEF SkipFile
  <2>2. Payloads' = Payloads
        BY <2>1 DEF Payloads
  <2>3. cursor + 1 \notin Payloads
        BY <2>1 DEF Payloads
  <2>4. Read' = Read
        BY ONLY <1>c, <2>1, <2>2, <2>3 DEF Read
  <2> QED BY <1>0, <2>1, <2>4 DEF ScanInv
<1>3. CASE OpenPayload
  <2>1. /\ files' = files /\ cursor' = cursor + 1 /\ pc = "list" /\ pc' = "list"
        /\ handles' = Append(handles, cursor + 1)
        /\ cursor < Len(files) /\ IsPayload(files[cursor + 1])
        BY <1>3 DEF OpenPayload
  <2>2. Payloads' = Payloads
        BY <2>1 DEF Payloads
  <2>3. cursor + 1 \in Payloads /\ cursor + 1 \in 1 .. Len(files)
        BY <1>a, <2>1 DEF Payloads
  <2>4. Read' = Read \cup {cursor + 1} /\ cursor + 1 \notin Read
        BY ONLY <1>c, <2>1, <2>2, <2>3 DEF Read
  <2>5. IsFiniteSet(Read)
    <3>1. Read \in SUBSET (1 .. Len(files))
          BY <1>b DEF Read
    <3>2. 1 \in Int /\ Len(files) \in Int
          BY <1>a
    <3>3. IsFiniteSet(1 .. Len(files))
          BY <3>2, FS_Interval
    <3> QED BY <3>1, <3>3, FS_Subset
  <2>6. /\ Len(handles') = Len(handles) + 1
        /\ DOMAIN handles' = 1 .. Len(handles) + 1
        /\ \A j \in 1 .. Len(handles) : handles'[j] = handles[j]
        /\ handles'[Len(handles) + 1] = cursor + 1
        BY <1>a, <2>1, <2>3
  <2>7. ToSet(handles') = ToSet(handles) \cup {cursor + 1}
    <3>1. \A j \in 1 .. Len(handles) + 1 : j \in 1 .. Len(handles) \/ j = Len(handles) + 1
          BY <1>a
    <3>2. 1 .. Len(handles) \subseteq 1 .. Len(handles) + 1 /\ Len(handles) + 1 \in 1 .. Len(handles) + 1
          BY <1>a
    <3>3. DOMAIN handles = 1 .. Len(handles)
          BY <1>a
    <3> QED BY ONLY <2>6, <3>1, <3>2, <3>3, Zenon DEF ToSet
  <2>8. Len(handles') = Cardinality(Read')
    <3>1. Cardinality(Read \cup {cursor + 1}) = Cardinality(Read) + 1
          BY ONLY <2>4, <2>5, FS_AddElement
    <3>2. Len(handles) = Cardinality(Read)
          BY <1>0 DEF ScanInv
    <3> QED BY ONLY <2>4, <2>6, <3>1, <3>2
  <2>9. \A j, k \in DOMAIN handles' : j < k => handles'[j] < handles'[k]
    <3>1. SUFFICES ASSUME NEW j \in 1 .. Len(handles) + 1, NEW k \in 1 .. Len(handles) + 1, j < k
                   PROVE  handles'[j] < handles'[k]
          BY <2>6
    <3>2. j \in 1 .. Len(handles) /\ handles'[j] = handles[j] /\ handles[j] \in ToSet(handles)
      <4>1. Len(handles) \in Nat
            BY <1>a
      <4>2. j \in 1 .. Len(handles)
            BY ONLY <3>1, <4>1
      <4>3. j \in DOMAIN handles /\ handles'[j] = handles[j]
            BY ONLY <1>a, <2>6, <4>2
      <4> QED BY ONLY <4>2, <4>3 DEF ToSet
    <3>3. handles[j] <= cursor /\ handles[j] \in Nat
      <4>1. handles[j] \in Read
            BY <1>0, <3>2 DEF ScanInv
      <4> QED BY ONLY <1>b, <4>1 DEF Read
    <3>4. CASE k = Len(handles) + 1
          BY <1>a, <2>6, <3>2, <3>3, <3>4
    <3>5. CASE k \in 1 .. Len(handles)
          BY <1>0, <1>a, <2>6, <3>1, <3>2, <3>5 DEF ScanInv
    <3> QED BY <1>a, <3>4, <3>5
  <2> QED BY <1>0, <2>1, <2>4, <2>7, <2>8, <2>9 DEF ScanInv
<1>4. CASE EndOfListing
  <2>1. /\ files' = files /\ cursor' = cursor /\ handles' = handles
        /\ Len(handles) = MaxPayloads \/ cursor = Len(files)
        /\ pc' = "single" => Len(handles) = 1
        BY <1>4, <1>a DEF EndOfListing, scan
  <2>2. Read' = Read
        BY <2>1 DEF Read, Payloads
  <2> QED BY <1>0, <2>1, <2>2 DEF ScanInv
<1>5. CASE ~(OpenVolume \/ SkipFile \/ OpenPayload \/ EndOfListing)
  <2>1. /\ files' = files /\ cursor' = cursor /\ handles' = handles
        /\ pc' \in {"open", "list", "panic"} \/ pc \notin {"open", "list", "panic"}
        /\ pc' = "single" => pc = "single"
        BY <1>5 DEF Next, vars, DiscoverPayloads, DiscoverFails, ReadTooSmall,
             SelectPayload, SelectSingle, SingleInfoMissing, Ask, Type, AskFails,
             AnswerNothing, AnswerQuit, AnswerName, InfoMissing, CompareFull, CompareFirst, CompareSecond,
             CompareNone, CompareDone, Verdict, GetPosition, GoBack, Left, scan
  <2>2. Read' = Read
        BY <2>1 DEF Read, Payloads
  <2> QED BY <1>0, <2>1, <2>2 DEF ScanInv
<1> QED BY <1>1, <1>2, <1>3, <1>4, <1>5

\* The comparison reads the names, the answer and its length.
LEMMA MatchesStay ==
  ASSUME UNCHANGED <<files, InputBuffer, resultLength>>
  PROVE  Answer' = Answer /\ \A k : (Full(k)' <=> Full(k)) /\ (Part(k)' <=> Part(k))
BY DEF Answer, Full, Part, IsFullMatch, IsPartialMatch, Kbd!StrLen, Kbd!Index

CompareInv == SeenInv /\ PartialInv /\ VerdictInv

\* The loop over the handles keeps count (loader.c:266-316).
LEMMA CompareStep == IInv /\ [Next]_vars => CompareInv'
<1> SUFFICES ASSUME IInv, [Next]_vars PROVE CompareInv'
    OBVIOUS
<1>0. MenuType /\ SeenInv /\ PartialInv /\ VerdictInv
      BY DEF IInv
<1>a. /\ Len(handles) \in Nat /\ i \in 1 .. Len(handles) + 1 /\ i \in Nat /\ partials \in 0 .. 2
      /\ \A j \in 1 .. Len(handles) : handles[j] \in ToSet(handles)
      BY <1>0, TableFacts DEF MenuType
<1>1. CASE DiscoverPayloads
  <2>1. /\ pc' \notin {"typing", "compare", "verdict"}
        /\ pc' \in {"list", "single", "prompt"} => ~valid'
        BY <1>0, <1>1 DEF VerdictInv, DiscoverPayloads, OpenVolume, DiscoverFails, ReadTooSmall, SkipFile,
           OpenPayload, EndOfListing, matches
  <2> QED BY <2>1 DEF CompareInv, SeenInv, PartialInv, VerdictInv
<1>2. CASE SelectSingle \/ SingleInfoMissing \/ Ask \/ Type \/ AskFails \/ AnswerNothing \/ AnswerQuit
  <2>1. /\ pc' \notin {"compare", "verdict"}
        /\ pc' \in {"list", "single", "prompt", "typing"} => ~valid'
        /\ pc' = "typing" => partials' = 0
        BY <1>0, <1>2 DEF VerdictInv, PartialInv, SelectSingle, SingleInfoMissing, Ask, Type, AskFails, AnswerNothing, AnswerQuit,
           matches
  <2> QED BY <2>1 DEF CompareInv, SeenInv, PartialInv, VerdictInv
<1>3. CASE AnswerName
  <2>1. pc' = "compare" /\ ~valid' /\ i' = 1 /\ partials' = 0
        BY <1>0, <1>3 DEF AnswerName, VerdictInv, PartialInv
  <2> QED BY <2>1 DEF CompareInv, SeenInv, PartialInv, VerdictInv
<1>4. CASE InfoMissing
  <2>1. /\ pc = "compare" /\ pc' = "compare" /\ missed' /\ valid' = valid
        /\ UNCHANGED <<files, InputBuffer, resultLength, handles, partial, partials>>
        BY <1>4 DEF InfoMissing, scan, prompt
  <2> QED BY <1>0, <2>1, MatchesStay DEF CompareInv, SeenInv, PartialInv, VerdictInv
<1>5. CASE CompareFull
  <2>1. /\ pc = "compare" /\ pc' = "verdict" /\ valid' = TRUE /\ i \in 1 .. Len(handles)
        /\ selected' = handles[i] /\ Full(handles[i])
        /\ UNCHANGED <<files, InputBuffer, resultLength, handles, partial, partials, missed, i>>
        BY <1>5, <1>a DEF CompareFull, scan, prompt, Full
  <2>2. SeenInv' /\ PartialInv'
        BY <1>0, <2>1, MatchesStay DEF SeenInv, PartialInv
  <2>3. VerdictInv'
        BY <1>a, <2>1, MatchesStay DEF VerdictInv
  <2> QED BY <2>2, <2>3 DEF CompareInv
<1>6. CASE CompareFirst
  <2>1. /\ pc = "compare" /\ pc' = "compare" /\ valid' = valid /\ i \in 1 .. Len(handles)
        /\ ~Full(handles[i]) /\ Part(handles[i])
        /\ partials = 0 /\ partials' = 1 /\ partial' = handles[i] /\ i' = i + 1
        /\ UNCHANGED <<files, InputBuffer, resultLength, handles, missed>>
        BY <1>6, <1>a DEF CompareFirst, scan, prompt, Full, Part
  <2>2. \A j \in 1 .. i' - 1 : j \in 1 .. i - 1 \/ j = i
        BY <1>a, <2>1
  <2>3. ~missed => \A j \in 1 .. i - 1 : ~Full(handles[j])
        BY <1>0, <2>1 DEF SeenInv
  <2>4. SeenInv'
        BY <2>1, <2>2, <2>3, MatchesStay DEF SeenInv
  <2>5. PartialInv' /\ VerdictInv'
        BY <1>0, <1>a, <2>1, MatchesStay DEF PartialInv, VerdictInv
  <2> QED BY <2>4, <2>5 DEF CompareInv
<1>7. CASE CompareSecond
  <2>1. /\ pc = "compare" /\ pc' = "verdict" /\ valid' = valid /\ i \in 1 .. Len(handles)
        /\ ~Full(handles[i]) /\ Part(handles[i])
        /\ partials' = 2 /\ partial' = handles[i]
        /\ UNCHANGED <<files, InputBuffer, resultLength, handles, missed, i>>
        BY <1>7, <1>a DEF CompareSecond, scan, prompt, Full, Part
  <2>2. SeenInv'
        BY <1>0, <2>1, MatchesStay DEF SeenInv
  <2>3. PartialInv' /\ VerdictInv'
        BY <1>0, <1>a, <2>1, MatchesStay DEF PartialInv, VerdictInv
  <2> QED BY <2>2, <2>3 DEF CompareInv
<1>8. CASE CompareNone
  <2>1. /\ pc = "compare" /\ pc' = "compare" /\ valid' = valid /\ i \in 1 .. Len(handles)
        /\ ~Full(handles[i]) /\ ~Part(handles[i]) /\ i' = i + 1
        /\ UNCHANGED <<files, InputBuffer, resultLength, handles, missed, partial, partials>>
        BY <1>8, <1>a DEF CompareNone, scan, prompt, Full, Part
  <2>2. \A j \in 1 .. i' - 1 : j \in 1 .. i - 1 \/ j = i
        BY <1>a, <2>1
  <2>3. SeenInv'
        BY <1>0, <2>1, <2>2, MatchesStay DEF SeenInv
  <2>4. PartialInv' /\ VerdictInv'
        BY <1>0, <1>a, <2>1, MatchesStay DEF PartialInv, VerdictInv
  <2> QED BY <2>3, <2>4 DEF CompareInv
<1>9. CASE CompareDone
  <2>1. /\ pc = "compare" /\ pc' = "verdict" /\ i > Len(handles)
        /\ UNCHANGED <<files, InputBuffer, resultLength, handles, missed, partial, partials, valid, i>>
        BY <1>9 DEF CompareDone, scan, prompt, matches
  <2>2. SeenInv' /\ PartialInv'
        BY <1>0, <2>1, MatchesStay DEF SeenInv, PartialInv
  <2>3. VerdictInv'
        BY <1>0, <2>1 DEF VerdictInv
  <2> QED BY <2>2, <2>3 DEF CompareInv
<1>10. CASE Verdict
  <2>1. pc' \in {"position", "prompt"} /\ (pc' = "prompt" => ~valid')
        BY <1>10 DEF Verdict
  <2> QED BY <2>1 DEF CompareInv, SeenInv, PartialInv, VerdictInv
<1>11. CASE GetPosition \/ GoBack
  <2>1. pc' \in {"selected", "panic", "open"}
        BY <1>11 DEF GetPosition, GoBack
  <2> QED BY <2>1 DEF CompareInv, SeenInv, PartialInv, VerdictInv
<1>12. CASE UNCHANGED vars
  <2>1. /\ pc' = pc /\ selected' = selected
        /\ UNCHANGED <<files, InputBuffer, resultLength, handles, missed, partial, partials, valid, i>>
        BY <1>12 DEF vars, scan, prompt, matches, choice
  <2>2. SeenInv' /\ PartialInv'
        BY <1>0, <2>1, MatchesStay DEF SeenInv, PartialInv
  <2>3. VerdictInv'
        BY <1>0, <2>1, MatchesStay DEF VerdictInv
  <2> QED BY <2>2, <2>3 DEF CompareInv
<1> QED BY <1>1, <1>2, <1>3, <1>4, <1>5, <1>6, <1>7, <1>8, <1>9, <1>10, <1>11, <1>12
        DEF Next, SelectPayload, Left

\* The names in the table are those of payloads, longer than the suffix.
LEMMA NamesAreLong ==
  ASSUME MenuType, ScanInv, NEW k \in ToSet(handles)
  PROVE  files[k] \in Seq(Char) /\ Len(files[k]) > 2
<1>1. k \in 1 .. Len(files) /\ files[k] \in Seq(Char)
      BY TableFacts
<1>2. IsPayload(files[k])
      BY DEF ScanInv, Read, Payloads
<1>3. Len(files[k]) > Len(Suffix)
      BY <1>2 DEF IsPayload
<1>4. Len(Suffix) \in Nat /\ Len(files[k]) \in Nat /\ Len(Suffix) >= 2
      BY <1>1, MenuAssumption, LenProperties
<1> QED BY <1>1, <1>3, <1>4

LEMMA ChosenStep == IInv /\ [Next]_vars => ChosenInv'
<1> SUFFICES ASSUME IInv, [Next]_vars, pc' \in {"position", "selected"}, fromMulti'
             PROVE  selected' \in ToSet(handles') /\ (Full(selected)' \/ Part(selected)')
    BY DEF ChosenInv
<1>0. MenuType /\ ScanInv /\ PromptInv /\ SeenInv /\ PartialInv /\ VerdictInv /\ ChosenInv
      BY DEF IInv
<1>1. CASE Verdict
  <2>1. /\ pc = "verdict" /\ (valid \/ partials = 1)
        /\ selected' = IF partials = 1 THEN partial ELSE selected
        /\ UNCHANGED <<files, InputBuffer, resultLength, handles, missed>>
        BY <1>1 DEF Verdict, scan, prompt
  <2>2. CASE partials = 1
    <3>1. partial \in ToSet(handles) /\ Part(partial) /\ ~Full(partial)
          BY <1>0, <2>1, <2>2 DEF PartialInv
    <3>2. selected' = partial
          BY <2>1, <2>2
    <3>3. Part(selected)'
          BY <2>1, <3>1, <3>2 DEF Part, IsPartialMatch, Answer, Kbd!StrLen, Kbd!Index
    <3> QED BY <2>1, <3>1, <3>2, <3>3
  <2>3. CASE partials # 1
    <3>1. selected' = selected /\ selected \in ToSet(handles) /\ Full(selected)
          BY <1>0, <2>1, <2>3 DEF VerdictInv
    <3>2. Full(selected)'
          BY <2>1, <3>1 DEF Full, IsFullMatch, Answer, Kbd!StrLen, Kbd!Index
    <3> QED BY <2>1, <3>1, <3>2
  <2> QED BY <2>2, <2>3
<1>2. CASE ~Verdict
  <2>1. /\ pc \in {"position", "selected"} /\ fromMulti
        /\ selected' = selected
        /\ UNCHANGED <<files, InputBuffer, resultLength, handles, missed>>
        BY <1>2 DEF Next, vars, DiscoverPayloads, OpenVolume, DiscoverFails, ReadTooSmall, SkipFile,
             OpenPayload, EndOfListing, SelectPayload, SelectSingle, SingleInfoMissing, Ask, Type, AskFails,
             AnswerNothing, AnswerQuit, AnswerName, InfoMissing, CompareFull, CompareFirst, CompareSecond,
             CompareNone, CompareDone, GetPosition, GoBack, Left, scan, matches, choice, prompt
  <2>2. selected \in ToSet(handles) /\ (Full(selected) \/ Part(selected))
        BY <1>0, <2>1 DEF ChosenInv
  <2>3. (Full(selected)' <=> Full(selected)) /\ (Part(selected)' <=> Part(selected))
        BY <2>1 DEF Answer, Full, Part, IsFullMatch, IsPartialMatch, Kbd!StrLen, Kbd!Index
  <2> QED BY <2>1, <2>2, <2>3
<1> QED BY <1>1, <1>2

\* The name is set and taken back with the match (loader.c:290-295).
LEMMA NameStep == IInv /\ [Next]_vars => NameInv'
<1> SUFFICES ASSUME IInv, [Next]_vars PROVE NameInv'
    OBVIOUS
<1>0. MenuType /\ PartialInv /\ NameInv
      BY DEF IInv
<1>1. CASE DiscoverPayloads
  <2>1. pc \in {"open", "list"} /\ name' = name /\ pc' \in {"list", "single", "prompt", "panic"}
        BY <1>1 DEF DiscoverPayloads, OpenVolume, DiscoverFails, ReadTooSmall, SkipFile,
           OpenPayload, EndOfListing, choice
  <2> QED BY <1>0, <2>1 DEF NameInv, PromptNamesTheSelection
<1>2. CASE SelectSingle \/ SingleInfoMissing
  <2>1. fromMulti' = FALSE /\ pc' \in {"position", "panic"}
        BY <1>2 DEF SelectSingle, SingleInfoMissing
  <2> QED BY <2>1 DEF NameInv, PromptNamesTheSelection
<1>3. CASE Ask \/ Type \/ AskFails \/ AnswerNothing \/ AnswerQuit
  <2>1. pc \in {"prompt", "typing"} /\ name' = name /\ pc' \in {"prompt", "typing", "reset", "panic"}
        BY <1>3 DEF Ask, Type, AskFails, AnswerNothing, AnswerQuit, choice
  <2> QED BY <1>0, <2>1 DEF NameInv, PromptNamesTheSelection
<1>4. CASE AnswerName
  <2>1. pc = "typing" /\ pc' = "compare" /\ UNCHANGED <<name, partials>>
        BY <1>4 DEF AnswerName, choice
  <2> QED BY <1>0, <2>1 DEF NameInv, PartialInv, PromptNamesTheSelection
<1>5. CASE InfoMissing \/ CompareNone \/ CompareDone \/ CompareFull
  <2>1. pc = "compare" /\ pc' \in {"compare", "verdict"} /\ UNCHANGED <<name, partials, partial, files>>
        BY <1>5 DEF InfoMissing, CompareNone, CompareDone, CompareFull, choice, matches, scan
  <2> QED BY <1>0, <2>1 DEF NameInv, PromptNamesTheSelection, StrUpr
<1>6. CASE CompareFirst \/ CompareSecond
  <2>1. /\ pc' \in {"compare", "verdict"} /\ files' = files
        /\ \/ partials' = 1 /\ name' = StrUpr(files[partial'])
           \/ partials' = 2 /\ name' = << >>
        BY <1>6 DEF CompareFirst, CompareSecond, scan
  <2> QED BY <2>1 DEF NameInv, PromptNamesTheSelection, StrUpr
<1>7. CASE Verdict
  <2>1. /\ pc = "verdict" /\ UNCHANGED <<name, files>>
        /\ pc' \in {"position", "prompt"} /\ (pc' = "prompt" => partials # 1)
        /\ partials = 1 => selected' = partial
        BY <1>7 DEF Verdict, scan
  <2>2. name = IF partials = 1 THEN StrUpr(files[partial]) ELSE << >>
        BY <1>0, <2>1 DEF NameInv
  <2> QED BY <2>1, <2>2 DEF NameInv, PromptNamesTheSelection, StrUpr
<1>8. CASE GetPosition
  <2>1. pc = "position" /\ pc' \in {"selected", "panic"} /\ UNCHANGED <<name, files, selected, fromMulti>>
        BY <1>8 DEF GetPosition, scan, choice
  <2> QED BY <1>0, <2>1 DEF NameInv, PromptNamesTheSelection, StrUpr
<1>9. CASE GoBack
  <2>1. pc' = "open" /\ name' = << >>
        BY <1>9 DEF GoBack
  <2> QED BY <2>1 DEF NameInv, PromptNamesTheSelection
<1>10. CASE UNCHANGED vars
  <2>1. UNCHANGED <<pc, name, files, selected, fromMulti, partials, partial>>
        BY <1>10 DEF vars, scan, choice, matches
  <2> QED BY <1>0, <2>1 DEF NameInv, PromptNamesTheSelection, StrUpr
<1> QED BY <1>1, <1>2, <1>3, <1>4, <1>5, <1>6, <1>7, <1>8, <1>9, <1>10
        DEF Next, SelectPayload, Left

\* The invariant holds throughout every run of the menu.
LEMMA AlwaysIInv == Spec => []IInv
<1>1. IInv /\ [Next]_vars => IInv'
      BY TypeStep, ScanStep, PromptStep, CompareStep, ChosenStep, NameStep DEF IInv, CompareInv
<1> QED BY InitIInv, <1>1, PTL DEF Spec
------------------------------------------------------------------------------
(* What the menu promises. *)

\* The menu keeps its types: no handle is stored outside the table, and none is
\* read outside it (loader.c:135-192, 266-316).
THEOREM MenuTypeCorrect == Spec => []TypeOK
<1>1. IInv => TypeOK
  <2>1. IInv => Kbd!TypeOK
        BY DEF IInv, PromptInv, KP!IInv, KP!TypeOK, Kbd!TypeOK, KP!Index, Kbd!Index
  <2> QED BY <2>1 DEF IInv, MenuType, TypeOK
<1> QED BY AlwaysIInv, <1>1, PTL

\* Whatever the user types, a payload is only selected by a line that its name
\* starts with (loader.c:282-322).
THEOREM SelectionIsTyped == Spec => []SelectedWasTyped
<1>1. ASSUME IInv PROVE SelectedWasTyped
  <2> SUFFICES ASSUME pc = "selected", fromMulti
               PROVE  Kbd!Line # << >> /\ IsPrefix(Kbd!Line, StrUpr(files[selected]))
      BY DEF SelectedWasTyped
  <2>0. MenuType /\ ScanInv /\ PromptInv /\ ChosenInv
        BY <1>1 DEF IInv
  <2>1. KP!IInv /\ kpc = "returned" /\ resultLength > 0
        BY <2>0 DEF PromptInv, Answered
  <2>2. selected \in ToSet(handles) /\ (Full(selected) \/ Part(selected))
        BY <2>0 DEF ChosenInv
  <2> DEFINE t == StrUpr(files[selected])
             n == InputLength
  <2>3. files[selected] \in Seq(Char)
        BY <2>0, <2>2, NamesAreLong
  <2>4. t \in Seq(Char) /\ IsPrefix(Answer, t)
        BY <2>1, <2>2, <2>3, MatchFacts, StrUprFacts DEF Full, Part
  <2>5. /\ Answer \in Seq(Char) /\ n \in Nat /\ n > 0 /\ n <= Len(Answer) /\ Len(Answer) \in Nat
        /\ Kbd!Line \in Seq(Char) /\ Len(Kbd!Line) = n
        /\ \A k \in 1 .. n : Kbd!Line[k] = Answer[k]
        BY <2>1, AnswerFacts
  <2>6. Answer = Take(t, Len(Answer)) /\ Len(Answer) <= Len(t) /\ Len(t) \in Nat
        BY <2>4, <2>5, PrefixFacts, LenProperties
  <2> HIDE DEF t
  <2>7. \A k \in 1 .. Len(Answer) : Answer[k] = t[k]
        BY <2>4, <2>5, <2>6, TakeFacts
  <2>8. \A k \in 1 .. n : Kbd!Line[k] = t[k]
        BY <2>5, <2>7
  <2>9. Kbd!Line = Take(t, n)
    <3>1. Take(t, n) \in Seq(Char) /\ Len(Take(t, n)) = n /\ \A k \in 1 .. n : Take(t, n)[k] = t[k]
          BY <2>4, <2>5, <2>6, TakeFacts
    <3> QED BY <2>5, <2>8, <3>1, SeqEqual
  <2>10. IsPrefix(Kbd!Line, t)
        BY <2>4, <2>5, <2>9, PrefixFacts
  <2>11. Kbd!Line # << >>
        BY <2>5, EmptySeq
  <2> QED BY <2>10, <2>11 DEF t
<1> QED BY AlwaysIInv, <1>1, PTL

\* The name in the password prompt is never that of another payload, whatever
\* matched before and however often the user went back (loader.c:290-295,
\* main.c:98, 272-275).
THEOREM SelectionIsNamed == Spec => []PromptNamesTheSelection
<1>1. IInv => PromptNamesTheSelection
      BY DEF IInv, NameInv
<1> QED BY AlwaysIInv, <1>1, PTL

\* A name that was typed in full selects its payload, in whatever order the
\* names come and whatever else matches (loader.c:282-322).
THEOREM FullNamesSelect == Spec => FullNameSelects
<1>1. ASSUME IInv, [Next]_vars, NEW k \in ToSet(handles),
             pc = "verdict", ~missed, Clean, Len(Answer) < MaxName, Answer = StrUpr(files[k]),
             ~UNCHANGED vars
      PROVE  pc' = "position" /\ selected' = k
  <2>0. MenuType /\ ScanInv /\ PromptInv /\ SeenInv /\ PartialInv /\ VerdictInv
        BY <1>1 DEF IInv
  <2>1. KP!IInv /\ kpc = "returned" /\ resultLength > 0
        BY <1>1, <2>0 DEF PromptInv, Answered
  <2>2. Verdict
        BY <1>1 DEF Next, DiscoverPayloads, OpenVolume, DiscoverFails, ReadTooSmall, SkipFile,
             OpenPayload, EndOfListing, SelectPayload, SelectSingle, SingleInfoMissing, Ask, Type, AskFails,
             AnswerNothing, AnswerQuit, AnswerName, InfoMissing, CompareFull, CompareFirst, CompareSecond,
             CompareNone, CompareDone, GetPosition, GoBack, Left
  <2>3. partials = 0
    <3>1. SUFFICES ASSUME partials > 0 PROVE FALSE
          BY <2>0 DEF MenuType
    <3>2. partial \in ToSet(handles) /\ Part(partial) /\ ~Full(partial)
          BY <1>1, <2>0, <3>1 DEF PartialInv
    <3>3. files[partial] \in Seq(Char)
          BY <2>0, <3>2, NamesAreLong
    <3>4. InputLength = 1 /\ Len(Answer) = 2
          BY <2>1, <3>2, <3>3, MatchFacts DEF Part, Full
    <3> QED BY <1>1, <3>4 DEF Clean
  <2>4. files[k] \in Seq(Char) /\ IsFullMatch(files[k])
        BY <1>1, <2>0, <2>1, NamesAreLong, MatchFacts
  <2>5. valid
    <3>1. SUFFICES ASSUME ~valid PROVE FALSE
          OBVIOUS
    <3>2. i > Len(handles)
          BY <1>1, <2>0, <2>3, <3>1 DEF VerdictInv
    <3>3. PICK j \in 1 .. Len(handles) : k = handles[j]
          BY <1>1, <2>0, TableFacts
    <3>4. j \in 1 .. i - 1
          BY <2>0, <3>2, <3>3, TableFacts DEF MenuType
    <3> QED BY <1>1, <2>0, <2>4, <3>3, <3>4 DEF SeenInv, Full
  <2>6. selected \in ToSet(handles) /\ IsFullMatch(files[selected])
        BY <1>1, <2>0, <2>5 DEF VerdictInv, Full
  <2>7. StrUpr(files[selected]) = StrUpr(files[k])
    <3>1. files[selected] \in Seq(Char)
          BY <2>0, <2>6, NamesAreLong
    <3> QED BY <1>1, <2>1, <2>6, <3>1, MatchFacts
  <2>8. selected = k
    <3>1. files \in Listings /\ selected \in DOMAIN files /\ k \in DOMAIN files
          BY <1>1, <2>0, <2>6, TableFacts DEF MenuType
    <3> QED BY <2>7, <3>1, MenuAssumption DEF StrUpr
  <2>9. valid' /\ pc' = "position" /\ selected' = selected
    <3>1. /\ selected' = IF partials = 1 THEN partial ELSE selected
          /\ valid' = (valid \/ partials = 1)
          /\ pc' = IF valid' THEN "position" ELSE "prompt"
          BY <2>2 DEF Verdict
    <3>2. valid'
          BY ONLY <2>5, <3>1, Zenon
    <3> QED BY ONLY <2>3, <3>1, <3>2
  <2> QED BY <2>8, <2>9
<1>2. IInv /\ [Next]_vars =>
        [\A k \in ToSet(handles) :
           pc = "verdict" /\ ~missed /\ Clean /\ Len(Answer) < MaxName /\ Answer = StrUpr(files[k])
             => pc' = "position" /\ selected' = k]_vars
      BY <1>1
<1> QED BY AlwaysIInv, <1>2, PTL DEF Spec, FullNameSelects

\* The payloads below a position are fewer than the table holds exactly for
\* those that were read before it was full.
LEMMA TableIsFull ==
  ASSUME MenuType, ScanInv, pc \notin {"open", "list", "panic"}, NEW k \in Payloads
  PROVE  k <= cursor <=> Cardinality({j \in Payloads : j < k}) < MaxPayloads
<1> DEFINE Lower == {j \in Payloads : j < k}
<1>1. /\ Len(files) \in Nat /\ Payloads \subseteq 1 .. Len(files) /\ cursor \in 0 .. Len(files)
      /\ Len(handles) <= MaxPayloads /\ MaxPayloads \in Nat
      BY TableFacts, MenuAssumption DEF MenuType, Payloads
<1>2. /\ k \in Nat /\ k <= Len(files) /\ cursor \in Nat
      /\ \A j \in Payloads : j \in Nat /\ j <= Len(files)
      BY <1>1
<1>3. IsFiniteSet(Payloads)
  <2>1. IsFiniteSet(1 .. Len(files))
        BY <1>1, FS_Interval
  <2> QED BY <1>1, <2>1, FS_Subset
<1>4. /\ IsFiniteSet(Lower) /\ Cardinality(Lower) \in Nat
      /\ IsFiniteSet(Read) /\ Cardinality(Read) \in Nat
  <2>1. Lower \in SUBSET Payloads /\ Read \in SUBSET Payloads
        BY DEF Read
  <2> QED BY <1>3, <2>1, FS_Subset, FS_CardinalityType
<1>5. Cardinality(Read) <= MaxPayloads
      BY <1>1 DEF ScanInv
<1>6. ASSUME k <= cursor PROVE Cardinality(Lower) < MaxPayloads
  <2>1. Lower \in SUBSET Read /\ k \in Read /\ k \notin Lower
    <3>1. ~(k < k) /\ \A j \in Payloads : j < k => j <= cursor
          BY ONLY <1>2, <1>6
    <3> QED BY <1>6, <3>1 DEF Read
  <2>2. Cardinality(Lower) <= Cardinality(Read) /\ Cardinality(Read) # Cardinality(Lower)
        BY <1>4, <2>1, FS_Subset
  <2> QED BY <1>1, <1>4, <1>5, <2>2
<1>7. ASSUME ~(k <= cursor) PROVE ~(Cardinality(Lower) < MaxPayloads)
  <2>1. Len(handles) = MaxPayloads
        BY <1>1, <1>2, <1>7 DEF ScanInv
  <2>2. Cardinality(Read) = MaxPayloads
        BY <2>1 DEF ScanInv
  <2>3. Read \in SUBSET Lower
    <3>1. \A j \in Payloads : j <= cursor => j < k
          BY ONLY <1>2, <1>7
    <3> QED BY ONLY <3>1 DEF Read
  <2>4. Cardinality(Read) <= Cardinality(Lower)
        BY <1>4, <2>3, FS_Subset
  <2> QED BY <1>1, <1>4, <2>2, <2>4
<1> QED BY <1>6, <1>7

\* The scan opens the payloads of the directory in order, up to the limit,
\* however often an entry is read again (loader.c:135-192).
THEOREM EveryPayloadIsOpened == Spec => []OpensEveryPayload
<1>1. ASSUME IInv PROVE OpensEveryPayload
  <2> SUFFICES ASSUME pc \notin {"open", "list", "panic"}
               PROVE  /\ ToSet(handles) =
                           {k \in Payloads : Cardinality({j \in Payloads : j < k}) < MaxPayloads}
                      /\ \A j, k \in DOMAIN handles : j < k => handles[j] < handles[k]
      BY DEF OpensEveryPayload
  <2>1. MenuType /\ ScanInv
        BY <1>1 DEF IInv
  <2>2. \A k \in Payloads : k <= cursor <=> Cardinality({j \in Payloads : j < k}) < MaxPayloads
        BY <2>1, TableIsFull
  <2>3. ToSet(handles) = {k \in Payloads : k <= cursor}
        BY <2>1 DEF ScanInv, Read
  <2>4. ToSet(handles) = {k \in Payloads : Cardinality({j \in Payloads : j < k}) < MaxPayloads}
        BY <2>2, <2>3
  <2> QED BY <2>1, <2>4 DEF ScanInv
<1> QED BY AlwaysIInv, <1>1, PTL
==============================================================================
