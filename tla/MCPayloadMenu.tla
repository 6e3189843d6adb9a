---------------------------- MODULE MCPayloadMenu ----------------------------
(* Instances of the payload menu for TLC.  A suffix of two characters lets   *)
(* the shortest names be typed in full.                                      *)
EXTENDS PayloadMenu

MCChar == {"1", "q", "Q", "."}

MCUpper == [c \in MCChar |-> IF c = "q" THEN "Q" ELSE c]

MCSuffix == <<".", ".">>

\* No payload; one among other files; a name that is a prefix of another, in
\* both orders; names with a common start; more payloads than the table has
\* room for; names longer than the longest answer, and one that starts with
\* another name.
MCListings ==
  { << <<"1">>, <<".", ".">> >>,
    << <<".", ".">>, <<"q", ".", ".">>, <<"1", ".", "q">> >>,
    << <<"q", ".", ".">>, <<"Q", ".", ".", ".", ".">> >>,
    << <<"Q", ".", ".", ".", ".">>, <<"q", ".", ".">> >>,
    << <<"1", "q", ".", ".">>, <<"1", "Q">>, <<"1", "1", ".", ".">> >>,
    << <<"q", ".", ".">>, <<"1", ".", ".">>, <<"1", "q", ".", ".">>, <<"Q", "1", ".", ".">> >>,
    << <<"1", "1", "1", "q", ".", ".">>, <<"1", "1", "1", "Q", "1", ".", ".">> >>,
    << <<"1", "Q", ".", ".", ".", ".">>, <<"1", "q", ".", ".">> >> }
==============================================================================
