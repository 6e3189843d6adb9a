----------------------------- MODULE MCThreading -----------------------------
(* Instances of the thread pool for TLC.                                     *)
EXTENDS Threading

CONSTANT Lengths    \* the lengths that an order may have in this instance
CONSTANT MaxTotal   \* and their greatest sum
CONSTANT Quiet      \* the slots whose progress is suppressed

\* Every cut of a payload into orders of these lengths.
MCLayouts ==
  { l \in [ length   : [Slot -> Lengths],
            location : [0 .. MaxThreads -> 0 .. MaxTotal],
            suppress : {Quiet} ] : LayoutAssumption(l) }
==============================================================================
