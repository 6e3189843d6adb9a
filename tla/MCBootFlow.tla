----------------------------- MODULE MCBootFlow -----------------------------
(* Instances of the boot flow for TLC: a payload of two chunks and a bit     *)
(* whose password is "b", one whose size is no multiple of a block, one that *)
(* has no content.                                                           *)
EXTENDS BootFlow

MCPayload == {"long", "odd", "empty"}
MCSize    == [f \in MCPayload |-> CASE f = "long" -> 10 [] f = "odd" -> 7 [] f = "empty" -> 4]
MCSecret  == [f \in MCPayload |-> IF f = "empty" THEN "b" ELSE "right"]
MCContent == [f \in MCPayload |-> IF f = "empty" THEN 0 ELSE 5]
MCVolumes == { <<"plain">>, <<"plain", "canary">>, <<"canary", "plain", "canary">>,
               <<"plain", "broken", "canary">> }
==============================================================================
