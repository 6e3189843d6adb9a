---------------------------- MODULE BlockDevices ----------------------------
(***************************************************************************)
(* What the RAM disk driver promises to the users of Block I/O: every disk *)
(* that is present is an array of its own, transfers of whole blocks that  *)
(* lie within it are carried out, all others are refused and change        *)
(* nothing, and no memory but that of the disk is ever written.            *)
(***************************************************************************)
EXTENDS Integers

CONSTANTS
  Disk,           \* the disks
  Length,         \* the number of bytes of each
  Block,          \* the number of bytes of a block
  Value,          \* the values of a byte
  Refusal,        \* what a refusal may say
  Medium          \* the identifier of the only medium there is

VARIABLES
  present,        \* the disks that can be used
  content,        \* the bytes of every disk
  outside,        \* the rest of the memory
  reply           \* the last request and its answer

vars == <<present, content, outside, reply>>

Silence == [query |-> [op |-> "none"], status |-> "none", data |-> << >>, signalled |-> FALSE]

Init ==
  /\ present = {}
  /\ \A d \in Disk : content[d] \in [0 .. Length[d] - 1 -> Value]
  /\ reply = Silence

Appear(d) ==
  /\ present' = present \cup {d}
  /\ UNCHANGED <<content, outside, reply>>

Vanish(d) ==
  /\ present' = present \ {d}
  /\ UNCHANGED <<content, outside, reply>>

(* A transfer that can be carried out. *)
Fits(d, q) ==
  /\ q.media = Medium
  /\ q.buffer
  /\ \/ q.bytes = 0
     \/ q.bytes % Block = 0 /\ q.lba * Block + q.bytes <= Length[d]

(* The event of the token is signalled by what succeeds and by nothing else. *)
Answer(q, status, data) ==
  reply' = [query |-> q, status |-> status, data |-> data,
            signalled |-> q.event /\ status = "SUCCESS"]

Read(d, q) ==
  /\ q.op = "read" /\ Fits(d, q)
  /\ Answer(q, "SUCCESS", [i \in 0 .. q.bytes - 1 |-> content[d][q.lba * Block + i]])
  /\ UNCHANGED content

Write(d, q) ==
  /\ q.op = "write" /\ Fits(d, q)
  /\ content' = [content EXCEPT ![d] =
       [i \in DOMAIN @ |-> IF i - q.lba * Block \in 0 .. q.bytes - 1 THEN q.value ELSE @[i]]]
  /\ Answer(q, "SUCCESS", << >>)

Refuse(d, q) ==
  /\ q.op \in {"read", "write"} /\ ~ Fits(d, q)
  /\ \E s \in Refusal : Answer(q, s, << >>)
  /\ UNCHANGED content

(* Resetting and flushing succeed: nothing is cached. *)
Flush(q) ==
  /\ q.op = "flush"
  /\ Answer(q, "SUCCESS", << >>)
  /\ UNCHANGED content

Serve(d, q) ==
  /\ Read(d, q) \/ Write(d, q) \/ Refuse(d, q) \/ Flush(q)
  /\ UNCHANGED <<present, outside>>

Next ==
  \/ \E d \in Disk : Appear(d) \/ Vanish(d)
  \/ \E d \in present : Serve(d, reply'.query)

Spec == Init /\ [][Next]_vars
=============================================================================
