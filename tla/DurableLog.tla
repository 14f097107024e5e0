----------------------------- MODULE DurableLog -----------------------------
(***************************************************************************)
(* What the write-ahead log promises its caller (RaftCore): a set of       *)
(* records, each at an index.  New records go behind all others; records   *)
(* may be lost, or dropped once the caller has given them up, but not      *)
(* while they are acknowledged.                                            *)
(***************************************************************************)
EXTENDS Integers

VARIABLES
  contents,  \* the <<index, record>> pairs that the log still has
  acked,     \* those that the caller was told are durable and still needs
  excused    \* has something happened that no promise covers?

Init == contents = {} /\ acked = {}

Write ==
  /\ \E e \in contents' : contents' = contents \cup {e} /\ \A r \in contents : r[1] < e[1]
  /\ UNCHANGED acked

Acknowledge == acked' = contents /\ UNCHANGED contents

GiveUp == acked' \subseteq acked /\ UNCHANGED contents

Lose ==
  /\ contents' \subseteq contents
  /\ excused' \/ acked \subseteq contents'
  /\ UNCHANGED acked

Next == Write \/ Acknowledge \/ GiveUp \/ Lose

Spec == Init /\ [][Next]_<<contents, acked>>
=============================================================================
