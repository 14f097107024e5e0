----------------------------- MODULE WalProofs -----------------------------
(***************************************************************************)
(* Theorems about Wal, for every set of payloads and every bound: types,   *)
(* and the durability of what sync() acknowledged.                         *)
(***************************************************************************)
EXTENDS Wal, SequenceTheorems, LeastElement

-----------------------------------------------------------------------------
(* Segments.                                                               *)

\* A file as a crash may leave it: its fsynced records are whole.
Damaged ==
  {seg \in Segment : /\ seg.base >= 1
                     /\ seg.synced <= Len(seg.recs)
                     /\ \A j \in 1..seg.synced : seg.recs[j] \in Payload}

\* A file of an open log: all of its records are whole.
Whole ==
  {seg \in Segment : /\ seg.base >= 1
                     /\ seg.synced <= Len(seg.recs)
                     /\ seg.recs \in Seq(Payload)}

\* Files of an open log are fine as crash images, too.
LEMMA WholeInDamaged == Whole \subseteq Damaged
<1>1. ASSUME NEW seg \in Whole, NEW j \in 1..seg.synced
      PROVE  seg.recs[j] \in Payload
  <2>1. seg.recs \in Seq(Payload) /\ seg.synced \in Nat /\ seg.synced <= Len(seg.recs)
    BY DEF Whole, Segment
  <2>2. j \in 1..Len(seg.recs)
    BY <2>1
  <2>3. QED
    BY <2>1, <2>2, ElementOfSeq
<1>2. QED
  BY <1>1 DEF Whole, Damaged

\* A function on 1..n is a sequence of length n.
LEMMA FunctionIsSeq ==
  ASSUME NEW S, NEW n \in Nat, NEW f \in [1..n -> S]
  PROVE  f \in Seq(S) /\ Len(f) = n
OBVIOUS

\* When a file is one of an open log, and when it is one that a crash may leave.
LEMMA SegTypes ==
  ASSUME NEW base \in Nat, base >= 1, NEW recs \in Seq(Item), NEW synced \in Nat,
         synced <= Len(recs)
  PROVE  LET s == Seg(base, recs, synced)
         IN  /\ s.base = base /\ s.recs = recs /\ s.synced = synced
             /\ s \in Segment
             /\ recs \in Seq(Payload) => s \in Whole
             /\ (\A j \in 1..synced : recs[j] \in Payload) => s \in Damaged
<1> DEFINE s == Seg(base, recs, synced)
<1>1. s.base = base /\ s.recs = recs /\ s.synced = synced /\ s \in Segment
  BY DEF Seg, Segment
<1> HIDE DEF s
<1>2. recs \in Seq(Payload) => s \in Whole
  BY <1>1 DEF Whole
<1>3. (\A j \in 1..synced : recs[j] \in Payload) => s \in Damaged
  BY <1>1 DEF Damaged
<1>4. QED
  BY <1>1, <1>2, <1>3 DEF s

\* Segment::recover's scan stops at the first bad record, or at the end.
LEMMA GoodLengthExists ==
  ASSUME NEW recs, Len(recs) \in Nat
  PROVE  LET n == GoodLength(recs)
         IN  /\ n \in 0..Len(recs)
             /\ \A j \in 1..n : recs[j] \in Payload
             /\ n < Len(recs) => recs[n + 1] \notin Payload
<1> DEFINE T == {n \in 0..Len(recs) : n < Len(recs) => recs[n + 1] \notin Payload}
           Good(n) == /\ \A j \in 1..n : recs[j] \in Payload
                      /\ n < Len(recs) => recs[n + 1] \notin Payload
<1>1. Len(recs) \in T /\ T \in SUBSET Nat
  OBVIOUS
<1>2. PICK n \in T : \A y \in T : n <= y
  BY <1>1, LeastNatural
<1>3. ASSUME NEW j \in 1..n
      PROVE  recs[j] \in Payload
  <2>1. j - 1 \in 0..Len(recs) /\ j - 1 < Len(recs) /\ ~(n <= j - 1) /\ (j - 1) + 1 = j
    BY <1>2
  <2>2. j - 1 \notin T
    BY <1>2, <2>1
  <2>3. QED
    BY <2>1, <2>2
<1>4. \E x \in 0..Len(recs) : Good(x)
  BY <1>2, <1>3
<1> HIDE DEF Good
<1>5. LET x == CHOOSE x \in 0..Len(recs) : Good(x)
      IN  x \in 0..Len(recs) /\ Good(x)
  BY <1>4
<1>6. QED
  BY <1>5 DEF GoodLength, Good

\* `after' still has every fsynced record of `before', at its index.
Keeps(before, after) ==
  /\ after.base = before.base
  /\ after.synced >= before.synced
  /\ \A j \in 1..before.synced : after.recs[j] = before.recs[j]

\* Recovery yields whole files and drops nothing that was fsynced.
LEMMA RecoverKeeps ==
  ASSUME NEW seg \in Damaged
  PROVE  Recover(seg) \in Whole /\ Keeps(seg, Recover(seg))
<1> DEFINE n == GoodLength(seg.recs)
           good == SubSeq(seg.recs, 1, n)
<1>1. /\ seg \in Segment /\ seg.recs \in Seq(Item) /\ seg.synced \in Nat
      /\ seg.base \in Nat /\ seg.base >= 1 /\ seg.synced <= Len(seg.recs)
      /\ \A j \in 1..seg.synced : seg.recs[j] \in Payload
  BY DEF Damaged, Segment
<1>2. /\ n \in 0..Len(seg.recs)
      /\ \A j \in 1..n : seg.recs[j] \in Payload
      /\ n < Len(seg.recs) => seg.recs[n + 1] \notin Payload
  BY <1>1, GoodLengthExists
<1>3. Recover(seg) = Seg(seg.base, good, n)
  BY DEF Recover
<1> HIDE DEF n
<1>4. n >= seg.synced
  BY <1>1, <1>2
<1>5. good \in Seq(Payload) /\ Len(good) = n /\ \A j \in 1..n : good[j] = seg.recs[j]
  BY <1>2, SubSeqProperties
<1>6. good \in Seq(Item)
  BY <1>5, SeqMonotonic DEF Item
<1> HIDE DEF good
<1> DEFINE r == Seg(seg.base, good, n)
<1>7. r.base = seg.base /\ r.recs = good /\ r.synced = n /\ r \in Whole
  BY <1>1, <1>2, <1>5, <1>6, SegTypes
<1> HIDE DEF r
<1>8. Keeps(seg, r)
  BY <1>1, <1>2, <1>4, <1>5, <1>7 DEF Keeps
<1>9. QED
  BY <1>3, <1>7, <1>8 DEF r

\* A crash leaves the fsynced records of a file alone.
LEMMA ImagesKeep ==
  ASSUME NEW seg \in Whole, NEW image \in Images(seg)
  PROVE  LET s == Seg(seg.base, image, seg.synced)
         IN  s \in Damaged /\ Keeps(seg, s)
<1> DEFINE N == Len(seg.recs)
           Cut(n) == SubSeq(seg.recs, 1, n)
           rest(n, m) == SubSeq(seg.recs, n + 2, m)
<1>1. /\ seg.base \in Nat /\ seg.base >= 1
      /\ seg.synced \in Nat /\ seg.synced <= N
      /\ seg.recs \in Seq(Payload) /\ seg.recs \in Seq(Item) /\ N \in Nat
  BY DEF Whole, Segment
<1>2. Torn \in Item /\ Corrupt \in Item
  BY DEF Item
<1>3. ASSUME NEW n \in seg.synced..N
      PROVE  /\ Cut(n) \in Seq(Item) /\ Len(Cut(n)) = n
             /\ \A j \in 1..n : Cut(n)[j] = seg.recs[j]
  <2>1. n \in Nat /\ n <= N
    BY <1>1
  <2>2. QED
    BY <1>1, <2>1, SubSeqProperties
<1>4. ASSUME NEW n \in seg.synced..(N - 1), NEW m \in seg.synced..N
      PROVE  rest(n, m) \in Seq(Item)
  <2>1. n + 2 \in Int /\ m \in Int /\ \A i \in (n + 2)..m : seg.recs[i] \in Item
    BY <1>1
  <2>2. QED
    BY <1>1, <2>1, SubSeqProperties
<1> DEFINE Fine(im) == /\ im \in Seq(Item)
                       /\ seg.synced <= Len(im)
                       /\ \A j \in 1..seg.synced : im[j] = seg.recs[j]
<1> HIDE DEF Cut, rest
<1>5. ASSUME NEW n \in seg.synced..N
      PROVE  Fine(Cut(n))
  BY <1>1, <1>3
<1>6. ASSUME NEW n \in seg.synced..(N - 1), NEW x \in Item
      PROVE  Fine(Append(Cut(n), x))
  <2>1. n \in seg.synced..N
    BY <1>1
  <2>2. QED
    BY <1>1, <1>3, <2>1, AppendProperties
<1> DEFINE Hole(n, m) == Append(Cut(n), Corrupt) \o rest(n, m)
<1>7. ASSUME NEW n \in seg.synced..(N - 1), NEW m \in seg.synced..N
      PROVE  Fine(Hole(n, m))
  <2> DEFINE a == Append(Cut(n), Corrupt)
  <2>1. Fine(a) /\ rest(n, m) \in Seq(Item)
    BY <1>2, <1>4, <1>6
  <2> HIDE DEF a
  <2>2. QED
    BY <1>1, <2>1, ConcatProperties DEF a
<1> HIDE DEF Hole
<1>8. ASSUME NEW n \in seg.synced..(N - 2), NEW m \in seg.synced..(N - 1)
      PROVE  Fine(Append(Hole(n, m), Torn))
  <2>1. n \in seg.synced..(N - 1) /\ m \in seg.synced..N
    BY <1>1
  <2>2. Fine(Hole(n, m))
    BY <1>7, <2>1
  <2>3. QED
    BY <1>1, <1>2, <2>2, AppendProperties
<1>9. Fine(image)
  <2>1. \/ \E n \in seg.synced..N : image = Cut(n)
        \/ \E n \in seg.synced..(N - 1) : image = Append(Cut(n), Torn)
        \/ \E n \in seg.synced..(N - 1) : image = Append(Cut(n), Corrupt)
        \/ \E n \in seg.synced..(N - 1), m \in seg.synced..N : image = Hole(n, m)
        \/ \E n \in seg.synced..(N - 2), m \in seg.synced..(N - 1) :
             image = Append(Hole(n, m), Torn)
    <3> DEFINE A == {Cut(n) : n \in seg.synced..N}
               B == {Append(Cut(n), Torn) : n \in seg.synced..(N - 1)}
               C == {Append(Cut(n), Corrupt) : n \in seg.synced..(N - 1)}
               D == {Hole(n, m) : n \in seg.synced..(N - 1), m \in seg.synced..N}
               E == {Append(Hole(n, m), Torn) :
                       n \in seg.synced..(N - 2), m \in seg.synced..(N - 1)}
    <3>1. Images(seg) = A \cup B \cup C \cup D \cup E
      BY DEF Images, OrderedImages, Cut, rest, Hole
    <3>2. image \in A \/ image \in B \/ image \in C \/ image \in D \/ image \in E
      <4> HIDE DEF A, B, C, D, E
      <4>1. QED
        BY <3>1
    <3>3. image \in D =>
            \E n \in seg.synced..(N - 1), m \in seg.synced..N : image = Hole(n, m)
      OBVIOUS
    <3>4. image \in E =>
            \E n \in seg.synced..(N - 2), m \in seg.synced..(N - 1) :
              image = Append(Hole(n, m), Torn)
      OBVIOUS
    <3>5. QED
      BY <3>2, <3>3, <3>4
  <2> HIDE DEF Fine
  <2>2. QED
    BY <1>2, <1>5, <1>6, <1>7, <1>8, <2>1
<1>10. \A j \in 1..seg.synced : seg.recs[j] \in Payload
  BY WholeInDamaged DEF Damaged
<1> DEFINE s == Seg(seg.base, image, seg.synced)
<1>11. s.base = seg.base /\ s.recs = image /\ s.synced = seg.synced /\ s \in Damaged
  <2>1. \A j \in 1..seg.synced : image[j] \in Payload
    BY <1>9, <1>10
  <2>2. QED
    BY <1>1, <1>9, <2>1, SegTypes
<1> HIDE DEF s
<1>12. Keeps(seg, s)
  BY <1>1, <1>9, <1>11 DEF Keeps
<1>13. QED
  BY <1>11, <1>12 DEF s

\* The pairs in SyncedRecords.
LEMMA SyncedMembers ==
  ASSUME NEW segs
  PROVE  /\ \A k \in 1..Len(segs) : \A j \in 1..segs[k].synced :
              <<segs[k].base + j - 1, segs[k].recs[j]>> \in SyncedRecords(segs)
         /\ \A e \in SyncedRecords(segs) :
              \E k \in 1..Len(segs) : \E j \in 1..segs[k].synced :
                e = <<segs[k].base + j - 1, segs[k].recs[j]>>
<1> DEFINE of(k) == {<<segs[k].base + j - 1, segs[k].recs[j]>> : j \in 1..segs[k].synced}
<1>1. SyncedRecords(segs) = UNION {of(k) : k \in 1..Len(segs)}
  BY DEF SyncedRecords
<1>2. \A k \in 1..Len(segs) : \A j \in 1..segs[k].synced :
        <<segs[k].base + j - 1, segs[k].recs[j]>> \in of(k)
  OBVIOUS
<1>3. \A k \in 1..Len(segs) : \A e \in of(k) :
        \E j \in 1..segs[k].synced : e = <<segs[k].base + j - 1, segs[k].recs[j]>>
  OBVIOUS
<1> HIDE DEF of
<1>4. QED
  BY <1>1, <1>2, <1>3

\* If every file is kept, so is everything that was fsynced.
LEMMA SyncedKept ==
  ASSUME NEW before \in Seq(Damaged), NEW after \in Seq(Damaged),
         Len(before) <= Len(after),
         \A k \in 1..Len(before) : Keeps(before[k], after[k])
  PROVE  SyncedRecords(before) \subseteq SyncedRecords(after)
<1> SUFFICES ASSUME NEW e \in SyncedRecords(before)
             PROVE  e \in SyncedRecords(after)
  OBVIOUS
<1>1. PICK k \in 1..Len(before) : \E j \in 1..before[k].synced :
             e = <<before[k].base + j - 1, before[k].recs[j]>>
  BY SyncedMembers
<1>2. PICK j \in 1..before[k].synced : e = <<before[k].base + j - 1, before[k].recs[j]>>
  BY <1>1
<1>3. k \in 1..Len(after)
  BY <1>1
<1>4. before[k] \in Damaged /\ after[k] \in Damaged
  BY <1>3, ElementOfSeq
<1>5. before[k].synced \in Nat /\ after[k].synced \in Nat
  BY <1>4 DEF Damaged, Segment
<1>6. j \in 1..after[k].synced /\ e = <<after[k].base + j - 1, after[k].recs[j]>>
  BY <1>2, <1>5 DEF Keeps
<1>7. QED
  BY <1>3, <1>6, SyncedMembers

-----------------------------------------------------------------------------
(* The inductive invariants.                                               *)

Files == IF mode = "open" THEN Whole ELSE Damaged

\* TypeOK, with what the steps rely on: an open log has a file except while
\* truncate_suffix has the only one in memory, and a crash ends any operation.
WalTypes ==
  /\ segments \in Seq(Files)
  /\ first \in Nat
  /\ last \in Nat
  /\ mode \in {"open", "down", "refused"}
  /\ op \in Op
  /\ acked \in SUBSET (Nat \X Payload)
  /\ mode # "open" => op = NoOp
  /\ mode = "open" /\ op.kind # "removed" => segments # <<>>
  /\ op.kind = "removed" => op.base >= 1 /\ op.survivors \in Seq(Payload)

\* What was acknowledged is fsynced, or held for the rewrite.
Covered == acked \subseteq SyncedRecords(segments) \cup InMemory

\* A truncation in progress only removes what the caller gave up.
GivenUp ==
  /\ op.kind = "prefix" => \A r \in acked : r[1] >= op.arg
  /\ op.kind = "suffix" => \A r \in acked : r[1] <= op.arg

\* The rewritten file holds the survivors.
Rewritten ==
  op.kind = "rewritten" => Last(segments).base = op.base /\ Last(segments).recs = op.survivors

DurableInv ==
  /\ WalTypes /\ GivenUp /\ Rewritten
  /\ "rewrite" \notin harm => Covered

\* An operation's record is well typed, and its fields are what it was given.
LEMMA DoingType ==
  ASSUME NEW kind \in {"none", "prefix", "suffix", "removed", "rewritten"},
         NEW arg \in Nat, NEW base \in Nat, NEW survivors \in Seq(Item)
  PROVE  LET o == Doing(kind, arg, base, survivors)
         IN  /\ o \in Op
             /\ o.kind = kind /\ o.arg = arg /\ o.base = base /\ o.survivors = survivors
BY DEF Doing, Op

\* No operation is in progress.
LEMMA NoOpType == NoOp \in Op /\ NoOp.kind = "none"
BY DEF NoOp, Doing, Op

\* The files of a log in any mode can be read as crash images.
LEMMA FilesDamaged ==
  ASSUME WalTypes
  PROVE  segments \in Seq(Damaged) /\ (mode = "open" => segments \in Seq(Whole))
BY WholeInDamaged, SeqMonotonic DEF WalTypes, Files

\* WalTypes is at least TypeOK, the ghost aside.
LEMMA WalTypesOK ==
  ASSUME WalTypes, harm \in SUBSET Harm
  PROVE  TypeOK
<1>1. Damaged \subseteq Segment
  BY DEF Damaged
<1>2. segments \in Seq(Damaged) /\ (mode = "open" => segments \in Seq(Whole))
  BY FilesDamaged
<1>3. segments \in Seq(Segment)
  BY <1>1, <1>2, SeqMonotonic
<1>4. ASSUME NEW k \in 1..Len(segments)
      PROVE  /\ segments[k].synced <= Len(segments[k].recs)
             /\ mode = "open" => segments[k].recs \in Seq(Payload)
  <2>1. segments[k] \in Damaged
    BY <1>2, ElementOfSeq
  <2>2. mode = "open" => segments[k] \in Whole
    BY <1>2, ElementOfSeq
  <2>3. QED
    BY <2>1, <2>2 DEF Damaged, Whole
<1>5. QED
  BY <1>3, <1>4 DEF TypeOK, WalTypes

\* The last file of an open log.
LEMMA LastFile ==
  ASSUME WalTypes, mode = "open", op.kind # "removed"
  PROVE  /\ segments \in Seq(Whole) /\ segments # <<>>
         /\ Len(segments) \in Nat /\ Len(segments) >= 1
         /\ Last(segments) = segments[Len(segments)]
         /\ Last(segments) \in Whole /\ segments[1] \in Whole
<1>1. segments \in Seq(Whole) /\ segments # <<>>
  BY FilesDamaged DEF WalTypes
<1>2. Len(segments) \in Nat /\ Len(segments) >= 1
  BY <1>1, EmptySeq
<1>3. 1 \in 1..Len(segments) /\ Len(segments) \in 1..Len(segments)
  BY <1>2
<1>4. QED
  BY <1>1, <1>2, <1>3, ElementOfSeq DEF Last

\* A file keeps its own records.
LEMMA KeepsItself ==
  ASSUME NEW seg \in Damaged
  PROVE  Keeps(seg, seg)
BY DEF Keeps, Damaged, Segment

-----------------------------------------------------------------------------
(* What each operation does to the files.                                  *)

\* Replacing one file by one that keeps its records keeps all of them.
LEMMA ReplaceFile ==
  ASSUME NEW segs \in Seq(Whole), NEW k \in 1..Len(segs), NEW seg \in Whole,
         Keeps(segs[k], seg)
  PROVE  LET after == [segs EXCEPT ![k] = seg]
         IN  /\ after \in Seq(Whole) /\ Len(after) = Len(segs)
             /\ after[k] = seg
             /\ SyncedRecords(segs) \subseteq SyncedRecords(after)
<1> DEFINE after == [segs EXCEPT ![k] = seg]
<1>1. /\ after \in Seq(Whole) /\ Len(after) = Len(segs)
      /\ \A j \in 1..Len(segs) : after[j] = IF j = k THEN seg ELSE segs[j]
  BY ExceptSeq
<1> HIDE DEF after
<1>2. segs \in Seq(Damaged) /\ after \in Seq(Damaged)
  BY <1>1, WholeInDamaged, SeqMonotonic
<1>3. ASSUME NEW j \in 1..Len(segs)
      PROVE  Keeps(segs[j], after[j])
  <2>1. segs[j] \in Damaged
    BY <1>2, ElementOfSeq
  <2>2. QED
    BY <1>1, <2>1, KeepsItself
<1>4. Len(segs) \in Nat
  OBVIOUS
<1>5. SyncedRecords(segs) \subseteq SyncedRecords(after)
  BY <1>1, <1>2, <1>3, <1>4, SyncedKept
<1>6. QED
  BY <1>1, <1>5 DEF after

\* A new file at the end keeps all records.
LEMMA AppendFile ==
  ASSUME NEW segs \in Seq(Whole), NEW seg \in Whole
  PROVE  LET after == Append(segs, seg)
         IN  /\ after \in Seq(Whole) /\ after # <<>> /\ Last(after) = seg
             /\ SyncedRecords(segs) \subseteq SyncedRecords(after)
<1> DEFINE after == Append(segs, seg)
<1>1. /\ after \in Seq(Whole) /\ after # <<>> /\ Len(after) = Len(segs) + 1
      /\ \A j \in 1..Len(segs) : after[j] = segs[j]
      /\ after[Len(segs) + 1] = seg
  BY AppendProperties
<1> HIDE DEF after
<1>2. segs \in Seq(Damaged) /\ after \in Seq(Damaged)
  BY <1>1, WholeInDamaged, SeqMonotonic
<1>3. ASSUME NEW j \in 1..Len(segs)
      PROVE  Keeps(segs[j], after[j])
  <2>1. segs[j] \in Damaged
    BY <1>2, ElementOfSeq
  <2>2. QED
    BY <1>1, <2>1, KeepsItself
<1>4. Len(segs) \in Nat
  OBVIOUS
<1>5. SyncedRecords(segs) \subseteq SyncedRecords(after)
  BY <1>1, <1>2, <1>3, <1>4, SyncedKept
<1>6. QED
  BY <1>1, <1>5 DEF after, Last

\* The types of an open log with a file.
LEMMA OpenTypes ==
  ASSUME mode' = "open", segments' \in Seq(Whole), segments' # <<>>,
         first' \in Nat, last' \in Nat, op' \in Op, op'.kind # "removed",
         acked' \in SUBSET (Nat \X Payload)
  PROVE  WalTypes'
BY DEF WalTypes, Files

\* Log::append, with or without a rotation.
LEMMA AppendStep ==
  ASSUME WalTypes, NEW p \in Payload, AppendRecord(p)
  PROVE  WalTypes' /\ SyncedRecords(segments) \subseteq SyncedRecords(segments')
<1>1. mode = "open" /\ op.kind = "none"
  BY DEF AppendRecord, Idle
<1>2. /\ segments \in Seq(Whole) /\ Len(segments) \in Nat /\ Len(segments) >= 1
      /\ Last(segments) = segments[Len(segments)] /\ segments[Len(segments)] \in Whole
  BY <1>1, LastFile
<1>3. last \in Nat /\ p \in Item
  BY DEF WalTypes, Item
<1>4. /\ segments' \in Seq(Whole) /\ segments' # <<>>
      /\ SyncedRecords(segments) \subseteq SyncedRecords(segments')
  <2>1. CASE NeedsRotation(Last(segments))
    <3> DEFINE recs == <<p>>
               new == Seg(last + 1, recs, 0)
    <3>1. recs \in Seq(Payload) /\ recs \in Seq(Item) /\ 0 <= Len(recs)
      BY <1>3
    <3>2. last + 1 \in Nat /\ last + 1 >= 1 /\ 0 \in Nat
      BY <1>3
    <3>3. segments' = Append(segments, new)
      BY <2>1 DEF AppendRecord, NewSegment
    <3> HIDE DEF recs
    <3>4. new \in Whole
      BY <3>1, <3>2, SegTypes
    <3> HIDE DEF new
    <3>5. QED
      BY <1>2, <3>3, <3>4, AppendFile
  <2>2. CASE ~NeedsRotation(Last(segments))
    <3> DEFINE n == Len(segments)
               seg == segments[n]
               recs == Append(seg.recs, p)
               new == Seg(seg.base, recs, seg.synced)
    <3>1. /\ seg.base \in Nat /\ seg.base >= 1 /\ seg.synced \in Nat
          /\ seg.recs \in Seq(Payload) /\ seg.recs \in Seq(Item)
          /\ seg.synced <= Len(seg.recs)
      BY <1>2 DEF Whole, Segment
    <3>2. recs \in Seq(Payload) /\ Len(recs) = Len(seg.recs) + 1
          /\ \A j \in 1..Len(seg.recs) : recs[j] = seg.recs[j]
      BY <3>1, AppendProperties
    <3>3. recs \in Seq(Item)
      BY <1>3, <3>1, AppendProperties
    <3>4. segments' = [segments EXCEPT ![n] = new]
      BY <2>2 DEF AppendRecord
    <3> HIDE DEF recs
    <3>5. seg.synced <= Len(recs)
      BY <3>1, <3>2
    <3>6. new \in Whole /\ new.base = seg.base /\ new.recs = recs /\ new.synced = seg.synced
      BY <3>1, <3>2, <3>3, <3>5, SegTypes
    <3> HIDE DEF new
    <3>7. Keeps(seg, new)
      BY <3>1, <3>2, <3>6 DEF Keeps
    <3>8. n \in 1..Len(segments)
      BY <1>2
    <3> HIDE DEF n
    <3>9. /\ segments' \in Seq(Whole) /\ Len(segments') = Len(segments)
          /\ SyncedRecords(segments) \subseteq SyncedRecords(segments')
      BY <1>2, <3>4, <3>6, <3>7, <3>8, ReplaceFile
    <3>10. QED
      BY <1>2, <3>9, EmptySeq
  <2>3. QED
    BY <2>1, <2>2
<1>5. last' \in Nat /\ UNCHANGED <<first, mode, op, acked>>
  BY <1>3 DEF AppendRecord
<1>6. QED
  BY <1>1, <1>4, <1>5, OpenTypes DEF WalTypes

\* Segment::sync, also as the end of a rewrite.
LEMMA SyncFile ==
  ASSUME NEW segs \in Seq(Whole), NEW k \in 1..Len(segs)
  PROVE  LET new == Seg(segs[k].base, segs[k].recs, Len(segs[k].recs))
             after == [segs EXCEPT ![k] = new]
         IN  /\ after \in Seq(Whole) /\ Len(after) = Len(segs) /\ after[k] = new
             /\ SyncedRecords(segs) \subseteq SyncedRecords(after)
<1> DEFINE seg == segs[k]
           new == Seg(seg.base, seg.recs, Len(seg.recs))
<1>1. seg \in Whole
  BY ElementOfSeq
<1>2. /\ seg.base \in Nat /\ seg.base >= 1 /\ seg.synced \in Nat
      /\ seg.recs \in Seq(Payload) /\ seg.recs \in Seq(Item)
      /\ seg.synced <= Len(seg.recs) /\ Len(seg.recs) \in Nat
  BY <1>1 DEF Whole, Segment
<1>3. /\ new \in Whole
      /\ new.base = seg.base /\ new.recs = seg.recs /\ new.synced = Len(seg.recs)
  BY <1>2, SegTypes
<1> HIDE DEF new
<1>4. Keeps(seg, new)
  BY <1>2, <1>3 DEF Keeps
<1>5. LET after == [segs EXCEPT ![k] = new]
      IN  /\ after \in Seq(Whole) /\ Len(after) = Len(segs) /\ after[k] = new
          /\ SyncedRecords(segs) \subseteq SyncedRecords(after)
  BY <1>3, <1>4, ReplaceFile
<1>6. QED
  BY <1>5 DEF new

\* One iteration of Log::sync.
LEMMA SyncStep ==
  ASSUME WalTypes, NEW k \in 1..Len(segments), SyncSegment(k)
  PROVE  WalTypes' /\ SyncedRecords(segments) \subseteq SyncedRecords(segments')
<1>1. mode = "open" /\ op.kind = "none"
  BY DEF SyncSegment, Idle
<1>2. segments \in Seq(Whole) /\ Len(segments) \in Nat /\ Len(segments) >= 1
  BY <1>1, LastFile
<1>3. segments' = [segments EXCEPT ![k] =
                     Seg(segments[k].base, segments[k].recs, Len(segments[k].recs))]
  BY DEF SyncSegment
<1>4. /\ segments' \in Seq(Whole) /\ Len(segments') = Len(segments)
      /\ SyncedRecords(segments) \subseteq SyncedRecords(segments')
  BY <1>2, <1>3, SyncFile
<1>5. segments' # <<>>
  BY <1>2, <1>4, EmptySeq
<1>6. QED
  BY <1>1, <1>4, <1>5 DEF WalTypes, Files, SyncSegment

\* What is fsynced is a payload at an index.
LEMMA SyncedType ==
  ASSUME NEW segs \in Seq(Damaged)
  PROVE  SyncedRecords(segs) \subseteq Nat \X Payload
<1>1. ASSUME NEW k \in 1..Len(segs), NEW j \in 1..segs[k].synced
      PROVE  <<segs[k].base + j - 1, segs[k].recs[j]>> \in Nat \X Payload
  <2>1. segs[k] \in Damaged
    BY ElementOfSeq
  <2>2. segs[k].base \in Nat /\ segs[k].base >= 1 /\ segs[k].synced \in Nat
        /\ segs[k].recs[j] \in Payload
    BY <2>1 DEF Damaged, Segment
  <2>3. segs[k].base + j - 1 \in Nat
    BY <2>2
  <2>4. QED
    BY <2>2, <2>3
<1>2. QED
  BY <1>1, SyncedMembers

\* Log::sync returns: everything is fsynced.
LEMMA SyncReturnsStep ==
  ASSUME WalTypes, SyncReturns
  PROVE  WalTypes' /\ acked' = SyncedRecords(segments)
<1>1. segments \in Seq(Damaged)
  BY FilesDamaged
<1> DEFINE all(k) == {<<segments[k].base + j - 1, segments[k].recs[j]>> :
                        j \in 1..Len(segments[k].recs)}
           synced(k) == {<<segments[k].base + j - 1, segments[k].recs[j]>> :
                           j \in 1..segments[k].synced}
<1>2. \A k \in 1..Len(segments) : all(k) = synced(k)
  BY DEF SyncReturns, AllSynced
<1>3. /\ Records(segments) = UNION {all(k) : k \in 1..Len(segments)}
      /\ SyncedRecords(segments) = UNION {synced(k) : k \in 1..Len(segments)}
  BY DEF Records, SyncedRecords
<1> HIDE DEF all, synced
<1>4. Records(segments) = SyncedRecords(segments)
  BY <1>2, <1>3
<1>5. acked' = SyncedRecords(segments)
  BY <1>4 DEF SyncReturns
<1>6. SyncedRecords(segments) \subseteq Nat \X Payload
  BY <1>1, SyncedType
<1>7. QED
  BY <1>5, <1>6 DEF WalTypes, Files, SyncReturns

\* truncate_prefix and truncate_suffix begin: the caller gives records up.
LEMMA TruncateSteps ==
  ASSUME WalTypes, NEW i \in Nat, TruncatePrefix(i) \/ TruncateSuffix(i)
  PROVE  /\ WalTypes' /\ GivenUp' /\ segments' = segments /\ acked' \subseteq acked
         /\ op.kind = "none" /\ op'.kind \in {"prefix", "suffix"}
<1>1. mode = "open" /\ op.kind = "none" /\ UNCHANGED <<segments, first, last, mode>>
  BY DEF TruncatePrefix, TruncateSuffix, Idle
<1>2. segments \in Seq(Whole) /\ segments # <<>>
  BY <1>1, LastFile
<1>3. <<>> \in Seq(Item) /\ 0 \in Nat
  OBVIOUS
<1>4. /\ op' \in Op /\ op'.kind \in {"prefix", "suffix"} /\ acked' \subseteq acked
      /\ op'.kind = "prefix" => \A r \in acked' : r[1] >= op'.arg
      /\ op'.kind = "suffix" => \A r \in acked' : r[1] <= op'.arg
  <2>1. CASE TruncatePrefix(i)
    <3>1. op' = Doing("prefix", i, 0, <<>>) /\ acked' = {r \in acked : r[1] >= i}
      BY <2>1 DEF TruncatePrefix
    <3>2. op' \in Op /\ op'.kind = "prefix" /\ op'.arg = i
      BY <3>1 DEF Doing, Op
    <3>3. QED
      BY <3>1, <3>2
  <2>2. CASE TruncateSuffix(i)
    <3>1. op' = Doing("suffix", i, 0, <<>>) /\ acked' = {r \in acked : r[1] <= i}
      BY <2>2 DEF TruncateSuffix
    <3>2. op' \in Op /\ op'.kind = "suffix" /\ op'.arg = i
      BY <3>1 DEF Doing, Op
    <3>3. QED
      BY <3>1, <3>2
  <2>3. QED
    BY <2>1, <2>2
<1>5. WalTypes'
  BY <1>1, <1>2, <1>4, OpenTypes DEF WalTypes
<1>6. GivenUp'
  BY <1>4 DEF GivenUp
<1>7. QED
  BY <1>1, <1>4, <1>5, <1>6

\* Without its first file a log lacks only records up to that file's last index.
LEMMA DropFirst ==
  ASSUME NEW segs \in Seq(Whole), Len(segs) > 1
  PROVE  /\ Tail(segs) \in Seq(Whole) /\ Tail(segs) # <<>>
         /\ \A e \in SyncedRecords(segs) :
              e \in SyncedRecords(Tail(segs)) \/ e[1] <= SegmentLast(segs[1])
<1> DEFINE after == Tail(segs)
<1>1. Len(segs) \in Nat /\ segs # <<>>
  BY EmptySeq
<1>2. /\ after \in Seq(Whole) /\ Len(after) = Len(segs) - 1
      /\ \A k \in 1..Len(after) : after[k] = segs[k + 1]
  BY <1>1, HeadTailProperties
<1> HIDE DEF after
<1>3. after # <<>>
  BY <1>1, <1>2, EmptySeq
<1>4. ASSUME NEW k \in 1..Len(segs), NEW j \in 1..segs[k].synced,
             NEW e, e = <<segs[k].base + j - 1, segs[k].recs[j]>>
      PROVE  e \in SyncedRecords(after) \/ e[1] <= SegmentLast(segs[1])
  <2>1. CASE k = 1
    <3>1. segs[1] \in Whole
      BY <2>1, ElementOfSeq
    <3>2. /\ segs[1].base \in Nat /\ segs[1].synced \in Nat
          /\ Len(segs[1].recs) \in Nat /\ segs[1].synced <= Len(segs[1].recs)
      BY <3>1 DEF Whole, Segment
    <3>3. j \in 1..Len(segs[1].recs) /\ e[1] = segs[1].base + j - 1
      BY <1>4, <2>1, <3>2
    <3>4. QED
      BY <3>2, <3>3 DEF SegmentLast
  <2>2. CASE k # 1
    <3>1. k - 1 \in 1..Len(after) /\ (k - 1) + 1 = k
      BY <1>1, <1>2, <2>2
    <3>2. after[k - 1] = segs[k]
      BY <1>2, <3>1
    <3>3. QED
      BY <1>4, <3>1, <3>2, SyncedMembers
  <2>3. QED
    BY <2>1, <2>2
<1>5. QED
  BY <1>2, <1>3, <1>4, SyncedMembers DEF after

\* Without its last file a log lacks only that file's records.
LEMMA DropLast ==
  ASSUME NEW segs \in Seq(Whole), segs # <<>>
  PROVE  /\ Front(segs) \in Seq(Whole) /\ Len(Front(segs)) = Len(segs) - 1
         /\ \A e \in SyncedRecords(segs) :
              \/ e \in SyncedRecords(Front(segs))
              \/ \E j \in 1..Last(segs).synced :
                   e = <<Last(segs).base + j - 1, Last(segs).recs[j]>>
<1> DEFINE after == SubSeq(segs, 1, Len(segs) - 1)
<1>1. Len(segs) \in Nat /\ Len(segs) >= 1
  BY EmptySeq
<1>2. \A k \in 1..(Len(segs) - 1) : segs[k] \in Whole
  BY <1>1, ElementOfSeq
<1>3. /\ after \in Seq(Whole) /\ Len(after) = Len(segs) - 1
      /\ \A k \in 1..Len(after) : after[k] = segs[k]
  <2> DEFINE n == Len(segs) - 1
  <2>1. n \in Int /\ n >= 0 /\ n <= Len(segs)
    BY <1>1
  <2>2. \A i \in 1..n : segs[i] \in Whole
    BY <1>2
  <2> HIDE DEF n
  <2>3. /\ SubSeq(segs, 1, n) \in Seq(Whole)
        /\ Len(SubSeq(segs, 1, n)) = IF 1 <= n THEN n - 1 + 1 ELSE 0
        /\ \A i \in 1..(n - 1 + 1) : SubSeq(segs, 1, n)[i] = segs[1 + i - 1]
    BY <2>1, <2>2, SubSeqProperties
  <2> DEFINE front == SubSeq(segs, 1, n)
  <2> HIDE DEF front
  <2>4. front \in Seq(Whole) /\ Len(front) = n /\ \A i \in 1..n : front[i] = segs[i]
    BY <2>1, <2>3 DEF front
  <2>5. QED
    BY <2>4 DEF n, front
<1>4. Front(segs) = after /\ Last(segs) = segs[Len(segs)]
  BY DEF Front, Last
<1> HIDE DEF after
<1>5. ASSUME NEW k \in 1..Len(segs), NEW j \in 1..segs[k].synced,
             NEW e, e = <<segs[k].base + j - 1, segs[k].recs[j]>>, k # Len(segs)
      PROVE  e \in SyncedRecords(after)
  <2>1. k \in 1..Len(after)
    BY <1>1, <1>3, <1>5
  <2>2. after[k] = segs[k]
    BY <1>3, <2>1
  <2>3. QED
    BY <1>5, <2>1, <2>2, SyncedMembers
<1>6. QED
  BY <1>3, <1>4, <1>5, SyncedMembers

\* One iteration of truncate_prefix's loop.
LEMMA RemoveFirstStep ==
  ASSUME WalTypes, RemoveFirstSegment
  PROVE  WalTypes' /\ (Covered /\ GivenUp => Covered')
<1>1. /\ mode = "open" /\ op.kind = "prefix" /\ segments' = Tail(segments)
      /\ UNCHANGED <<first, last, mode, op, acked>>
      /\ Len(segments) > 1 /\ SegmentLast(segments[1]) < op.arg
  BY DEF RemoveFirstSegment, PrefixRemovable
<1>2. segments \in Seq(Whole) /\ segments[1] \in Whole
  BY <1>1, LastFile
<1>3. /\ segments' \in Seq(Whole) /\ segments' # <<>>
      /\ \A e \in SyncedRecords(segments) :
           e \in SyncedRecords(segments') \/ e[1] <= SegmentLast(segments[1])
  BY <1>1, <1>2, DropFirst
<1>4. WalTypes'
  BY <1>1, <1>3, OpenTypes DEF WalTypes
<1>5. ASSUME Covered, GivenUp, NEW r \in acked
      PROVE  r \in SyncedRecords(segments')
  <2>1. r \in SyncedRecords(segments) /\ r[1] >= op.arg /\ r[1] \in Nat /\ op.arg \in Nat
    BY <1>1, <1>5 DEF Covered, GivenUp, InMemory, WalTypes, Op
  <2>2. SegmentLast(segments[1]) \in Int
    <3>1. segments[1].base \in Nat /\ Len(segments[1].recs) \in Nat
      BY <1>2 DEF Whole, Segment
    <3>2. QED
      BY <3>1 DEF SegmentLast
  <2>3. QED
    BY <1>1, <1>3, <2>1, <2>2
<1>6. QED
  BY <1>1, <1>4, <1>5 DEF Covered

\* truncate_prefix returns.
LEMMA PrefixDoneStep ==
  ASSUME WalTypes, PrefixDone
  PROVE  WalTypes'
<1>1. /\ mode = "open" /\ op.kind = "prefix" /\ op' = NoOp
      /\ first' = segments[1].base /\ UNCHANGED <<segments, last, mode, acked>>
  BY DEF PrefixDone
<1>2. segments \in Seq(Whole) /\ segments # <<>> /\ segments[1] \in Whole
  BY <1>1, LastFile
<1>3. first' \in Nat
  BY <1>1, <1>2 DEF Whole, Segment
<1>4. op' \in Op /\ op'.kind = "none"
  BY <1>1, NoOpType
<1>5. QED
  BY <1>1, <1>2, <1>3, <1>4, OpenTypes DEF WalTypes

\* One iteration of truncate_suffix's loop over whole files.
LEMMA RemoveLastStep ==
  ASSUME WalTypes, RemoveLastSegment
  PROVE  WalTypes' /\ (Covered /\ GivenUp => Covered')
<1>1. /\ mode = "open" /\ op.kind = "suffix" /\ segments' = Front(segments)
      /\ UNCHANGED <<first, last, mode, op, acked>>
      /\ Len(segments) > 1 /\ Last(segments).base > op.arg
  BY DEF RemoveLastSegment, SuffixRemovable
<1>2. segments \in Seq(Whole) /\ segments # <<>> /\ Last(segments) \in Whole
  BY <1>1, LastFile
<1>3. /\ segments' \in Seq(Whole) /\ Len(segments') = Len(segments) - 1
      /\ \A e \in SyncedRecords(segments) :
           \/ e \in SyncedRecords(segments')
           \/ \E j \in 1..Last(segments).synced :
                e = <<Last(segments).base + j - 1, Last(segments).recs[j]>>
  BY <1>1, <1>2, DropLast
<1>4. segments' # <<>>
  <2>1. Len(segments) \in Nat
    BY <1>2
  <2>2. Len(segments') > 0
    BY <1>1, <1>3, <2>1
  <2>3. QED
    BY <2>2, EmptySeq
<1>5. WalTypes'
  BY <1>1, <1>3, <1>4, OpenTypes DEF WalTypes
<1>6. ASSUME Covered, GivenUp, NEW r \in acked
      PROVE  r \in SyncedRecords(segments')
  <2>1. r \in SyncedRecords(segments) /\ r[1] <= op.arg /\ r[1] \in Nat /\ op.arg \in Nat
    BY <1>1, <1>6 DEF Covered, GivenUp, InMemory, WalTypes, Op
  <2>2. Last(segments).base \in Nat /\ Last(segments).synced \in Nat
    BY <1>2 DEF Whole, Segment
  <2>3. ASSUME NEW j \in 1..Last(segments).synced,
               r = <<Last(segments).base + j - 1, Last(segments).recs[j]>>
        PROVE  FALSE
    <3>1. r[1] = Last(segments).base + j - 1 /\ j \in Nat /\ j >= 1
      BY <2>2, <2>3
    <3>2. QED
      BY <1>1, <2>1, <2>2, <3>1
  <2>4. QED
    BY <1>3, <2>1, <2>3
<1>7. QED
  BY <1>1, <1>5, <1>6 DEF Covered

\* The straddling file is removed: what the caller keeps is in memory.
LEMMA RemoveStraddlingStep ==
  ASSUME WalTypes, RemoveStraddling
  PROVE  WalTypes' /\ op'.kind = "removed" /\ (Covered /\ GivenUp => Covered')
<1> DEFINE seg == Last(segments)
           n == op.arg - seg.base + 1
           m == IF n < Len(seg.recs) THEN n ELSE Len(seg.recs)
           kept == SubSeq(seg.recs, 1, m)
<1>1. /\ mode = "open" /\ op.kind = "suffix" /\ segments' = Front(segments)
      /\ op' = Doing("removed", op.arg, seg.base, kept)
      /\ UNCHANGED <<first, last, mode, acked>>
  BY DEF RemoveStraddling, Survivors
<1>2. segments \in Seq(Whole) /\ segments # <<>> /\ seg \in Whole
  BY <1>1, LastFile
<1>3. /\ segments' \in Seq(Whole)
      /\ \A e \in SyncedRecords(segments) :
           \/ e \in SyncedRecords(segments')
           \/ \E j \in 1..seg.synced : e = <<seg.base + j - 1, seg.recs[j]>>
  BY <1>1, <1>2, DropLast
<1> HIDE DEF seg
<1>4. /\ seg.base \in Nat /\ seg.base >= 1 /\ seg.synced \in Nat /\ seg.recs \in Seq(Payload)
      /\ Len(seg.recs) \in Nat /\ seg.synced <= Len(seg.recs)
  BY <1>2 DEF Whole, Segment
<1>5. op.arg \in Nat
  BY DEF WalTypes, Op
<1>6. n \in Int /\ m \in Int /\ m <= Len(seg.recs) /\ m <= n /\ (m = n \/ m = Len(seg.recs))
  BY <1>4, <1>5
<1> HIDE DEF m
<1>7. \A i \in 1..m : seg.recs[i] \in Payload
  BY <1>4, <1>6, ElementOfSeq
<1>8. /\ kept \in Seq(Payload)
      /\ Len(kept) = IF 1 <= m THEN m - 1 + 1 ELSE 0
      /\ \A i \in 1..(m - 1 + 1) : kept[i] = seg.recs[1 + i - 1]
  BY <1>6, <1>7, SubSeqProperties
<1> HIDE DEF kept
<1>9. \A i \in 1..m : i \in 1..Len(kept) /\ kept[i] = seg.recs[i]
  BY <1>6, <1>8
<1>10. kept \in Seq(Item)
  BY <1>8, SeqMonotonic DEF Item
<1>11. /\ op' \in Op /\ op'.kind = "removed"
       /\ op'.base = seg.base /\ op'.survivors = kept
  BY <1>1, <1>4, <1>5, <1>10, DoingType
<1>12. WalTypes'
  BY <1>1, <1>3, <1>4, <1>8, <1>11 DEF WalTypes, Files
<1>13. ASSUME Covered, GivenUp, NEW r \in acked
       PROVE  r \in SyncedRecords(segments') \cup InMemory'
  <2>1. r \in SyncedRecords(segments) /\ r[1] <= op.arg /\ r[1] \in Nat
    BY <1>1, <1>13 DEF Covered, GivenUp, InMemory, WalTypes
  <2>2. ASSUME NEW j \in 1..seg.synced, r = <<seg.base + j - 1, seg.recs[j]>>
        PROVE  r \in InMemory'
    <3>1. r[1] = seg.base + j - 1 /\ j \in Nat /\ j >= 1 /\ j <= seg.synced
      BY <1>4, <2>2
    <3>2. j \in 1..m
      BY <1>4, <1>5, <1>6, <2>1, <3>1
    <3>3. r = <<seg.base + j - 1, kept[j]>> /\ j \in 1..Len(kept)
      BY <1>9, <2>2, <3>2
    <3>4. InMemory' = {<<seg.base + i - 1, kept[i]>> : i \in 1..Len(kept)}
      BY <1>11 DEF InMemory
    <3>5. QED
      BY <3>3, <3>4
  <2>3. QED
    BY <1>3, <2>1, <2>2
<1>14. QED
  BY <1>1, <1>11, <1>12, <1>13 DEF Covered

\* The straddling file is created again, with the survivors buffered.
LEMMA RewriteStep ==
  ASSUME WalTypes, RewriteStraddling
  PROVE  WalTypes' /\ Rewritten' /\ op'.kind = "rewritten" /\ (Covered => Covered')
<1> DEFINE new == Seg(op.base, op.survivors, 0)
<1>1. /\ mode = "open" /\ op.kind = "removed"
      /\ segments' = Append(segments, new)
      /\ op' = Doing("rewritten", op.arg, op.base, op.survivors)
      /\ UNCHANGED <<first, last, mode, acked>>
  BY DEF RewriteStraddling, NewSegment
<1>2. segments \in Seq(Whole)
  BY <1>1, FilesDamaged
<1>3. /\ op.arg \in Nat /\ op.base \in Nat /\ op.base >= 1
      /\ op.survivors \in Seq(Item) /\ op.survivors \in Seq(Payload)
      /\ 0 \in Nat /\ 0 <= Len(op.survivors)
  BY <1>1 DEF WalTypes, Op
<1>4. new \in Whole /\ new.base = op.base /\ new.recs = op.survivors
  BY <1>3, SegTypes
<1> HIDE DEF new
<1>5. /\ segments' \in Seq(Whole) /\ segments' # <<>>
      /\ SyncedRecords(segments) \subseteq SyncedRecords(segments')
  BY <1>1, <1>2, <1>4, AppendFile
<1>6. Last(segments') = new
  BY <1>1, <1>2, <1>4, AppendFile
<1>7. /\ op' \in Op /\ op'.kind = "rewritten"
      /\ op'.base = op.base /\ op'.survivors = op.survivors
  BY <1>1, <1>3, DoingType
<1>8. WalTypes'
  BY <1>1, <1>5, <1>7, OpenTypes DEF WalTypes
<1>9. Rewritten'
  BY <1>4, <1>6, <1>7 DEF Rewritten
<1>10. InMemory' = InMemory
  BY <1>1, <1>7 DEF InMemory
<1>11. QED
  BY <1>1, <1>5, <1>7, <1>8, <1>9, <1>10 DEF Covered

\* truncate_suffix returns: the survivors are fsynced.
LEMMA SuffixDoneStep ==
  ASSUME WalTypes, SuffixDone
  PROVE  WalTypes' /\ op'.kind = "none" /\ (Covered /\ Rewritten => Covered')
<1> DEFINE n == Len(segments)
           seg == segments[n]
           new == Seg(seg.base, seg.recs, Len(seg.recs))
<1>1. /\ mode = "open" /\ op.kind = "rewritten"
      /\ segments' = [segments EXCEPT ![n] = new]
      /\ last' = op.arg /\ op' = NoOp /\ UNCHANGED <<first, mode, acked>>
  BY DEF SuffixDone
<1>2. /\ segments \in Seq(Whole) /\ n \in Nat /\ n >= 1
      /\ Last(segments) = seg /\ seg \in Whole
  BY <1>1, LastFile
<1>3. n \in 1..n
  BY <1>2
<1>4. /\ segments' \in Seq(Whole) /\ Len(segments') = n /\ segments'[n] = new
      /\ SyncedRecords(segments) \subseteq SyncedRecords(segments')
  BY <1>1, <1>2, <1>3, SyncFile
<1>5. segments' # <<>>
  BY <1>2, <1>4, EmptySeq
<1>6. last' \in Nat /\ op' \in Op /\ op'.kind = "none"
  BY <1>1, NoOpType DEF WalTypes, Op
<1>7. WalTypes'
  BY <1>1, <1>4, <1>5, <1>6, OpenTypes DEF WalTypes
<1>8. ASSUME Rewritten
      PROVE  InMemory \subseteq SyncedRecords(segments')
  <2>1. new.base = seg.base /\ new.recs = seg.recs /\ new.synced = Len(seg.recs)
    BY DEF Seg
  <2>2. seg.base = op.base /\ seg.recs = op.survivors
    BY <1>1, <1>2, <1>8 DEF Rewritten
  <2>3. ASSUME NEW j \in 1..Len(op.survivors)
        PROVE  <<op.base + j - 1, op.survivors[j]>> \in SyncedRecords(segments')
    <3>1. n \in 1..Len(segments') /\ j \in 1..segments'[n].synced
      BY <1>3, <1>4, <2>1, <2>2
    <3>2. segments'[n].base = op.base /\ segments'[n].recs = op.survivors
      BY <1>4, <2>1, <2>2
    <3>3. QED
      BY <3>1, <3>2, SyncedMembers
  <2>4. QED
    BY <1>1, <2>3 DEF InMemory
<1>9. QED
  BY <1>1, <1>4, <1>6, <1>7, <1>8 DEF Covered

\* A crash damages files, but not their fsynced records.
LEMMA CrashStep ==
  ASSUME WalTypes, Crash
  PROVE  /\ WalTypes' /\ op'.kind = "none"
         /\ SyncedRecords(segments) \subseteq SyncedRecords(segments')
<1>1. /\ mode = "open" /\ mode' = "down" /\ op' = NoOp /\ UNCHANGED <<first, last, acked>>
  BY DEF Crash
<1>2. segments \in Seq(Whole) /\ segments \in Seq(Damaged)
  BY <1>1, FilesDamaged
<1> DEFINE n == Len(segments)
<1>3. n \in Nat
  BY <1>2
<1>4. PICK image : /\ \A k \in 1..n : image[k] \in Images(segments[k])
                   /\ segments' = [k \in 1..n |->
                                     Seg(segments[k].base, image[k], segments[k].synced)]
  BY DEF Crash
<1> DEFINE s(k) == Seg(segments[k].base, image[k], segments[k].synced)
<1>5. ASSUME NEW k \in 1..n
      PROVE  s(k) \in Damaged /\ Keeps(segments[k], s(k))
  <2>1. segments[k] \in Whole
    BY <1>2, ElementOfSeq
  <2>2. QED
    BY <1>4, <2>1, ImagesKeep
<1>6. segments' = [k \in 1..n |-> s(k)]
  BY <1>4
<1> HIDE DEF s
<1>7. segments' \in [1..n -> Damaged] /\ \A k \in 1..n : segments'[k] = s(k)
  BY <1>5, <1>6
<1> HIDE DEF n
<1>8. segments' \in Seq(Damaged) /\ Len(segments') = n
  BY <1>3, <1>7, FunctionIsSeq
<1>9. SyncedRecords(segments) \subseteq SyncedRecords(segments')
  <2>1. Len(segments) <= Len(segments') /\ n = Len(segments)
    BY <1>3, <1>8 DEF n
  <2>2. QED
    BY <1>2, <1>5, <1>7, <1>8, <2>1, SyncedKept
<1>10. op' \in Op /\ op'.kind = "none"
  BY <1>1, NoOpType
<1>11. WalTypes'
  BY <1>1, <1>8, <1>10 DEF WalTypes, Files
<1>12. QED
  BY <1>9, <1>10, <1>11

\* The file of an empty log.
LEMMA FirstFile == <<NewSegment(1, <<>>)>> \in Seq(Whole) /\ <<NewSegment(1, <<>>)>> # <<>>
<1> DEFINE none == <<>>
           new == Seg(1, none, 0)
<1>1. /\ 1 \in Nat /\ 1 >= 1 /\ 0 \in Nat /\ 0 <= Len(none)
      /\ none \in Seq(Payload) /\ none \in Seq(Item)
  OBVIOUS
<1>2. new = NewSegment(1, <<>>)
  BY DEF NewSegment
<1> HIDE DEF none
<1>3. new \in Whole
  BY <1>1, SegTypes
<1> HIDE DEF new
<1>4. <<new>> \in Seq(Whole) /\ Len(<<new>>) = 1
  BY <1>3
<1>5. <<new>> # <<>>
  BY <1>4, EmptySeq
<1>6. QED
  BY <1>2, <1>4, <1>5

\* The files once those in R have been recovered.
RecoverIn(segs, R) ==
  [k \in 1..Len(segs) |-> IF k \in R THEN Recover(segs[k]) ELSE segs[k]]

\* Recovering some of the files, or all of them, loses nothing fsynced.
LEMMA RecoverFiles ==
  ASSUME NEW segs \in Seq(Damaged), NEW R \in SUBSET (1..Len(segs)),
         NEW after, after = RecoverIn(segs, R)
  PROVE  /\ after \in Seq(Damaged) /\ Len(after) = Len(segs)
         /\ R = 1..Len(segs) => after \in Seq(Whole)
         /\ SyncedRecords(segs) \subseteq SyncedRecords(after)
<1> DEFINE n == Len(segs)
           new(k) == IF k \in R THEN Recover(segs[k]) ELSE segs[k]
<1>1. n \in Nat
  OBVIOUS
<1>2. ASSUME NEW k \in 1..n
      PROVE  /\ new(k) \in Damaged /\ Keeps(segs[k], new(k))
             /\ k \in R => new(k) \in Whole
  <2>1. segs[k] \in Damaged
    BY ElementOfSeq
  <2>2. Recover(segs[k]) \in Whole /\ Keeps(segs[k], Recover(segs[k]))
    BY <2>1, RecoverKeeps
  <2>3. Recover(segs[k]) \in Damaged /\ Keeps(segs[k], segs[k])
    BY <2>1, <2>2, WholeInDamaged, KeepsItself
  <2>4. QED
    BY <2>1, <2>2, <2>3
<1>3. after = [k \in 1..n |-> new(k)]
  BY DEF RecoverIn
<1> HIDE DEF new
<1>4. /\ after \in [1..n -> Damaged] /\ \A k \in 1..n : after[k] = new(k)
      /\ R = 1..n => after \in [1..n -> Whole]
  BY <1>2, <1>3
<1>5. after \in Seq(Damaged) /\ Len(after) = n
  BY <1>1, <1>4, FunctionIsSeq
<1>6. R = 1..n => after \in Seq(Whole)
  BY <1>1, <1>4, FunctionIsSeq
<1>7. SyncedRecords(segs) \subseteq SyncedRecords(after)
  <2>1. Len(segs) <= Len(after)
    BY <1>1, <1>5
  <2>2. QED
    BY <1>2, <1>4, <1>5, <2>1, SyncedKept
<1>8. QED
  BY <1>5, <1>6, <1>7

\* Log::open recovers every file, or creates the first one.
LEMMA OpenStep ==
  ASSUME WalTypes, Open
  PROVE  /\ WalTypes' /\ op' = op /\ op.kind = "none"
         /\ SyncedRecords(segments) \subseteq SyncedRecords(segments')
<1>1. mode = "down" /\ mode' = "open" /\ UNCHANGED <<op, acked>>
  BY DEF Open
<1>2. op = NoOp /\ op \in Op /\ op.kind = "none" /\ segments \in Seq(Damaged)
  BY <1>1, NoOpType, FilesDamaged DEF WalTypes
<1>3. /\ segments' \in Seq(Whole) /\ segments' # <<>>
      /\ SyncedRecords(segments) \subseteq SyncedRecords(segments')
  <2>1. CASE segments = <<>>
    <3>1. segments' = <<NewSegment(1, <<>>)>>
      BY <2>1 DEF Open
    <3>2. segments' \in Seq(Whole) /\ segments' # <<>>
      BY <3>1, FirstFile
    <3>3. SyncedRecords(segments) = {}
      BY <2>1, SyncedMembers
    <3>4. QED
      BY <3>2, <3>3
  <2>2. CASE segments # <<>>
    <3> DEFINE R == 1..Len(segments)
    <3>1. segments' = RecoverIn(segments, R)
      BY <2>2 DEF Open, RecoverIn
    <3>2. R \in SUBSET (1..Len(segments)) /\ R = 1..Len(segments)
      OBVIOUS
    <3> HIDE DEF R
    <3>3. /\ segments' \in Seq(Whole) /\ Len(segments') = Len(segments)
          /\ SyncedRecords(segments) \subseteq SyncedRecords(segments')
      BY <1>2, <3>1, <3>2, RecoverFiles
    <3>4. QED
      BY <1>2, <2>2, <3>3, EmptySeq
  <2>3. QED
    BY <2>1, <2>2
<1>4. first' \in Nat /\ last' \in Nat
  <2>1. Len(segments') \in Nat /\ Len(segments') >= 1
    BY <1>3, EmptySeq
  <2>2. 1 \in 1..Len(segments') /\ Len(segments') \in 1..Len(segments')
    BY <2>1
  <2>3. segments'[1] \in Whole /\ segments'[Len(segments')] \in Whole
    BY <1>3, <2>2, ElementOfSeq
  <2> DEFINE seg == segments'[Len(segments')]
  <2>4. first' = segments'[1].base /\ last' = seg.base + Len(seg.recs) - 1
    BY DEF Open, Last
  <2>5. segments'[1].base \in Nat
    BY <2>3 DEF Whole, Segment
  <2>6. seg.base \in Nat /\ seg.base >= 1 /\ Len(seg.recs) \in Nat
    BY <2>3 DEF Whole, Segment
  <2> HIDE DEF seg
  <2>7. QED
    BY <2>4, <2>5, <2>6
<1>5. op' \in Op /\ op'.kind # "removed" /\ acked' \in SUBSET (Nat \X Payload)
  BY <1>1, <1>2 DEF WalTypes
<1>6. WalTypes'
  BY <1>1, <1>3, <1>4, <1>5, OpenTypes
<1>7. QED
  BY <1>1, <1>2, <1>3, <1>6

\* Log::open fails at file k, having recovered the files before it.
LEMMA RefusedStep ==
  ASSUME WalTypes, NEW k \in 1..Len(segments), OpenRefused(k)
  PROVE  /\ WalTypes' /\ op' = op /\ op.kind = "none"
         /\ SyncedRecords(segments) \subseteq SyncedRecords(segments')
<1>1. mode = "down" /\ mode' = "refused" /\ UNCHANGED <<first, last, op, acked>>
  BY DEF OpenRefused
<1>2. op = NoOp /\ op \in Op /\ op.kind = "none" /\ segments \in Seq(Damaged)
  BY <1>1, NoOpType, FilesDamaged DEF WalTypes
<1> DEFINE R == {j \in 1..Len(segments) : j < k}
<1>3. segments' = RecoverIn(segments, R)
  BY DEF OpenRefused, RecoverIn
<1>4. R \in SUBSET (1..Len(segments))
  OBVIOUS
<1> HIDE DEF R
<1>5. /\ segments' \in Seq(Damaged)
      /\ SyncedRecords(segments) \subseteq SyncedRecords(segments')
  BY <1>2, <1>3, <1>4, RecoverFiles
<1>6. WalTypes'
  BY <1>1, <1>2, <1>5 DEF WalTypes, Files
<1>7. QED
  BY <1>1, <1>2, <1>5, <1>6

-----------------------------------------------------------------------------
(* Theorems.                                                               *)

\* An empty data directory gives an open log of one empty file.
LEMMA WalTypesInit == Init => WalTypes
<1> SUFFICES ASSUME Init PROVE WalTypes
  OBVIOUS
<1>1. segments \in Seq(Whole) /\ segments # <<>>
  BY FirstFile DEF Init
<1>2. op \in Op /\ op.kind = "none"
  BY NoOpType DEF Init
<1>3. QED
  BY <1>1, <1>2 DEF Init, WalTypes, Files

\* Every step keeps the types.
LEMMA WalTypesStep == WalTypes /\ [Next]_vars => WalTypes'
<1> SUFFICES ASSUME WalTypes, [Next]_vars
             PROVE  WalTypes'
  OBVIOUS
<1>1. ASSUME NEW p \in Payload, AppendRecord(p) PROVE WalTypes'
  BY <1>1, AppendStep
<1>2. ASSUME NEW k \in 1..Len(segments), SyncSegment(k) PROVE WalTypes'
  BY <1>2, SyncStep
<1>3. CASE SyncReturns
  BY <1>3, SyncReturnsStep
<1>4. ASSUME NEW i \in 1..(MaxIndex + 1), TruncatePrefix(i) PROVE WalTypes'
  <2>1. i \in Nat
    BY BoundAssumption
  <2>2. QED
    BY <1>4, <2>1, TruncateSteps
<1>5. ASSUME NEW i \in 0..MaxIndex, TruncateSuffix(i) PROVE WalTypes'
  <2>1. i \in Nat
    BY BoundAssumption
  <2>2. QED
    BY <1>5, <2>1, TruncateSteps
<1>6. CASE RemoveFirstSegment
  BY <1>6, RemoveFirstStep
<1>7. CASE PrefixDone
  BY <1>7, PrefixDoneStep
<1>8. CASE RemoveLastSegment
  BY <1>8, RemoveLastStep
<1>9. CASE RemoveStraddling
  BY <1>9, RemoveStraddlingStep
<1>10. CASE RewriteStraddling
  BY <1>10, RewriteStep
<1>11. CASE SuffixDone
  BY <1>11, SuffixDoneStep
<1>12. CASE Crash
  BY <1>12, CrashStep
<1>13. CASE Open
  BY <1>13, OpenStep
<1>14. ASSUME NEW k \in 1..Len(segments), OpenRefused(k) PROVE WalTypes'
  BY <1>14, RefusedStep
<1>15. CASE UNCHANGED vars
  BY <1>15 DEF WalTypes, Files, vars
<1>16. QED
  BY <1>1, <1>2, <1>3, <1>4, <1>5, <1>6, <1>7, <1>8, <1>9, <1>10, <1>11, <1>12, <1>13,
     <1>14, <1>15 DEF Next

\* A crash adds to the harm, and nothing takes away from it.
LEMMA HarmGrows ==
  ASSUME [Next]_vars
  PROVE  harm \subseteq harm' /\ harm' \subseteq harm \cup Harm
<1>1. CASE Crash
  BY <1>1 DEF Crash, HarmOf, Harm
<1>2. CASE ~Crash
  BY <1>2 DEF Next, vars, AppendRecord, SyncSegment, SyncReturns, TruncatePrefix,
       RemoveFirstSegment, PrefixDone, TruncateSuffix, RemoveLastSegment, RemoveStraddling,
       RewriteStraddling, SuffixDone, Open, OpenRefused
<1>3. QED
  BY <1>1, <1>2

\* TypeOK for every set of payloads, every bound and every kind of crash: an
\* open log's files hold whole records only, as SegmentIter::next expects
\* (segment.rs:178).
THEOREM WalTypeCorrect == Spec => []TypeOK
<1> DEFINE Typed == WalTypes /\ harm \in SUBSET Harm
<1>1. Init => Typed
  BY WalTypesInit DEF Init
<1>2. Typed /\ [Next]_vars => Typed'
  BY WalTypesStep, HarmGrows
<1>3. Typed => TypeOK
  BY WalTypesOK
<1> HIDE DEF Typed
<1>4. QED
  BY <1>1, <1>2, <1>3, PTL DEF Spec

\* Every step keeps what was acknowledged, if no crash hits the rewrite.
LEMMA DurableStep ==
  ASSUME DurableInv, [Next]_vars
  PROVE  DurableInv'
<1>1. WalTypes /\ GivenUp /\ Rewritten /\ ("rewrite" \notin harm => Covered)
  BY DEF DurableInv
<1>2. WalTypes' /\ harm \subseteq harm'
  BY <1>1, WalTypesStep, HarmGrows
<1> DEFINE Good == GivenUp' /\ Rewritten' /\ ("rewrite" \notin harm' => Covered')
<1> SUFFICES Good
  BY <1>2 DEF DurableInv
<1>3. ASSUME SyncedRecords(segments) \subseteq SyncedRecords(segments'),
             acked' \subseteq acked, op.kind \notin {"removed", "rewritten"}
      PROVE  "rewrite" \notin harm' => Covered'
  BY <1>1, <1>2, <1>3 DEF Covered, InMemory
<1>4. ASSUME op'.kind = "none"
      PROVE  GivenUp' /\ Rewritten'
  BY <1>4 DEF GivenUp, Rewritten
<1>5. ASSUME NEW p \in Payload, AppendRecord(p)
      PROVE  Good
  <2>1. op.kind = "none" /\ op' = op /\ acked' = acked
    BY <1>5 DEF AppendRecord, Idle
  <2>2. QED
    BY <1>1, <1>3, <1>4, <1>5, <2>1, AppendStep
<1>6. ASSUME NEW k \in 1..Len(segments), SyncSegment(k)
      PROVE  Good
  <2>1. op.kind = "none" /\ op' = op /\ acked' = acked
    BY <1>6 DEF SyncSegment, Idle
  <2>2. QED
    BY <1>1, <1>3, <1>4, <1>6, <2>1, SyncStep
<1>7. CASE SyncReturns
  <2>1. op'.kind = "none" /\ segments' = segments
    BY <1>7 DEF SyncReturns, Idle
  <2>2. acked' = SyncedRecords(segments')
    BY <1>1, <1>7, <2>1, SyncReturnsStep
  <2>3. QED
    BY <1>4, <2>1, <2>2 DEF Covered
<1>8. ASSUME NEW i \in Nat, TruncatePrefix(i) \/ TruncateSuffix(i)
      PROVE  Good
  <2>1. /\ GivenUp' /\ segments' = segments /\ acked' \subseteq acked
        /\ op.kind = "none" /\ op'.kind \in {"prefix", "suffix"}
    BY <1>1, <1>8, TruncateSteps
  <2>2. QED
    BY <1>3, <2>1 DEF Rewritten
<1>9. CASE RemoveFirstSegment
  <2>1. op' = op /\ acked' = acked /\ harm' = harm /\ op.kind = "prefix"
    BY <1>9 DEF RemoveFirstSegment
  <2>2. QED
    BY <1>1, <1>9, <2>1, RemoveFirstStep DEF GivenUp, Rewritten
<1>10. CASE PrefixDone
  <2>1. /\ segments' = segments /\ acked' = acked /\ op.kind = "prefix" /\ op'.kind = "none"
    BY <1>10, NoOpType DEF PrefixDone
  <2>2. QED
    BY <1>3, <1>4, <2>1
<1>11. CASE RemoveLastSegment
  <2>1. op' = op /\ acked' = acked /\ harm' = harm /\ op.kind = "suffix"
    BY <1>11 DEF RemoveLastSegment
  <2>2. QED
    BY <1>1, <1>11, <2>1, RemoveLastStep DEF GivenUp, Rewritten
<1>12. CASE RemoveStraddling
  <2>1. harm' = harm
    BY <1>12 DEF RemoveStraddling
  <2>2. QED
    BY <1>1, <1>12, <2>1, RemoveStraddlingStep DEF GivenUp, Rewritten
<1>13. CASE RewriteStraddling
  <2>1. harm' = harm
    BY <1>13 DEF RewriteStraddling
  <2>2. QED
    BY <1>1, <1>13, <2>1, RewriteStep DEF GivenUp
<1>14. CASE SuffixDone
  <2>1. harm' = harm
    BY <1>14 DEF SuffixDone
  <2>2. QED
    BY <1>1, <1>4, <1>14, <2>1, SuffixDoneStep
<1>15. CASE Crash
  <2>1. /\ op.kind \in {"removed", "rewritten"} => "rewrite" \in harm'
        /\ acked' = acked
    BY <1>15 DEF Crash, HarmOf
  <2>2. QED
    BY <1>1, <1>3, <1>4, <1>15, <2>1, CrashStep
<1>16. CASE Open
  <2>1. acked' = acked
    BY <1>16 DEF Open
  <2>2. QED
    BY <1>1, <1>3, <1>4, <1>16, <2>1, OpenStep
<1>17. ASSUME NEW k \in 1..Len(segments), OpenRefused(k)
       PROVE  Good
  <2>1. acked' = acked
    BY <1>17 DEF OpenRefused
  <2>2. QED
    BY <1>1, <1>3, <1>4, <1>17, <2>1, RefusedStep
<1>18. CASE UNCHANGED vars
  BY <1>1, <1>18 DEF vars, Covered, GivenUp, Rewritten, InMemory
<1>19. (\A i \in 1..(MaxIndex + 1) : i \in Nat) /\ (\A i \in 0..MaxIndex : i \in Nat)
  BY BoundAssumption
<1> HIDE DEF Good
<1>20. QED
  BY <1>5, <1>6, <1>7, <1>8, <1>9, <1>10, <1>11, <1>12, <1>13, <1>14, <1>15, <1>16, <1>17,
     <1>18, <1>19 DEF Next

\* Durability, for every set of payloads, every bound, and whatever a crash
\* does to records that were not fsynced: what Log::sync acknowledged and the
\* caller did not drop stays fsynced at its index, until a crash falls between
\* truncate_suffix's removal of the straddling file and the fsync of its
\* replacement (log.rs:171-176).
THEOREM AckedRecordsSurvive == Spec => []AckedSurvives
<1>1. Init => DurableInv
  <2> SUFFICES ASSUME Init PROVE DurableInv
    OBVIOUS
  <2>1. WalTypes /\ op.kind = "none" /\ acked = {}
    BY WalTypesInit, NoOpType DEF Init
  <2>2. QED
    BY <2>1 DEF DurableInv, Covered, GivenUp, Rewritten
<1>2. DurableInv /\ [Next]_vars => DurableInv'
  BY DurableStep
<1>3. DurableInv => AckedSurvives
  BY DEF DurableInv, Covered, InMemory, AckedSurvives
<1>4. QED
  BY <1>1, <1>2, <1>3, PTL DEF Spec
=============================================================================
