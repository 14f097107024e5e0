-------------------------- MODULE WalStreamProofs --------------------------
(***************************************************************************)
(* More theorems about Wal, for every set of payloads and every bound:     *)
(* what open() refuses, what recovery leaves where it was, and that the    *)
(* files form one stream.                                                  *)
(***************************************************************************)
EXTENDS WalProofs

-----------------------------------------------------------------------------
(* What open() refuses.                                                    *)

\* Only the last record of a file may be bad.
TailOnly(recs) == \A j \in 1..(Len(recs) - 1) : recs[j] \in Payload

\* A file written front to back is bad at its end at most.
LEMMA OrderedTail ==
  ASSUME NEW seg \in Whole, NEW image \in OrderedImages(seg)
  PROVE  TailOnly(image)
<1> DEFINE N == Len(seg.recs)
           Cut(n) == SubSeq(seg.recs, 1, n)
<1>1. seg.synced \in Nat /\ seg.synced <= N /\ seg.recs \in Seq(Payload) /\ N \in Nat
  BY DEF Whole, Segment
<1>2. ASSUME NEW n \in seg.synced..N
      PROVE  Cut(n) \in Seq(Payload) /\ Len(Cut(n)) = n /\ \A j \in 1..n : Cut(n)[j] \in Payload
  <2>1. n \in Nat /\ n <= N
    BY <1>1
  <2>2. QED
    BY <1>1, <2>1, SubSeqProperties
<1>3. \/ \E n \in seg.synced..N : image = Cut(n)
      \/ \E n \in seg.synced..(N - 1) : \E bad \in {Torn, Corrupt} : image = Append(Cut(n), bad)
  BY Zenon DEF OrderedImages
<1> HIDE DEF Cut
<1>4. ASSUME NEW n \in seg.synced..N, image = Cut(n)
      PROVE  TailOnly(image)
  BY <1>1, <1>2, <1>4 DEF TailOnly
<1>5. ASSUME NEW n \in seg.synced..(N - 1), NEW bad, image = Append(Cut(n), bad)
      PROVE  TailOnly(image)
  <2>1. n \in seg.synced..N /\ n \in Nat
    BY <1>1
  <2>2. Len(image) = n + 1 /\ \A j \in 1..n : image[j] = Cut(n)[j]
    BY <1>2, <1>5, <2>1
  <2>3. QED
    BY <1>2, <2>1, <2>2 DEF TailOnly
<1>6. QED
  BY <1>3, <1>4, <1>5

\* A file that is bad at its end at most is recovered.
LEMMA TailRecovered ==
  ASSUME NEW recs, Len(recs) \in Nat, TailOnly(recs)
  PROVE  ~InteriorCorruption(recs)
<1> DEFINE n == GoodLength(recs)
<1>1. n \in 0..Len(recs) /\ (n < Len(recs) => recs[n + 1] \notin Payload)
  BY GoodLengthExists
<1> HIDE DEF n
<1>2. ~(n + 1 < Len(recs))
  BY <1>1 DEF TailOnly
<1>3. QED
  BY <1>2 DEF InteriorCorruption, n

\* As long as nothing was written back out of order, files are bad at their
\* ends at most.
RefusedInv ==
  /\ WalTypes
  /\ "reorder" \notin harm =>
       /\ mode # "refused"
       /\ mode = "down" => \A k \in 1..Len(segments) : TailOnly(segments[k].recs)

\* A crash that writes pages back in order leaves files that are bad at their
\* ends at most.
LEMMA CrashTails ==
  ASSUME WalTypes, Crash, "reorder" \notin harm'
  PROVE  \A k \in 1..Len(segments') : TailOnly(segments'[k].recs)
<1>1. segments \in Seq(Whole)
  BY FilesDamaged DEF Crash
<1>2. PICK image :
        /\ segments' = [k \in 1..Len(segments) |->
                          Seg(segments[k].base, image[k], segments[k].synced)]
        /\ harm' = harm \cup HarmOf(image)
  BY DEF Crash
<1>3. \A k \in 1..Len(segments) : image[k] \in OrderedImages(segments[k])
  BY <1>2 DEF HarmOf
<1>4. \A k \in 1..Len(segments) : segments[k] \in Whole
  BY <1>1, ElementOfSeq
<1>5. \A k \in 1..Len(segments) : TailOnly(image[k])
  BY <1>3, <1>4, OrderedTail
<1>6. Len(segments) \in Nat
  BY <1>1
<1>7. Len(segments') = Len(segments)
  BY <1>2, <1>6
<1>8. \A k \in 1..Len(segments) : segments'[k].recs = image[k]
  BY <1>2 DEF Seg
<1>9. QED
  BY <1>5, <1>7, <1>8

\* Every step of the log keeps RefusedInv.
LEMMA RefusedStepInv == RefusedInv /\ [Next]_vars => RefusedInv'
<1> SUFFICES ASSUME RefusedInv, [Next]_vars, "reorder" \notin harm'
             PROVE  /\ mode' # "refused"
                    /\ mode' = "down" => \A k \in 1..Len(segments') : TailOnly(segments'[k].recs)
  BY WalTypesStep DEF RefusedInv
<1>1. /\ WalTypes /\ "reorder" \notin harm /\ mode # "refused"
      /\ mode = "down" => \A k \in 1..Len(segments) : TailOnly(segments[k].recs)
  BY HarmGrows DEF RefusedInv
<1>2. CASE Crash
  BY <1>1, <1>2, CrashTails DEF Crash
<1>3. ASSUME NEW k \in 1..Len(segments), OpenRefused(k)
      PROVE  FALSE
  <2>1. TailOnly(segments[k].recs) /\ segments \in Seq(Damaged)
    BY <1>1, <1>3, FilesDamaged DEF OpenRefused
  <2>2. segments[k] \in Damaged
    BY <2>1, ElementOfSeq
  <2>3. Len(segments[k].recs) \in Nat
    BY <2>2 DEF Damaged, Segment
  <2>4. QED
    BY <1>3, <2>1, <2>3, TailRecovered DEF OpenRefused
<1>4. CASE mode' = "open"
  BY <1>4
<1>5. CASE UNCHANGED <<segments, mode>>
  BY <1>1, <1>5
<1>6. CASE mode' = mode /\ mode = "open"
  BY <1>6
<1>7. QED
  BY <1>2, <1>3, <1>4, <1>5, <1>6 DEF Next, vars, Idle, AppendRecord, SyncSegment,
     SyncReturns, TruncatePrefix, RemoveFirstSegment, PrefixDone, TruncateSuffix,
     RemoveLastSegment, RemoveStraddling, RewriteStraddling, SuffixDone, Open

\* Log::open returns Error::Corruption after a crash only if unsynced pages of a
\* file were written back out of order.
THEOREM OpenNeverRefused == Spec => []NeverRefused
<1>1. Init => RefusedInv
  BY WalTypesInit DEF Init, RefusedInv
<1>2. RefusedInv => NeverRefused
  BY DEF RefusedInv, NeverRefused
<1>3. QED
  BY <1>1, <1>2, RefusedStepInv, PTL DEF Spec

-----------------------------------------------------------------------------
(* Recovery in place.                                                      *)

\* Segment::recover keeps the base and a prefix of what it finds.
LEMMA RecoverPrefix ==
  ASSUME NEW seg \in Damaged
  PROVE  /\ Recover(seg).base = seg.base
         /\ IsPrefix(Recover(seg).recs, seg.recs) /\ IsPrefix(seg.recs, seg.recs)
<1> DEFINE n == GoodLength(seg.recs)
           good == SubSeq(seg.recs, 1, n)
<1>1. seg.recs \in Seq(Item) /\ Len(seg.recs) \in Nat
  BY DEF Damaged, Segment
<1>2. n \in 0..Len(seg.recs)
  BY <1>1, GoodLengthExists
<1>3. Recover(seg).base = seg.base /\ Recover(seg).recs = good
  BY DEF Recover, Seg
<1> HIDE DEF n
<1>4. good \in Seq(Item) /\ Len(good) = n /\ \A j \in 1..n : good[j] = seg.recs[j]
  BY <1>1, <1>2, SubSeqProperties
<1>5. SubSeq(good, 1, n) = good
  BY <1>2, <1>4
<1>6. Len(good) <= Len(seg.recs)
  BY <1>1, <1>2, <1>4
<1>7. IsPrefix(good, seg.recs)
  BY <1>4, <1>5, <1>6 DEF IsPrefix
<1>8. IsPrefix(seg.recs, seg.recs)
  BY <1>1 DEF IsPrefix
<1>9. QED
  BY <1>3, <1>7, <1>8

\* Log::open never moves a record to another index and never adds one, whatever
\* the crash left, and whether it succeeds or not.
THEOREM RecoveryInPlace == Spec => RecoveryKeepsPositions
<1> DEFINE Kept == mode = "down" /\ segments # <<>> =>
                     \A k \in 1..Len(segments) :
                       /\ segments'[k].base = segments[k].base
                       /\ IsPrefix(segments'[k].recs, segments[k].recs)
<1>1. WalTypes /\ [Next]_vars => [Kept]_vars
  <2> SUFFICES ASSUME WalTypes, [Next]_vars, mode = "down", segments # <<>>,
                      ~UNCHANGED vars, NEW k \in 1..Len(segments)
               PROVE  /\ segments'[k].base = segments[k].base
                      /\ IsPrefix(segments'[k].recs, segments[k].recs)
    OBVIOUS
  <2>1. segments[k] \in Damaged
    BY FilesDamaged, ElementOfSeq
  <2>2. Open \/ \E i \in 1..Len(segments) : OpenRefused(i)
    BY DEF Next, Idle, AppendRecord, SyncSegment, SyncReturns, TruncatePrefix,
       RemoveFirstSegment, PrefixDone, TruncateSuffix, RemoveLastSegment, RemoveStraddling,
       RewriteStraddling, SuffixDone, Crash
  <2>3. segments'[k] = Recover(segments[k]) \/ segments'[k] = segments[k]
    BY <2>2 DEF Open, OpenRefused
  <2>4. QED
    BY <2>1, <2>3, RecoverPrefix
<1> HIDE DEF Kept
<1>2. (Spec => RecoveryKeepsPositions) <=> (Spec => [][Kept]_vars)
  BY DEF RecoveryKeepsPositions, Kept
<1>3. QED
  BY <1>1, <1>2, WalTypesInit, WalTypesStep, PTL DEF Spec

-----------------------------------------------------------------------------
(* One stream: sequences of files that join up.                            *)

Joined(segs) ==
  \A k \in 1..(Len(segs) - 1) : segs[k + 1].base = segs[k].base + Len(segs[k].recs)

\* The index that the next record would get.
End(segs) == segs[Len(segs)].base + Len(segs[Len(segs)].recs)

\* A file's base and length are numbers.
LEMMA FileSize ==
  ASSUME NEW segs \in Seq(Damaged), NEW k \in 1..Len(segs)
  PROVE  segs[k] \in Damaged /\ segs[k].base \in Nat /\ Len(segs[k].recs) \in Nat
<1>1. segs[k] \in Damaged
  BY ElementOfSeq
<1>2. QED
  BY <1>1 DEF Damaged, Segment

\* Files are replaced in place, and only the last one changes its length.
LEMMA JoinedReplaced ==
  ASSUME NEW segs \in Seq(Damaged), segs # <<>>, Joined(segs),
         NEW after \in Seq(Damaged), Len(after) = Len(segs),
         \A k \in 1..Len(segs) : after[k].base = segs[k].base,
         \A k \in 1..(Len(segs) - 1) : Len(after[k].recs) = Len(segs[k].recs)
  PROVE  /\ Joined(after) /\ after # <<>> /\ after[1].base = segs[1].base
         /\ End(after) = segs[Len(segs)].base + Len(after[Len(segs)].recs)
<1>1. Len(segs) \in Nat /\ Len(segs) >= 1
  BY EmptySeq
<1>2. 1 \in 1..Len(segs) /\ Len(segs) \in 1..Len(segs)
  BY <1>1
<1>3. ASSUME NEW k \in 1..(Len(after) - 1)
      PROVE  after[k + 1].base = after[k].base + Len(after[k].recs)
  <2>1. k \in 1..(Len(segs) - 1) /\ k \in 1..Len(segs) /\ k + 1 \in 1..Len(segs)
    BY <1>1
  <2>2. segs[k + 1].base = segs[k].base + Len(segs[k].recs)
    BY <2>1 DEF Joined
  <2>3. QED
    BY <2>1, <2>2
<1>4. after # <<>>
  BY <1>1, EmptySeq
<1>5. QED
  BY <1>2, <1>3, <1>4 DEF Joined, End

\* A file is added behind the others.
LEMMA JoinedAppended ==
  ASSUME NEW segs \in Seq(Damaged), Joined(segs), NEW seg \in Damaged,
         segs # <<>> => seg.base = End(segs)
  PROVE  LET after == Append(segs, seg)
         IN  /\ Joined(after) /\ after # <<>> /\ End(after) = seg.base + Len(seg.recs)
             /\ after[1] = IF segs = <<>> THEN seg ELSE segs[1]
<1> DEFINE after == Append(segs, seg)
           n == Len(segs)
<1>1. /\ after \in Seq(Damaged) /\ after # <<>> /\ Len(after) = n + 1
      /\ \A j \in 1..n : after[j] = segs[j]
      /\ after[n + 1] = seg
  BY AppendProperties
<1> HIDE DEF after
<1>2. n \in Nat /\ (n = 0 <=> segs = <<>>)
  BY EmptySeq
<1>3. ASSUME NEW k \in 1..(Len(after) - 1)
      PROVE  after[k + 1].base = after[k].base + Len(after[k].recs)
  <2>1. k \in 1..n /\ after[k] = segs[k]
    BY <1>1, <1>2
  <2>2. CASE k = n
    <3>1. segs # <<>>
      BY <1>2, <2>1
    <3>2. QED
      BY <1>1, <2>1, <2>2, <3>1 DEF End
  <2>3. CASE k # n
    <3>1. k \in 1..(n - 1) /\ k + 1 \in 1..n
      BY <1>2, <2>1, <2>3
    <3>2. QED
      BY <1>1, <2>1, <3>1 DEF Joined
  <2>4. QED
    BY <2>2, <2>3
<1>4. Joined(after)
  BY <1>3 DEF Joined
<1>5. End(after) = seg.base + Len(seg.recs)
  BY <1>1 DEF End
<1>6. after[1] = IF segs = <<>> THEN seg ELSE segs[1]
  <2>1. CASE segs = <<>>
    BY <1>1, <1>2, <2>1
  <2>2. CASE segs # <<>>
    <3>1. 1 \in 1..n
      BY <1>2, <2>2
    <3>2. QED
      BY <1>1, <2>2, <3>1
  <2>3. QED
    BY <2>1, <2>2
<1>7. QED
  BY <1>1, <1>4, <1>5, <1>6 DEF after

\* The first file goes.
LEMMA JoinedTail ==
  ASSUME NEW segs \in Seq(Damaged), Len(segs) > 1, Joined(segs)
  PROVE  Joined(Tail(segs)) /\ End(Tail(segs)) = End(segs)
<1> DEFINE after == Tail(segs)
<1>1. Len(segs) \in Nat /\ segs # <<>>
  BY EmptySeq
<1>2. /\ after \in Seq(Damaged) /\ Len(after) = Len(segs) - 1
      /\ \A k \in 1..Len(after) : after[k] = segs[k + 1]
  BY <1>1, HeadTailProperties
<1> HIDE DEF after
<1>3. ASSUME NEW k \in 1..(Len(after) - 1)
      PROVE  after[k + 1].base = after[k].base + Len(after[k].recs)
  <2>1. k \in 1..Len(after) /\ k + 1 \in 1..Len(after) /\ k + 1 \in 1..(Len(segs) - 1)
    BY <1>1, <1>2
  <2>2. after[k] = segs[k + 1] /\ after[k + 1] = segs[(k + 1) + 1]
    BY <1>2, <2>1
  <2>3. QED
    BY <2>1, <2>2 DEF Joined
<1>4. Len(after) \in 1..Len(after) /\ Len(after) + 1 = Len(segs)
  BY <1>1, <1>2
<1>5. QED
  BY <1>2, <1>3, <1>4 DEF Joined, End, after

\* The last file goes.
LEMMA JoinedFront ==
  ASSUME NEW segs \in Seq(Damaged), segs # <<>>, Joined(segs)
  PROVE  LET after == Front(segs)
         IN  /\ Joined(after) /\ (after # <<>> <=> Len(segs) > 1)
             /\ after # <<>> => after[1] = segs[1] /\ End(after) = Last(segs).base
<1> DEFINE after == SubSeq(segs, 1, Len(segs) - 1)
           n == Len(segs) - 1
<1>1. Len(segs) \in Nat /\ Len(segs) >= 1 /\ n \in Nat
  BY EmptySeq
<1>2. /\ after \in Seq(Damaged) /\ Len(after) = n
      /\ \A k \in 1..n : after[k] = segs[k]
  <2>1. \A i \in 1..n : segs[i] \in Damaged
    BY <1>1, ElementOfSeq
  <2> HIDE DEF n
  <2>2. SubSeq(segs, 1, n) = after
    BY DEF n
  <2>3. /\ SubSeq(segs, 1, n) \in Seq(Damaged)
        /\ Len(SubSeq(segs, 1, n)) = IF 1 <= n THEN n - 1 + 1 ELSE 0
        /\ \A i \in 1..(n - 1 + 1) : SubSeq(segs, 1, n)[i] = segs[1 + i - 1]
    BY <1>1, <2>1, SubSeqProperties
  <2> HIDE DEF after
  <2>4. QED
    BY <1>1, <2>2, <2>3
<1>3. after = Front(segs)
  BY DEF Front
<1> HIDE DEF after
<1>4. ASSUME NEW k \in 1..(Len(after) - 1)
      PROVE  after[k + 1].base = after[k].base + Len(after[k].recs)
  <2>1. k \in 1..n /\ k + 1 \in 1..n
    BY <1>1, <1>2
  <2>2. QED
    BY <1>2, <2>1 DEF Joined
<1>5. after # <<>> <=> Len(segs) > 1
  BY <1>1, <1>2, EmptySeq
<1>6. ASSUME after # <<>>
      PROVE  after[1] = segs[1] /\ End(after) = Last(segs).base
  <2>1. 1 \in 1..n /\ n \in 1..n /\ n + 1 = Len(segs)
    BY <1>1, <1>2, <1>5, <1>6
  <2>2. segs[n + 1].base = segs[n].base + Len(segs[n].recs)
    BY <2>1 DEF Joined
  <2>3. after[1] = segs[1] /\ after[n] = segs[n]
    BY <1>2, <2>1
  <2>4. End(after) = after[n].base + Len(after[n].recs) /\ Last(segs) = segs[n + 1]
    BY <1>1, <1>2 DEF End, Last
  <2>5. QED
    BY <2>2, <2>3, <2>4
<1>7. QED
  BY <1>3, <1>4, <1>5, <1>6 DEF Joined

-----------------------------------------------------------------------------
(* One stream: the invariant and its steps.                                *)

\* Where the counters and the operation in progress stand relative to the files.
Placed ==
  /\ op.kind # "prefix" /\ segments # <<>> => first = segments[1].base
  /\ op.kind \in {"none", "prefix"} => last + 1 = End(segments)
  /\ op.kind = "suffix" => op.arg + 1 >= first /\ op.arg < End(segments)
  /\ op.kind = "removed" => /\ op.base = IF segments = <<>> THEN first ELSE End(segments)
                            /\ op.arg + 1 = op.base + Len(op.survivors)
  /\ op.kind = "rewritten" => op.arg + 1 = End(segments)

Stream ==
  /\ Joined(segments)
  /\ mode = "down" => \A k \in 1..(Len(segments) - 1) : segments[k].recs \in Seq(Payload)
  /\ mode = "open" => Placed

StreamInv == WalTypes /\ ("rotation" \notin harm /\ mode # "refused" => Stream)

\* The files after a step.
LEMMA FilesNext ==
  ASSUME WalTypes'
  PROVE  segments' \in Seq(Damaged)
BY WholeInDamaged, SeqMonotonic DEF WalTypes, Files

\* append (log.rs:77), with or without a rotation, extends the stream.
LEMMA AppendStream ==
  ASSUME WalTypes, WalTypes', Stream, NEW p \in Payload, AppendRecord(p)
  PROVE  Stream'
<1> DEFINE n == Len(segments)
           seg == segments[n]
<1>1. /\ mode = "open" /\ op.kind = "none" /\ last' = last + 1 /\ last \in Nat
      /\ UNCHANGED <<first, mode, op>>
  BY DEF AppendRecord, Idle, WalTypes
<1>2. /\ segments # <<>> /\ n \in Nat /\ n >= 1 /\ n \in 1..n
      /\ Last(segments) = seg /\ segments \in Seq(Damaged)
  BY <1>1, LastFile, FilesDamaged
<1>3. seg.base \in Nat /\ Len(seg.recs) \in Nat /\ seg \in Damaged
  BY <1>2, FileSize
<1>4. Joined(segments) /\ first = segments[1].base /\ last + 1 = End(segments)
  BY <1>1, <1>2 DEF Stream, Placed
<1>5. Joined(segments') /\ segments' # <<>> /\ segments'[1].base = segments[1].base
      /\ End(segments') = last + 2
  <2>1. CASE NeedsRotation(Last(segments))
    <3> DEFINE recs == <<p>>
               new == Seg(last + 1, recs, 0)
    <3>1. segments' = Append(segments, new)
      BY <2>1 DEF AppendRecord, NewSegment
    <3>2. /\ recs \in Seq(Item) /\ recs \in Seq(Payload) /\ Len(recs) = 1 /\ 0 <= Len(recs)
          /\ last + 1 \in Nat /\ last + 1 >= 1 /\ 0 \in Nat
      BY <1>1 DEF Item
    <3> HIDE DEF recs
    <3>3. new \in Whole /\ new.base = last + 1 /\ new.recs = recs
      BY <3>2, SegTypes
    <3>4. new \in Damaged
      BY <3>3, WholeInDamaged
    <3> HIDE DEF new
    <3>5. /\ Joined(segments') /\ segments' # <<>> /\ segments'[1] = segments[1]
          /\ End(segments') = new.base + Len(new.recs)
      BY <1>2, <1>4, <3>1, <3>3, <3>4, JoinedAppended
    <3>6. QED
      BY <1>1, <3>2, <3>3, <3>5
  <2>2. CASE ~NeedsRotation(Last(segments))
    <3> DEFINE new == Seg(seg.base, Append(seg.recs, p), seg.synced)
    <3>1. segments' = [segments EXCEPT ![n] = new]
      BY <2>2 DEF AppendRecord
    <3>2. new.base = seg.base /\ new.recs = Append(seg.recs, p)
      BY DEF Seg
    <3>3. Len(Append(seg.recs, p)) = Len(seg.recs) + 1
      <4>1. seg.recs \in Seq(Item) /\ p \in Item
        BY <1>3 DEF Damaged, Segment, Item
      <4>2. QED
        BY <4>1, AppendProperties
    <3> HIDE DEF new
    <3>4. segments' \in Seq(Damaged)
      BY FilesNext
    <3>5. Len(segments') = n /\ \A k \in 1..n : segments'[k] = IF k = n THEN new ELSE segments[k]
      BY <1>2, <3>1
    <3>6. /\ \A k \in 1..n : segments'[k].base = segments[k].base
          /\ \A k \in 1..(n - 1) : Len(segments'[k].recs) = Len(segments[k].recs)
      BY <1>2, <3>2, <3>5
    <3>7. /\ Joined(segments') /\ segments' # <<>> /\ segments'[1].base = segments[1].base
          /\ End(segments') = seg.base + Len(segments'[n].recs)
      BY <1>2, <1>4, <3>4, <3>5, <3>6, JoinedReplaced
    <3>8. End(segments') = seg.base + (Len(seg.recs) + 1) /\ last + 1 = seg.base + Len(seg.recs)
      BY <1>2, <1>4, <3>2, <3>3, <3>5, <3>7 DEF End
    <3> HIDE DEF seg
    <3>9. End(segments') = last + 2
      BY <1>1, <1>3, <3>8
    <3>10. QED
      BY <3>7, <3>9
  <2>3. QED
    BY <2>1, <2>2
<1>6. QED
  BY <1>1, <1>4, <1>5 DEF Stream, Placed

\* Segment::sync changes no record.
LEMMA SyncJoined ==
  ASSUME WalTypes, WalTypes', mode = "open", segments # <<>>, Joined(segments),
         NEW k \in 1..Len(segments),
         segments' = [segments EXCEPT ![k] =
                        Seg(segments[k].base, segments[k].recs, Len(segments[k].recs))]
  PROVE  /\ Joined(segments') /\ segments' # <<>> /\ segments'[1].base = segments[1].base
         /\ End(segments') = End(segments)
<1> DEFINE n == Len(segments)
<1>1. segments \in Seq(Damaged) /\ segments' \in Seq(Damaged)
  BY FilesDamaged, FilesNext
<1>2. n \in Nat /\ n >= 1 /\ n \in 1..n
  BY <1>1, EmptySeq
<1>3. /\ Len(segments') = n
      /\ \A j \in 1..n : /\ segments'[j].base = segments[j].base
                         /\ segments'[j].recs = segments[j].recs
  BY <1>1 DEF Seg
<1>4. \A j \in 1..(n - 1) : Len(segments'[j].recs) = Len(segments[j].recs)
  BY <1>2, <1>3
<1>5. /\ Joined(segments') /\ segments' # <<>> /\ segments'[1].base = segments[1].base
      /\ End(segments') = segments[n].base + Len(segments'[n].recs)
  BY <1>1, <1>3, <1>4, JoinedReplaced
<1>6. QED
  BY <1>2, <1>3, <1>5 DEF End

\* A segment's fsync (segment.rs:124) moves no record.
LEMMA SyncStream ==
  ASSUME WalTypes, WalTypes', Stream, NEW k \in 1..Len(segments), SyncSegment(k)
  PROVE  Stream'
<1>1. mode = "open" /\ op.kind = "none" /\ UNCHANGED <<first, last, mode, op>>
  BY DEF SyncSegment, Idle
<1>2. segments # <<>> /\ Joined(segments) /\ Placed
  BY <1>1, LastFile DEF Stream
<1>3. /\ Joined(segments') /\ segments' # <<>> /\ segments'[1].base = segments[1].base
      /\ End(segments') = End(segments)
  BY <1>1, <1>2, SyncJoined DEF SyncSegment
<1>4. QED
  BY <1>1, <1>2, <1>3 DEF Stream, Placed

\* The end of truncate_suffix (log.rs:175) sets last_index to the stream's
\* end.
LEMMA SuffixDoneStream ==
  ASSUME WalTypes, WalTypes', Stream, SuffixDone
  PROVE  Stream'
<1>1. /\ mode = "open" /\ op.kind = "rewritten" /\ last' = op.arg /\ op' = NoOp
      /\ UNCHANGED <<first, mode>>
  BY DEF SuffixDone
<1>2. segments # <<>> /\ Joined(segments) /\ Placed /\ Len(segments) \in 1..Len(segments)
  BY <1>1, LastFile DEF Stream
<1>3. /\ Joined(segments') /\ segments' # <<>> /\ segments'[1].base = segments[1].base
      /\ End(segments') = End(segments)
  BY <1>1, <1>2, SyncJoined DEF SuffixDone
<1>4. op'.kind = "none"
  BY <1>1, NoOpType
<1>5. QED
  BY <1>1, <1>2, <1>3, <1>4 DEF Stream, Placed

\* The start of either truncation moves no record.
LEMMA TruncateStream ==
  ASSUME WalTypes, Stream, NEW i \in Nat, TruncatePrefix(i) \/ TruncateSuffix(i)
  PROVE  Stream'
<1>1. mode = "open" /\ op.kind = "none" /\ UNCHANGED <<segments, first, last, mode>>
  BY DEF TruncatePrefix, TruncateSuffix, Idle
<1>2. /\ segments # <<>> /\ Joined(segments) /\ first = segments[1].base
      /\ last + 1 = End(segments) /\ last \in Nat
  BY <1>1, LastFile DEF Stream, Placed, WalTypes
<1>3. CASE TruncatePrefix(i)
  <2>1. op'.kind = "prefix"
    BY <1>3 DEF TruncatePrefix, Doing
  <2>2. QED
    BY <1>1, <1>2, <2>1 DEF Stream, Placed
<1>4. CASE TruncateSuffix(i)
  <2>1. op'.kind = "suffix" /\ op'.arg = i /\ i < last /\ i + 1 >= first
    BY <1>4 DEF TruncateSuffix, Doing
  <2>2. i < End(segments)
    BY <1>2, <2>1
  <2>3. QED
    BY <1>1, <1>2, <2>1, <2>2 DEF Stream, Placed
<1>5. QED
  BY <1>3, <1>4

\* truncate_prefix (log.rs:116) drops whole files from the front.
LEMMA PrefixStream ==
  ASSUME WalTypes, Stream, RemoveFirstSegment \/ PrefixDone
  PROVE  Stream'
<1>1. mode = "open" /\ op.kind = "prefix" /\ UNCHANGED <<last, mode>>
  BY DEF RemoveFirstSegment, PrefixDone
<1>2. /\ segments # <<>> /\ segments \in Seq(Damaged) /\ Joined(segments)
      /\ last + 1 = End(segments)
  BY <1>1, LastFile, FilesDamaged DEF Stream, Placed
<1>3. CASE RemoveFirstSegment
  <2>1. segments' = Tail(segments) /\ Len(segments) > 1 /\ op' = op
    BY <1>3 DEF RemoveFirstSegment, PrefixRemovable
  <2>2. Joined(segments') /\ End(segments') = End(segments)
    BY <1>2, <2>1, JoinedTail
  <2>3. QED
    BY <1>1, <1>2, <2>1, <2>2 DEF Stream, Placed
<1>4. CASE PrefixDone
  <2>1. segments' = segments /\ first' = segments[1].base /\ op'.kind = "none"
    BY <1>4, NoOpType DEF PrefixDone
  <2>2. QED
    BY <1>1, <1>2, <2>1 DEF Stream, Placed
<1>5. QED
  BY <1>3, <1>4

\* truncate_suffix (log.rs:144) drops whole files from the back.
LEMMA RemoveLastStream ==
  ASSUME WalTypes, Stream, RemoveLastSegment
  PROVE  Stream'
<1>1. /\ mode = "open" /\ op.kind = "suffix" /\ segments' = Front(segments)
      /\ UNCHANGED <<first, last, mode, op>>
      /\ Len(segments) > 1 /\ Last(segments).base > op.arg
  BY DEF RemoveLastSegment, SuffixRemovable
<1>2. /\ segments # <<>> /\ segments \in Seq(Damaged) /\ Joined(segments)
      /\ first = segments[1].base /\ op.arg + 1 >= first
  BY <1>1, LastFile, FilesDamaged DEF Stream, Placed
<1>3. Joined(segments') /\ (segments' # <<>> <=> Len(segments) > 1)
  BY <1>1, <1>2, JoinedFront
<1>4. segments' # <<>>
  BY <1>1, <1>3
<1>5. segments'[1] = segments[1] /\ End(segments') = Last(segments).base
  BY <1>1, <1>2, <1>4, JoinedFront
<1>6. op.arg < End(segments')
  <2>1. Last(segments) \in Whole /\ op.arg \in Nat
    BY <1>1, LastFile DEF WalTypes, Op
  <2>2. Last(segments).base \in Nat
    BY <2>1 DEF Whole, Segment
  <2>3. QED
    BY <1>1, <1>5, <2>1, <2>2
<1>7. QED
  BY <1>1, <1>2, <1>3, <1>5, <1>6 DEF Stream, Placed

\* The survivors end where the caller wants the log to end.
LEMMA RemoveStraddlingStream ==
  ASSUME WalTypes, Stream, RemoveStraddling
  PROVE  Stream'
<1> DEFINE seg == Last(segments)
           n == op.arg - seg.base + 1
           m == IF n < Len(seg.recs) THEN n ELSE Len(seg.recs)
           kept == SubSeq(seg.recs, 1, m)
<1>1. /\ mode = "open" /\ op.kind = "suffix" /\ segments' = Front(segments)
      /\ op' = Doing("removed", op.arg, seg.base, kept)
      /\ UNCHANGED <<first, last, mode>>
      /\ ~(Len(segments) > 1 /\ seg.base > op.arg)
  BY DEF RemoveStraddling, Survivors, SuffixRemovable
<1>2. /\ segments \in Seq(Damaged) /\ segments # <<>> /\ seg \in Whole
      /\ Len(segments) \in Nat /\ Len(segments) >= 1 /\ seg = segments[Len(segments)]
  BY <1>1, LastFile, FilesDamaged
<1>3. /\ Joined(segments) /\ first = segments[1].base /\ op.arg + 1 >= first
      /\ op.arg < seg.base + Len(seg.recs)
  BY <1>1, <1>2 DEF Stream, Placed, End
<1>4. /\ Joined(segments') /\ (segments' # <<>> <=> Len(segments) > 1)
      /\ segments' # <<>> => segments'[1] = segments[1] /\ End(segments') = seg.base
  BY <1>1, <1>2, <1>3, JoinedFront
<1> HIDE DEF seg
<1>5. /\ seg.base \in Nat /\ seg.recs \in Seq(Payload) /\ Len(seg.recs) \in Nat
      /\ op.arg \in Nat
  BY <1>2 DEF Whole, Segment, WalTypes, Op
<1>6. seg.base <= op.arg + 1
  <2>1. CASE ~(Len(segments) > 1)
    <3>1. seg = segments[1]
      BY <1>2, <2>1
    <3>2. QED
      BY <1>3, <3>1
  <2>2. CASE Len(segments) > 1
    <3>1. ~(seg.base > op.arg)
      BY <1>1, <2>2
    <3>2. QED
      BY <1>5, <3>1
  <2>3. QED
    BY <2>1, <2>2
<1>7. m = n /\ n \in Nat /\ n <= Len(seg.recs)
  BY <1>3, <1>5, <1>6
<1>8. Len(kept) = n
  <2>1. \A i \in 1..m : seg.recs[i] \in Payload
    BY <1>5, <1>7, ElementOfSeq
  <2> HIDE DEF m, n
  <2>2. Len(kept) = IF 1 <= m THEN m - 1 + 1 ELSE 0
    BY <1>7, <2>1, SubSeqProperties
  <2> HIDE DEF kept
  <2>3. QED
    BY <1>7, <2>2
<1> HIDE DEF kept
<1>9. op.arg + 1 = seg.base + Len(kept)
  BY <1>5, <1>8
<1>10. /\ op'.kind = "removed" /\ op'.arg = op.arg
       /\ op'.base = seg.base /\ op'.survivors = kept
  BY <1>1 DEF Doing
<1>11. seg.base = IF segments' = <<>> THEN first ELSE End(segments')
  BY <1>2, <1>3, <1>4
<1>12. QED
  BY <1>1, <1>3, <1>4, <1>9, <1>10, <1>11 DEF Stream, Placed

\* The rewritten file (log.rs:171) takes the place of the removed one.
LEMMA RewriteStream ==
  ASSUME WalTypes, Stream, RewriteStraddling
  PROVE  Stream'
<1> DEFINE new == Seg(op.base, op.survivors, 0)
<1>1. /\ mode = "open" /\ op.kind = "removed" /\ segments' = Append(segments, new)
      /\ op' = Doing("rewritten", op.arg, op.base, op.survivors)
      /\ UNCHANGED <<first, last, mode>>
  BY DEF RewriteStraddling, NewSegment
<1>2. /\ segments \in Seq(Damaged) /\ Joined(segments)
      /\ segments # <<>> => first = segments[1].base
      /\ op.base = IF segments = <<>> THEN first ELSE End(segments)
      /\ op.arg + 1 = op.base + Len(op.survivors)
  BY <1>1, FilesDamaged DEF Stream, Placed
<1>3. /\ op.base \in Nat /\ op.base >= 1 /\ op.survivors \in Seq(Item)
      /\ op.survivors \in Seq(Payload) /\ 0 \in Nat /\ 0 <= Len(op.survivors)
  BY <1>1 DEF WalTypes, Op
<1>4. new \in Whole /\ new.base = op.base /\ new.recs = op.survivors
  BY <1>3, SegTypes
<1>5. new \in Damaged
  BY <1>4, WholeInDamaged
<1> HIDE DEF new
<1>6. /\ Joined(segments') /\ segments' # <<>> /\ End(segments') = new.base + Len(new.recs)
      /\ segments'[1] = IF segments = <<>> THEN new ELSE segments[1]
  BY <1>1, <1>2, <1>4, <1>5, JoinedAppended
<1>7. op'.kind = "rewritten" /\ op'.arg = op.arg
  BY <1>1 DEF Doing
<1>8. first = segments'[1].base /\ op.arg + 1 = End(segments')
  BY <1>2, <1>4, <1>6
<1>9. QED
  BY <1>1, <1>6, <1>7, <1>8 DEF Stream, Placed

\* A crash leaves a fully fsynced file as it is.
LEMMA SyncedImage ==
  ASSUME NEW seg \in Whole, seg.synced = Len(seg.recs), NEW image \in Images(seg)
  PROVE  image = seg.recs
<1> DEFINE N == Len(seg.recs)
<1>1. seg.recs \in Seq(Payload) /\ N \in Nat
  BY DEF Whole, Segment
<1>2. SubSeq(seg.recs, 1, N) = seg.recs
  BY <1>1
<1>3. /\ \A n \in seg.synced..N : n = N
      /\ seg.synced..(N - 1) = {} /\ seg.synced..(N - 2) = {}
  BY <1>1
<1>4. image = SubSeq(seg.recs, 1, N)
  <2> DEFINE Cut(n) == SubSeq(seg.recs, 1, n)
             Hole(n, m) == Append(Cut(n), Corrupt) \o SubSeq(seg.recs, n + 2, m)
             A == {Cut(n) : n \in seg.synced..N}
             B == {Append(Cut(n), Torn) : n \in seg.synced..(N - 1)}
             C == {Append(Cut(n), Corrupt) : n \in seg.synced..(N - 1)}
             D == {Hole(n, m) : n \in seg.synced..(N - 1), m \in seg.synced..N}
             E == {Append(Hole(n, m), Torn) : n \in seg.synced..(N - 2), m \in seg.synced..(N - 1)}
  <2>1. Images(seg) = A \cup B \cup C \cup D \cup E
    BY DEF Images, OrderedImages
  <2>2. B = {} /\ C = {} /\ D = {} /\ E = {}
    <3> HIDE DEF Cut, Hole
    <3>1. QED
      BY <1>3
  <2>3. \A x \in A : x = Cut(N)
    <3> HIDE DEF Cut
    <3>1. QED
      BY <1>3
  <2>4. image \in A
    <3> HIDE DEF A, B, C, D, E
    <3>1. QED
      BY <2>1, <2>2
  <2>5. QED
    BY <2>3, <2>4
<1>5. QED
  BY <1>2, <1>4

\* A crash that tears the last file only leaves the stream joined up.
LEMMA CrashStream ==
  ASSUME WalTypes, WalTypes', Stream, Crash, "rotation" \notin harm'
  PROVE  Stream'
<1> DEFINE n == Len(segments)
<1>1. mode = "open" /\ mode' = "down"
  BY DEF Crash
<1>2. segments \in Seq(Whole) /\ segments \in Seq(Damaged) /\ n \in Nat
  BY <1>1, FilesDamaged
<1>3. PICK image : /\ \A k \in 1..n : image[k] \in Images(segments[k])
                   /\ segments' = [k \in 1..n |->
                                     Seg(segments[k].base, image[k], segments[k].synced)]
                   /\ harm' = harm \cup HarmOf(image)
  BY DEF Crash
<1>4. \A k \in 1..(n - 1) : segments[k].synced = Len(segments[k].recs)
  BY <1>3 DEF HarmOf
<1>5. ASSUME NEW k \in 1..(n - 1)
      PROVE  image[k] = segments[k].recs /\ segments[k].recs \in Seq(Payload)
  <2>1. k \in 1..n
    BY <1>2
  <2>2. segments[k] \in Whole
    BY <1>2, <2>1, ElementOfSeq
  <2>3. segments[k].recs \in Seq(Payload)
    BY <2>2 DEF Whole
  <2>4. QED
    BY <1>3, <1>4, <2>1, <2>2, <2>3, SyncedImage
<1>6. Len(segments') = n
  BY <1>2, <1>3
<1>7. \A k \in 1..n : segments'[k].base = segments[k].base /\ segments'[k].recs = image[k]
  BY <1>3 DEF Seg
<1>8. \A k \in 1..(n - 1) : k \in 1..n
  BY <1>2
<1>9. \A k \in 1..(n - 1) : segments'[k].recs = segments[k].recs
                            /\ segments'[k].recs \in Seq(Payload)
  BY <1>5, <1>7, <1>8
<1>10. Joined(segments')
  <2>1. CASE segments = <<>>
    BY <1>2, <1>6, <2>1 DEF Joined
  <2>2. CASE segments # <<>>
    <3>1. segments' \in Seq(Damaged) /\ Joined(segments)
      BY FilesNext DEF Stream
    <3>2. \A k \in 1..(n - 1) : Len(segments'[k].recs) = Len(segments[k].recs)
      BY <1>9
    <3>3. QED
      BY <1>2, <1>6, <1>7, <2>2, <3>1, <3>2, JoinedReplaced
  <2>3. QED
    BY <2>1, <2>2
<1>11. QED
  BY <1>1, <1>6, <1>9, <1>10 DEF Stream

\* Recovery leaves a whole file as it is.
LEMMA RecoverWhole ==
  ASSUME NEW seg \in Damaged
  PROVE  /\ Recover(seg).base = seg.base
         /\ seg.recs \in Seq(Payload) => Len(Recover(seg).recs) = Len(seg.recs)
<1> DEFINE n == GoodLength(seg.recs)
           good == SubSeq(seg.recs, 1, n)
<1>1. seg.recs \in Seq(Item) /\ Len(seg.recs) \in Nat
  BY DEF Damaged, Segment
<1>2. n \in 0..Len(seg.recs) /\ (n < Len(seg.recs) => seg.recs[n + 1] \notin Payload)
  BY <1>1, GoodLengthExists
<1>3. Recover(seg).base = seg.base /\ Recover(seg).recs = good
  BY DEF Recover, Seg
<1> HIDE DEF n
<1>4. Len(good) = n
  BY <1>1, <1>2, SubSeqProperties
<1> HIDE DEF good
<1>5. ASSUME seg.recs \in Seq(Payload)
      PROVE  n = Len(seg.recs)
  <2>1. ASSUME n < Len(seg.recs)
        PROVE  FALSE
    <3>1. n + 1 \in 1..Len(seg.recs)
      BY <1>1, <1>2, <2>1
    <3>2. seg.recs[n + 1] \in Payload
      BY <1>5, <3>1, ElementOfSeq
    <3>3. QED
      BY <1>2, <2>1, <3>2
  <2>2. QED
    BY <1>1, <1>2, <2>1
<1>6. QED
  BY <1>3, <1>4, <1>5

\* open() (log.rs:37) recovers a joined stream to a joined stream and finds
\* its ends.
LEMMA OpenStream ==
  ASSUME WalTypes, WalTypes', Stream, Open
  PROVE  Stream'
<1> DEFINE n == Len(segments)
<1>1. /\ mode = "down" /\ mode' = "open" /\ op' = op /\ op.kind = "none"
      /\ segments \in Seq(Damaged) /\ segments' \in Seq(Damaged) /\ n \in Nat
  BY OpenStep, FilesDamaged, FilesNext DEF Open
<1>2. Joined(segments') /\ segments' # <<>>
  <2>1. CASE segments = <<>>
    <3>1. segments' = <<NewSegment(1, <<>>)>>
      BY <2>1 DEF Open
    <3> DEFINE new == NewSegment(1, <<>>)
    <3> HIDE DEF new
    <3>2. segments' = <<new>>
      BY <3>1 DEF new
    <3>3. Len(segments') = 1 /\ segments' # <<>>
      BY <3>2
    <3>4. QED
      BY <3>3 DEF Joined
  <2>2. CASE segments # <<>>
    <3>1. segments' = [k \in 1..n |-> Recover(segments[k])]
      BY <2>2 DEF Open
    <3>2. Len(segments') = n /\ \A k \in 1..n : segments'[k] = Recover(segments[k])
      BY <1>1, <3>1
    <3>3. \A k \in 1..n : segments[k] \in Damaged
      BY <1>1, ElementOfSeq
    <3>4. \A k \in 1..n : segments'[k].base = segments[k].base
      BY <3>2, <3>3, RecoverWhole
    <3>5. ASSUME NEW k \in 1..(n - 1)
          PROVE  Len(segments'[k].recs) = Len(segments[k].recs)
      <4>1. k \in 1..n /\ segments[k].recs \in Seq(Payload)
        BY <1>1 DEF Stream
      <4>2. QED
        BY <3>2, <3>3, <4>1, RecoverWhole
    <3>6. Joined(segments)
      BY DEF Stream
    <3>7. QED
      BY <1>1, <2>2, <3>2, <3>4, <3>5, <3>6, JoinedReplaced
  <2>3. QED
    BY <2>1, <2>2
<1>3. /\ first' = segments'[1].base
      /\ last' = Last(segments').base + Len(Last(segments').recs) - 1
  BY Zenon DEF Open
<1>4. last' + 1 = End(segments')
  <2>1. Len(segments') \in 1..Len(segments')
    BY <1>1, <1>2, EmptySeq
  <2>2. segments'[Len(segments')].base \in Nat /\ Len(segments'[Len(segments')].recs) \in Nat
    BY <1>1, <2>1, FileSize
  <2>3. Last(segments') = segments'[Len(segments')]
    BY DEF Last
  <2>4. last' + 1 = segments'[Len(segments')].base + Len(segments'[Len(segments')].recs)
    BY <1>3, <2>2, <2>3
  <2>5. QED
    BY <2>4 DEF End
<1>5. QED
  BY <1>1, <1>2, <1>3, <1>4 DEF Stream, Placed

\* Every step of the log keeps StreamInv.
LEMMA StreamStep == StreamInv /\ [Next]_vars => StreamInv'
<1> SUFFICES ASSUME StreamInv, [Next]_vars, "rotation" \notin harm', mode' # "refused"
             PROVE  Stream'
  BY WalTypesStep DEF StreamInv
<1>1. WalTypes /\ WalTypes' /\ "rotation" \notin harm
  BY WalTypesStep, HarmGrows DEF StreamInv
<1>2. CASE UNCHANGED vars
  <2>1. Stream
    BY <1>1, <1>2 DEF StreamInv, vars
  <2>2. QED
    BY <1>2, <2>1 DEF Stream, Placed, vars
<1>3. CASE mode = "refused" /\ ~UNCHANGED vars
  BY <1>3 DEF Next, Idle, AppendRecord, SyncSegment, SyncReturns, TruncatePrefix,
     RemoveFirstSegment, PrefixDone, TruncateSuffix, RemoveLastSegment, RemoveStraddling,
     RewriteStraddling, SuffixDone, Crash, Open, OpenRefused
<1>4. CASE mode # "refused" /\ Next
  <2>1. Stream
    BY <1>1, <1>4 DEF StreamInv
  <2>2. CASE SyncReturns
    BY <2>1, <2>2 DEF SyncReturns, Stream, Placed
  <2>3. (\A i \in 1..(MaxIndex + 1) : i \in Nat) /\ (\A i \in 0..MaxIndex : i \in Nat)
    BY BoundAssumption
  <2>4. ASSUME NEW k \in 1..Len(segments), OpenRefused(k)
        PROVE  FALSE
    BY <2>4 DEF OpenRefused
  <2>5. QED
    BY <1>1, <1>4, <2>1, <2>2, <2>3, <2>4, AppendStream, SyncStream, TruncateStream,
       PrefixStream, RemoveLastStream, RemoveStraddlingStream, RewriteStream,
       SuffixDoneStream, CrashStream, OpenStream DEF Next
<1>5. QED
  BY <1>2, <1>3, <1>4

\* The files of an idle log join up and end at last_index, and first_index is
\* where they begin, until a crash cuts a segment short that has a successor
\* (log.rs:1).
THEOREM FilesFormOneStream == Spec => []OneStream
<1>1. Init => StreamInv
  <2> SUFFICES ASSUME Init PROVE StreamInv
    OBVIOUS
  <2> DEFINE new == NewSegment(1, <<>>)
  <2>1. new.base = 1 /\ Len(new.recs) = 0
    BY DEF NewSegment, Seg
  <2>2. /\ segments = <<new>> /\ first = 1 /\ last = 0 /\ mode = "open" /\ op.kind = "none"
        /\ WalTypes
    BY WalTypesInit, NoOpType DEF Init
  <2> HIDE DEF new
  <2>3. Len(segments) = 1 /\ segments[1] = new
    BY <2>2
  <2>4. Joined(segments) /\ End(segments) = 1
    BY <2>1, <2>3 DEF Joined, End
  <2>5. QED
    BY <2>1, <2>2, <2>3, <2>4 DEF StreamInv, Stream, Placed
<1>2. StreamInv => OneStream
  <2> SUFFICES ASSUME StreamInv, Idle, "rotation" \notin harm
               PROVE  /\ Joined(segments) /\ first = segments[1].base
                      /\ last = Last(segments).base + Len(Last(segments).recs) - 1
    BY DEF OneStream, Joined
  <2>1. mode = "open" /\ op.kind = "none" /\ WalTypes /\ Stream /\ last \in Nat
    BY DEF StreamInv, Idle, WalTypes
  <2>2. segments # <<>> /\ Last(segments) = segments[Len(segments)] /\ Last(segments) \in Whole
    BY <2>1, LastFile
  <2>3. Last(segments).base \in Nat /\ Len(Last(segments).recs) \in Nat
    BY <2>2 DEF Whole, Segment
  <2>4. last + 1 = Last(segments).base + Len(Last(segments).recs)
    BY <2>1, <2>2 DEF Stream, Placed, End
  <2>5. QED
    BY <2>1, <2>2, <2>3, <2>4 DEF Stream, Placed
<1>3. QED
  BY <1>1, <1>2, StreamStep, PTL DEF Spec
=============================================================================
