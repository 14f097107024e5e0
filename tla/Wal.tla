-------------------------------- MODULE Wal --------------------------------
(***************************************************************************)
(* The segmented write-ahead log of src/wal: Log (log.rs) over Segment     *)
(* (segment.rs) over the record framing (record.rs).                       *)
(*                                                                         *)
(* A log has one caller, RaftCore, which holds a lock across every call    *)
(* and ends every batch of appends with sync(); so the operations run one  *)
(* at a time, and only a crash interleaves with them.  truncate_prefix and *)
(* truncate_suffix touch several files, one system call after the other,   *)
(* so each is a sequence of steps here and a crash may fall between any    *)
(* two of them.                                                            *)
(*                                                                         *)
(* Data: a record is a payload; every record is one unit long, so          *)
(* Segment.bytes and Segment.count are both the length of `recs'.  A file  *)
(* is the sequence of results that read_record returns on it: payloads     *)
(* (RecordRead::Entry), then possibly Corrupt and Torn (Truncated).        *)
(***************************************************************************)
EXTENDS Integers, Sequences, SequencesExt

CONSTANTS
  Payload,          \* the records' contents
  Corrupt,          \* a record whose checksum fails (RecordRead::Corrupt)
  Torn,             \* a record cut short by the end of file (Truncated)
  MaxSegmentBytes,  \* Config::segment_max_bytes, in records
  MaxIndex          \* bound: highest index ever appended

ASSUME PayloadAssumption == Corrupt \notin Payload /\ Torn \notin Payload /\ Corrupt # Torn
ASSUME BoundAssumption == MaxSegmentBytes \in Nat /\ MaxIndex \in Nat

VARIABLES
  segments, \* Log.segments and the directory: the files, ascending by base
  first,    \* Log.first_index
  last,     \* Log.last_index
  mode,     \* "open"; "down" after a crash; "refused": open() failed
  op,       \* the multi-step operation in progress
  acked,    \* ghost: the <<index, record>> pairs that sync() acknowledged
            \* and that the caller has not asked to drop since
  harm      \* ghost: what the crashes so far have hit, see Harm

vars == <<segments, first, last, mode, op, acked, harm>>

-----------------------------------------------------------------------------
Item == Payload \cup {Corrupt, Torn}

\* `synced' counts the leading records that an fsync covers.
Segment == [base : Nat, recs : Seq(Item), synced : Nat]

Seg(base, recs, synced) == [base |-> base, recs |-> recs, synced |-> synced]

NewSegment(base, recs) == Seg(base, recs, 0)

\* The records present, and those an fsync covers, paired with their index
\* the way Log::read_all pairs them.
Records(segs) ==
  UNION {{<<segs[k].base + j - 1, segs[k].recs[j]>> : j \in 1..Len(segs[k].recs)} :
            k \in 1..Len(segs)}

SyncedRecords(segs) ==
  UNION {{<<segs[k].base + j - 1, segs[k].recs[j]>> : j \in 1..segs[k].synced} :
            k \in 1..Len(segs)}

AllSynced == \A k \in 1..Len(segments) : segments[k].synced = Len(segments[k].recs)

\* Steps of truncate_prefix ("prefix") and truncate_suffix: deleting trailing
\* files ("suffix"), the straddling file removed ("removed") and rewritten but
\* not yet fsynced ("rewritten").
Op == [kind : {"none", "prefix", "suffix", "removed", "rewritten"},
       arg : Nat, base : Nat, survivors : Seq(Item)]

Doing(kind, arg, base, survivors) ==
  [kind |-> kind, arg |-> arg, base |-> base, survivors |-> survivors]

NoOp == Doing("none", 0, 0, <<>>)

Idle == mode = "open" /\ op.kind = "none"

\* A crash inside truncate_suffix's file rewrite; one that found unsynced records
\* before the last segment; one after the OS had written back unsynced pages of
\* a file out of order.
Harm == {"rewrite", "rotation", "reorder"}

-----------------------------------------------------------------------------
\* Segment::recover: the longest run of whole records is kept.
GoodLength(recs) ==
  CHOOSE n \in 0..Len(recs) :
    /\ \A j \in 1..n : recs[j] \in Payload
    /\ n < Len(recs) => recs[n + 1] \notin Payload

RestParsesCleanly(recs, from) == \A j \in from..Len(recs) : recs[j] \in Payload

\* Fault: the test that anything follows the bad record (pos < file_len) is lost.
InteriorCorruptionAtEnd(recs) ==
  LET n == GoodLength(recs)
  IN  /\ n < Len(recs)
      /\ recs[n + 1] = Corrupt
      /\ RestParsesCleanly(recs, n + 2)

\* A bad checksum with a clean, non-empty run of records behind it.
InteriorCorruption(recs) ==
  LET n == GoodLength(recs)
  IN  /\ n + 1 < Len(recs)
      /\ recs[n + 1] = Corrupt
      /\ RestParsesCleanly(recs, n + 2)

\* Fault: the bad records are skipped and the scan goes on.
RecoverSkippingBad(seg) ==
  LET good == SelectSeq(seg.recs, LAMBDA r : r \in Payload)
  IN  Seg(seg.base, good, Len(good))

\* Fault: the torn tail is not cut off the file.
RecoverLeavingTail(seg) == Seg(seg.base, seg.recs, GoodLength(seg.recs))

Recover(seg) ==
  LET n == GoodLength(seg.recs)
  IN  Seg(seg.base, SubSeq(seg.recs, 1, n), n)

-----------------------------------------------------------------------------
Init ==
  /\ segments = <<NewSegment(1, <<>>)>>
  /\ first = 1
  /\ last = 0
  /\ mode = "open"
  /\ op = NoOp
  /\ acked = {}
  /\ harm = {}

\* Log::append: rotate if the active segment is full, then buffer the record.
NeedsRotation(seg) == Len(seg.recs) >= MaxSegmentBytes /\ Len(seg.recs) > 0

\* Fault: the new segment starts at last_index.
AppendOverlapping(p) ==
  /\ Idle
  /\ last < MaxIndex
  /\ segments' =
       IF NeedsRotation(Last(segments))
       THEN Append(segments, NewSegment(last, <<p>>))
       ELSE [segments EXCEPT ![Len(segments)] = Seg(@.base, Append(@.recs, p), @.synced)]
  /\ last' = last + 1
  /\ UNCHANGED <<first, mode, op, acked, harm>>

AppendRecord(p) ==
  /\ Idle
  /\ last < MaxIndex
  /\ segments' =
       IF NeedsRotation(Last(segments))
       THEN Append(segments, NewSegment(last + 1, <<p>>))
       ELSE [segments EXCEPT ![Len(segments)] = Seg(@.base, Append(@.recs, p), @.synced)]
  /\ last' = last + 1
  /\ UNCHANGED <<first, mode, op, acked, harm>>

\* One iteration of Log::sync's loop: flush and fsync the oldest segment that
\* still needs it.  Log::sync returns when no segment is left, which is when
\* the caller may answer.
SyncSegment(k) ==
  /\ Idle
  /\ segments[k].synced < Len(segments[k].recs)
  /\ \A j \in 1..(k - 1) : segments[j].synced = Len(segments[j].recs)
  /\ segments' = [segments EXCEPT ![k] = Seg(@.base, @.recs, Len(@.recs))]
  /\ UNCHANGED <<first, last, mode, op, acked, harm>>

SyncReturns ==
  /\ Idle
  /\ AllSynced
  /\ acked' = Records(segments)
  /\ UNCHANGED <<segments, first, last, mode, op, harm>>

\* Log::truncate_prefix(up_to), called by RaftCore::compact with a snapshot's
\* last index + 1.
TruncatePrefix(upTo) ==
  /\ Idle
  /\ upTo <= last + 1
  /\ op' = Doing("prefix", upTo, 0, <<>>)
  /\ acked' = {r \in acked : r[1] >= upTo}
  /\ UNCHANGED <<segments, first, last, mode, harm>>

SegmentLast(seg) == seg.base + (IF Len(seg.recs) = 0 THEN 1 ELSE Len(seg.recs)) - 1

\* Fault: off by one, the segment holding up_to itself goes.
PrefixRemovableOffByOne == Len(segments) > 1 /\ SegmentLast(segments[1]) <= op.arg

PrefixRemovable == Len(segments) > 1 /\ SegmentLast(segments[1]) < op.arg

RemoveFirstSegment ==
  /\ mode = "open" /\ op.kind = "prefix"
  /\ PrefixRemovable
  /\ segments' = Tail(segments)
  /\ UNCHANGED <<first, last, mode, op, acked, harm>>

PrefixDone ==
  /\ mode = "open" /\ op.kind = "prefix"
  /\ ~PrefixRemovable
  /\ first' = segments[1].base
  /\ op' = NoOp
  /\ UNCHANGED <<segments, last, mode, acked, harm>>

\* Log::truncate_suffix(keep).  RaftCore::truncate_from calls it before the
\* handler appends anything, so no buffered record is pending.  The two early
\* returns (nothing to drop; below the compacted prefix) change nothing.
TruncateSuffix(keep) ==
  /\ Idle
  /\ AllSynced
  /\ keep < last
  /\ keep + 1 >= first
  /\ op' = Doing("suffix", keep, 0, <<>>)
  /\ acked' = {r \in acked : r[1] <= keep}
  /\ UNCHANGED <<segments, first, last, mode, harm>>

SuffixRemovable == Len(segments) > 1 /\ Last(segments).base > op.arg

RemoveLastSegment ==
  /\ mode = "open" /\ op.kind = "suffix"
  /\ SuffixRemovable
  /\ segments' = Front(segments)
  /\ UNCHANGED <<first, last, mode, op, acked, harm>>

\* The records of the straddling segment that stay.
Survivors(seg, keep) ==
  LET n == keep - seg.base + 1
  IN  SubSeq(seg.recs, 1, IF n < Len(seg.recs) THEN n ELSE Len(seg.recs))

\* Read the survivors into memory and delete the straddling file.
RemoveStraddling ==
  /\ mode = "open" /\ op.kind = "suffix"
  /\ ~SuffixRemovable
  /\ LET seg == Last(segments)
     IN  op' = Doing("removed", op.arg, seg.base, Survivors(seg, op.arg))
  /\ segments' = Front(segments)
  /\ UNCHANGED <<first, last, mode, acked, harm>>

\* Create the file again and append the survivors, buffered.
RewriteStraddling ==
  /\ mode = "open" /\ op.kind = "removed"
  /\ segments' = Append(segments, NewSegment(op.base, op.survivors))
  /\ op' = Doing("rewritten", op.arg, op.base, op.survivors)
  /\ UNCHANGED <<first, last, mode, acked, harm>>

\* Fault: last_index is not reset.
SuffixDoneKeepingLast ==
  /\ mode = "open" /\ op.kind = "rewritten"
  /\ segments' = [segments EXCEPT ![Len(segments)] = Seg(@.base, @.recs, Len(@.recs))]
  /\ op' = NoOp
  /\ UNCHANGED <<first, last, mode, acked, harm>>

\* fresh.sync(), then last_index = keep_last.
SuffixDone ==
  /\ mode = "open" /\ op.kind = "rewritten"
  /\ segments' = [segments EXCEPT ![Len(segments)] = Seg(@.base, @.recs, Len(@.recs))]
  /\ last' = op.arg
  /\ op' = NoOp
  /\ UNCHANGED <<first, mode, acked, harm>>

-----------------------------------------------------------------------------
\* What a crash can leave of a file that is written front to back: the fsynced
\* records and then a prefix of the others, cut cleanly, inside a record, or at a
\* record whose bytes were only partly written.
OrderedImages(seg) ==
  LET Cut(n) == SubSeq(seg.recs, 1, n)
      N == Len(seg.recs)
  IN  {Cut(n) : n \in seg.synced..N}
      \cup {Append(Cut(n), Torn) : n \in seg.synced..(N - 1)}
      \cup {Append(Cut(n), Corrupt) : n \in seg.synced..(N - 1)}

\* Out of order, whole records may follow that one, up to wherever the file ends.
Images(seg) ==
  LET Cut(n) == SubSeq(seg.recs, 1, n)
      N == Len(seg.recs)
      Hole(n, m) == Append(Cut(n), Corrupt) \o SubSeq(seg.recs, n + 2, m)
  IN  OrderedImages(seg)
      \cup {Hole(n, m) : n \in seg.synced..(N - 1), m \in seg.synced..N}
      \cup {Append(Hole(n, m), Torn) : n \in seg.synced..(N - 2), m \in seg.synced..(N - 1)}

\* What a crash hits that leaves `image' of the segments.
HarmOf(image) ==
  (IF op.kind \in {"removed", "rewritten"} THEN {"rewrite"} ELSE {})
  \cup (IF \A k \in 1..(Len(segments) - 1) : segments[k].synced = Len(segments[k].recs)
        THEN {} ELSE {"rotation"})
  \cup (IF \A k \in 1..Len(segments) : image[k] \in OrderedImages(segments[k])
        THEN {} ELSE {"reorder"})

Crash ==
  /\ mode = "open"
  /\ \E image \in [1..Len(segments) -> UNION {Images(segments[k]) : k \in 1..Len(segments)}] :
       /\ \A k \in 1..Len(segments) : image[k] \in Images(segments[k])
       /\ segments' = [k \in 1..Len(segments) |->
                         Seg(segments[k].base, image[k], segments[k].synced)]
       /\ harm' = harm \cup HarmOf(image)
  /\ mode' = "down"
  /\ op' = NoOp
  /\ UNCHANGED <<first, last, acked>>

\* Log::open: every segment is recovered, not only the final one.
Open ==
  /\ mode = "down"
  /\ \A k \in 1..Len(segments) : ~InteriorCorruption(segments[k].recs)
  /\ segments' = IF segments = <<>>
                 THEN <<NewSegment(1, <<>>)>>
                 ELSE [k \in 1..Len(segments) |-> Recover(segments[k])]
  /\ first' = segments'[1].base
  /\ last' = Last(segments').base + Len(Last(segments').recs) - 1
  /\ mode' = "open"
  /\ UNCHANGED <<op, acked, harm>>

\* Log::open returns Error::Corruption at segment k; the segments before it
\* have been recovered in place.
OpenRefused(k) ==
  /\ mode = "down"
  /\ InteriorCorruption(segments[k].recs)
  /\ \A j \in 1..(k - 1) : ~InteriorCorruption(segments[j].recs)
  /\ segments' = [j \in 1..Len(segments) |-> IF j < k THEN Recover(segments[j]) ELSE segments[j]]
  /\ mode' = "refused"
  /\ UNCHANGED <<first, last, op, acked, harm>>

Next ==
  \/ \E p \in Payload : AppendRecord(p)
  \/ \E k \in 1..Len(segments) : SyncSegment(k)
  \/ SyncReturns
  \/ \E i \in 1..(MaxIndex + 1) : TruncatePrefix(i)
  \/ RemoveFirstSegment
  \/ PrefixDone
  \/ \E i \in 0..MaxIndex : TruncateSuffix(i)
  \/ RemoveLastSegment
  \/ RemoveStraddling
  \/ RewriteStraddling
  \/ SuffixDone
  \/ Crash
  \/ Open
  \/ \E k \in 1..Len(segments) : OpenRefused(k)

Spec == Init /\ [][Next]_vars

-----------------------------------------------------------------------------
\* Types; and an open log's files hold whole records only, which SegmentIter
\* relies on (segment.rs:178).
TypeOK ==
  /\ segments \in Seq(Segment)
  /\ first \in Nat
  /\ last \in Nat
  /\ mode \in {"open", "down", "refused"}
  /\ op \in Op
  /\ acked \in SUBSET (Nat \X Payload)
  /\ harm \in SUBSET Harm
  /\ \A k \in 1..Len(segments) :
       /\ segments[k].synced <= Len(segments[k].recs)
       /\ mode = "open" => segments[k].recs \in Seq(Payload)

\* Durability: whatever sync() acknowledged and the caller has not dropped is
\* in the fsynced part of some file, at its own index, in every state a crash
\* may leave behind and after every recovery.  While truncate_suffix rewrites
\* a file the survivors are only in memory, and a crash there may lose them.
AckedSurvives ==
  "rewrite" \notin harm /\ op.kind \notin {"removed", "rewritten"}
    => acked \subseteq SyncedRecords(segments)

\* The same without the exception: "an acknowledged write is never lost"
\* (tests/recovery.rs:1).
AckedAlwaysSurvives ==
  op.kind \notin {"removed", "rewritten"} => acked \subseteq SyncedRecords(segments)

\* The segments of an idle log form one stream without gaps or overlaps that
\* ends at last_index (log.rs:1), so that the next append gets the index that
\* the caller's in-memory log expects ("WAL and Raft indices diverged"), unless
\* a crash has cut a segment short that has a successor.
OneStream ==
  Idle /\ "rotation" \notin harm =>
    /\ \A k \in 1..(Len(segments) - 1) :
         segments[k + 1].base = segments[k].base + Len(segments[k].recs)
    /\ first = segments[1].base
    /\ last = Last(segments).base + Len(Last(segments).recs) - 1

\* A crash alone makes Log::open fail only if pages were written back out of
\* order: Error::Corruption is "real on-disk corruption rather than a torn write
\* we can recover from" (lib.rs:36).
NeverRefused == mode = "refused" => "reorder" \in harm

\* Recovery never moves a record to another index and never adds one: open()
\* leaves the base of every file and a prefix of the records it found there.
RecoveryKeepsPositions ==
  [][mode = "down" /\ segments # <<>> =>
       \A k \in 1..Len(segments) :
         /\ segments'[k].base = segments[k].base
         /\ IsPrefix(segments'[k].recs, segments[k].recs)]_vars

\* The records that truncate_suffix holds in memory while it rewrites a file.
InMemory ==
  IF op.kind \in {"removed", "rewritten"}
  THEN {<<op.base + j - 1, op.survivors[j]>> : j \in 1..Len(op.survivors)}
  ELSE {}

\* What the log still has, in its files or in memory.
Contents == {r \in Records(segments) : r[2] \in Payload} \cup InMemory

Promise == INSTANCE DurableLog WITH contents <- Contents, excused <- "rewrite" \in harm

\* The log keeps DurableLog's promise to its caller: append adds behind
\* everything there is, and neither a truncation, nor a crash outside the
\* rewrite, nor a recovery drops a record that is acknowledged and still needed,
\* or brings one back.
KeepsPromise == Promise!Spec
=============================================================================
