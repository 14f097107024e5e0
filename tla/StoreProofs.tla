---------------------------- MODULE StoreProofs ----------------------------
(***************************************************************************)
(* Theorem about Store, for any tasks, logs, thresholds and bounds: no     *)
(* entry is compacted before a snapshot that covers it is sure to survive. *)
(***************************************************************************)
EXTENDS Store, LeastElement

Holding == {"snapshot", "sync", "prune", "compact"}

TaskState ==
  [pc : {"idle", "taken", "publish"} \cup Holding, list : Seq(Nat), meta : Meta]

\* As much of the types as the argument needs; what is in the map is left open.
StoreTypes ==
  /\ commit \in Nat /\ taken \in Nat /\ dropped \in Nat /\ walFirst \in Nat
  /\ base \in Meta
  /\ table.applied \in Nat
  /\ task \in [Task -> TaskState]
  /\ \A f \in snaps \cup unsure : f.index \in Nat /\ f.term \in Nat

\* The store lock has one holder, and a list that was taken is not empty.
Exclusive ==
  /\ \A t, u \in Task : task[t].pc \in Holding /\ task[u].pc \in Holding => t = u
  /\ \A t \in Task : task[t].pc = "taken" => task[t].list # <<>>

\* After the rename, the snapshot that a task writes is in the directory under
\* the index of the memtable; after the directory fsync, for good.
Written ==
  \A t \in Task :
    /\ task[t].pc \in {"sync", "prune", "compact"} => task[t].meta.index = table.applied
    /\ task[t].pc = "sync" => \E f \in snaps : f.index = task[t].meta.index
    /\ task[t].pc \in {"prune", "compact"} =>
         \E f \in snaps \ unsure : f.index = task[t].meta.index

\* No snapshot is ahead of the memtable, one that was unlinked is behind it, and
\* after a crash nothing is undecided and nobody is in apply_committed.
Behind ==
  /\ \A f \in snaps \cup unsure : f.index <= table.applied
  /\ \A f \in unsure \ snaps : f.index < table.applied
  /\ ~up => unsure = {} /\ \A t \in Task : task[t] = Idle

StoreInv == StoreTypes /\ Exclusive /\ Written /\ Behind /\ Recoverable

-----------------------------------------------------------------------------
\* A task that is not in apply_committed.
LEMMA IdleType == Idle \in TaskState /\ Idle.pc = "idle"
BY DEF Idle, Meta, TaskState

\* A node started on an empty data directory satisfies the invariant.
LEMMA StoreInitInv == Init => StoreInv
<1> SUFFICES ASSUME Init PROVE StoreInv
  OBVIOUS
<1>1. \A t \in Task : task[t] = Idle
  BY DEF Init
<1>2. StoreTypes
  BY IdleType DEF Init, StoreTypes, Meta
<1>3. Exclusive /\ Written /\ Behind
  BY <1>1, IdleType DEF Init, Exclusive, Written, Behind, Holding
<1>4. Recoverable
  BY DEF Init, Recoverable, Covered
<1>5. QED
  BY <1>2, <1>3, <1>4 DEF StoreInv

\* A task moves on or goes idle; the others stay where they are.
LEMMA OneTask ==
  ASSUME StoreTypes, NEW t \in Task, NEW r, task' = [task EXCEPT ![t] = r],
         r \in TaskState
  PROVE  /\ task' \in [Task -> TaskState]
         /\ task'[t] = r
         /\ \A u \in Task : u # t => task'[u] = task[u]
BY DEF StoreTypes

\* Covered, as a statement about the set of durable snapshots.
CoveredBy(files, i) == i = 0 \/ \E f \in files : f.index >= i

\* Durable snapshots, the set and its coverage.
Sure == snaps \ unsure

\* Coverage only needs, for each durable snapshot, one at least as new.
LEMMA CoverageKept ==
  ASSUME NEW F, NEW G, \A f \in F : f.index \in Nat, \A g \in G : g.index \in Nat,
         \A f \in F : \E g \in G : g.index >= f.index,
         NEW i \in Int, CoveredBy(F, i)
  PROVE  CoveredBy(G, i)
<1>1. CASE i = 0
  BY <1>1 DEF CoveredBy
<1>2. CASE \E f \in F : f.index >= i
  <2>1. PICK f \in F : f.index >= i
    BY <1>2
  <2>2. PICK g \in G : g.index >= f.index
    BY <2>1
  <2>3. g.index >= i
    BY <2>1, <2>2
  <2>4. QED
    BY <2>3 DEF CoveredBy
<1>3. QED
  BY <1>1, <1>2 DEF CoveredBy

\* Recoverable, in terms of the snapshots that every crash leaves.
LEMMA RecoverableSure ==
  /\ Recoverable <=> /\ CoveredBy(Sure, walFirst - 1) /\ CoveredBy(Sure, base.index)
                     /\ CoveredBy(Sure, dropped)
  /\ Recoverable' <=> /\ CoveredBy(Sure', walFirst' - 1) /\ CoveredBy(Sure', base'.index)
                      /\ CoveredBy(Sure', dropped')
BY DEF Recoverable, Covered, CoveredBy, Sure

\* A step that compacts nothing keeps what was compacted covered.
LEMMA KeepsRecoverable ==
  ASSUME StoreTypes, StoreTypes', Recoverable, UNCHANGED <<base, dropped, walFirst>>,
         \A f \in Sure : \E g \in Sure' : g.index >= f.index
  PROVE  Recoverable'
<1>1. (\A f \in Sure : f.index \in Nat) /\ (\A g \in Sure' : g.index \in Nat)
  BY DEF StoreTypes, Sure
<1>2. walFirst - 1 \in Int /\ base.index \in Int /\ dropped \in Int
  BY DEF StoreTypes, Meta
<1>3. \A i \in Int : CoveredBy(Sure, i) => CoveredBy(Sure', i)
  BY <1>1, CoverageKept
<1>4. CoveredBy(Sure', walFirst - 1) /\ CoveredBy(Sure', base.index) /\ CoveredBy(Sure', dropped)
  BY <1>2, <1>3, RecoverableSure
<1>5. QED
  BY <1>4, RecoverableSure

-----------------------------------------------------------------------------
(* One lemma per action.                                                   *)

\* A commit (replication.rs:147) touches neither the store nor the files.
LEMMA CommitInv ==
  ASSUME StoreInv, NEW i \in 1..MaxIndex, Commit(i)
  PROVE  StoreInv'
BY DEF StoreInv, StoreTypes, Exclusive, Written, Behind, Recoverable, Covered, Commit,
   storeVars, diskVars

\* take_committed (mod.rs:250) keeps the invariant.
LEMMA TakeCommittedInv ==
  ASSUME StoreInv, NEW t \in Task, TakeCommitted(t)
  PROVE  StoreInv'
<1> DEFINE upTo == Lesser(commit, base.index + MaxIndex - dropped)
           list == [k \in 1..(upTo - taken) |-> EntryAt(taken + k)]
           r == [task[t] EXCEPT !.pc = "taken", !.list = list]
<1>1. /\ StoreTypes /\ MaxIndex \in Nat /\ base.index \in Nat
      /\ commit \in Nat /\ taken \in Nat /\ dropped \in Nat
  BY StoreBoundAssumption DEF StoreInv, StoreTypes, Meta
<1>2. taken < commit /\ taken + 1 - base.index \in 1..(MaxIndex - dropped)
  <2>1. taken < commit /\ HasEntry(taken + 1)
    BY Zenon DEF TakeCommitted
  <2>2. QED
    BY <1>1, <2>1 DEF HasEntry
<1>3. upTo - taken \in Nat /\ upTo - taken > 0 /\ upTo \in Nat
  BY <1>1, <1>2 DEF Lesser
<1>4. \A k \in 1..(upTo - taken) : EntryAt(taken + k) \in Nat
  BY <1>1, <1>2, <1>3 DEF EntryAt
<1> HIDE DEF upTo
<1>5. list \in Seq(Nat) /\ list # <<>>
  BY <1>3, <1>4
<1>6. task' = [task EXCEPT ![t] = r] /\ taken' = upTo
  BY DEF TakeCommitted, upTo
<1> HIDE DEF list
<1>7. /\ r \in TaskState
      /\ r.pc = "taken" /\ r.list = list
  BY <1>1, <1>5 DEF StoreTypes, TaskState
<1> HIDE DEF r
<1>8. /\ task' \in [Task -> TaskState]
      /\ task'[t] = r
      /\ \A u \in Task : u # t => task'[u] = task[u]
  BY <1>1, <1>6, <1>7, OneTask
<1>9. UNCHANGED <<commit, base, dropped, table, up, snaps, unsure, walFirst>> /\ up
  BY DEF TakeCommitted, storeVars, diskVars, At
<1>10. StoreTypes'
  BY <1>1, <1>3, <1>6, <1>8, <1>9 DEF StoreTypes
<1>11. Exclusive'
  BY <1>5, <1>7, <1>8 DEF StoreInv, Exclusive, Holding
<1>12. Written'
  BY <1>7, <1>8, <1>9 DEF StoreInv, Written
<1>13. Behind' /\ Recoverable'
  BY <1>9 DEF StoreInv, Behind, Recoverable, Covered
<1>14. QED
  BY <1>10, <1>11, <1>12, <1>13 DEF StoreInv

\* Goto changes the pc of one task.
LEMMA GotoStep ==
  ASSUME StoreTypes, NEW t \in Task, NEW pc \in {"idle", "taken", "publish"} \cup Holding,
         Goto(t, pc)
  PROVE  /\ task' \in [Task -> TaskState]
         /\ task'[t].pc = pc /\ task'[t].list = task[t].list /\ task'[t].meta = task[t].meta
         /\ \A u \in Task : u # t => task'[u] = task[u]
<1> DEFINE r == [task[t] EXCEPT !.pc = pc]
<1>1. task[t] \in TaskState
  BY DEF StoreTypes
<1>2. r \in TaskState /\ r.pc = pc /\ r.list = task[t].list /\ r.meta = task[t].meta
  BY <1>1 DEF TaskState
<1>3. task' = [task EXCEPT ![t] = r]
  BY DEF Goto
<1> HIDE DEF r
<1>4. QED
  BY <1>2, <1>3, OneTask

\* A task leaves the part of apply_committed that holds the store lock, or the
\* whole of it, and touches neither the memtable nor the directory.
LEMMA LeaveInv ==
  ASSUME StoreInv, NEW t \in Task, up, task' \in [Task -> TaskState],
         task'[t].pc \in {"idle", "publish"}, \A u \in Task : u # t => task'[u] = task[u],
         UNCHANGED <<commit, taken, table, up, snaps, unsure>>,
         base' \in Meta, dropped' \in Nat, walFirst' \in Nat, Recoverable'
  PROVE  StoreInv'
<1>1. StoreTypes'
  BY DEF StoreInv, StoreTypes
<1>2. Exclusive'
  BY DEF StoreInv, Exclusive, Holding
<1>3. Written'
  BY DEF StoreInv, Written
<1>4. Behind'
  BY DEF StoreInv, Behind
<1>5. QED
  BY <1>1, <1>2, <1>3, <1>4 DEF StoreInv

\* A call that ends, with or without an error, keeps the invariant.
LEMMA QuitInv ==
  ASSUME StoreInv, NEW t \in Task, Publish(t) \/ SnapshotFails(t) \/ ClientGone(t)
  PROVE  StoreInv'
<1>1. /\ up /\ task' = [task EXCEPT ![t] = Idle]
      /\ UNCHANGED <<commit, taken, base, dropped, table, up, snaps, unsure, walFirst>>
  BY Zenon DEF Publish, SnapshotFails, ClientGone, At, MayUpset, coreVars, storeVars, diskVars
<1>2. /\ task' \in [Task -> TaskState] /\ task'[t] = Idle
      /\ \A u \in Task : u # t => task'[u] = task[u]
  BY <1>1, IdleType, OneTask DEF StoreInv
<1>3. Recoverable'
  BY <1>1 DEF StoreInv, Recoverable, Covered
<1>4. base' \in Meta /\ dropped' \in Nat /\ walFirst' \in Nat
  BY <1>1 DEF StoreInv, StoreTypes
<1>5. QED
  BY <1>1, <1>2, <1>3, <1>4, IdleType, LeaveInv

\* A compaction up to the index of a snapshot that is sure to survive.
LEMMA CompactCovered ==
  ASSUME StoreInv, NEW t \in Task, task[t].pc = "compact", UNCHANGED <<snaps, unsure>>,
         dropped' \in {dropped, Greater(dropped, task[t].meta.index)},
         base' \in {base, task[t].meta},
         walFirst' \in walFirst..Greater(walFirst, task[t].meta.index + 1)
  PROVE  base' \in Meta /\ dropped' \in Nat /\ walFirst' \in Nat /\ Recoverable'
<1>1. /\ StoreTypes /\ base \in Meta /\ dropped \in Nat /\ walFirst \in Nat
      /\ task[t] \in TaskState /\ task[t].meta \in Meta /\ task[t].meta.index \in Nat
  BY DEF StoreInv, StoreTypes, TaskState, Meta
<1>2. dropped' \in Nat /\ base' \in Meta /\ walFirst' \in Nat
  BY <1>1 DEF Greater
<1>3. Sure' = Sure
  BY DEF Sure
<1>4. PICK f \in Sure : f.index = task[t].meta.index
  BY DEF StoreInv, Written, Sure
<1>5. \A i \in Int : i <= task[t].meta.index => CoveredBy(Sure, i)
  BY <1>1, <1>4 DEF CoveredBy
<1>6. CoveredBy(Sure, walFirst - 1) /\ CoveredBy(Sure, base.index) /\ CoveredBy(Sure, dropped)
  BY RecoverableSure DEF StoreInv
<1>7. CoveredBy(Sure, dropped') /\ CoveredBy(Sure, base'.index)
  BY <1>1, <1>5, <1>6 DEF Greater, Meta
<1>8. CoveredBy(Sure, walFirst' - 1)
  <2>1. walFirst' - 1 = walFirst - 1 \/ walFirst' - 1 <= task[t].meta.index
    BY <1>1 DEF Greater
  <2>2. walFirst' - 1 \in Int
    BY <1>2
  <2>3. CASE walFirst' - 1 = walFirst - 1
    BY <1>6, <2>3
  <2>4. QED
    BY <1>5, <2>1, <2>2, <2>3
<1>9. QED
  BY <1>2, <1>3, <1>7, <1>8, RecoverableSure

\* compact (mod.rs:268) drops only what a sure snapshot covers.
LEMMA CompactInv ==
  ASSUME StoreInv, NEW t \in Task, Compact(t) \/ CompactFails(t)
  PROVE  StoreInv'
<1>1. /\ up /\ task[t].pc = "compact" /\ UNCHANGED <<commit, taken, table, up, snaps, unsure>>
      /\ Goto(t, "publish") \/ task' = [task EXCEPT ![t] = Idle]
  BY Zenon DEF Compact, CompactFails, At, MayUpset, storeVars
<1>2. StoreTypes /\ walFirst \in Nat /\ task[t].meta.index \in Nat
  BY DEF StoreInv, StoreTypes, TaskState, Meta
<1>3. /\ dropped' \in {dropped, Greater(dropped, task[t].meta.index)}
      /\ base' \in {base, task[t].meta}
      /\ walFirst' \in walFirst..Greater(walFirst, task[t].meta.index + 1)
  BY <1>2 DEF Compact, CompactFails, Greater
<1>4. base' \in Meta /\ dropped' \in Nat /\ walFirst' \in Nat /\ Recoverable'
  BY <1>1, <1>3, CompactCovered
<1>5. /\ task' \in [Task -> TaskState] /\ task'[t].pc \in {"idle", "publish"}
      /\ \A u \in Task : u # t => task'[u] = task[u]
  BY <1>1, <1>2, GotoStep, OneTask, IdleType
<1>6. QED
  BY <1>1, <1>4, <1>5, LeaveInv

\* Applying a batch under the store's lock (mod.rs:486) keeps the invariant.
LEMMA ApplyTakenInv ==
  ASSUME StoreInv, NEW t \in Task, ApplyTaken(t)
  PROVE  StoreInv'
<1>1. /\ StoreTypes /\ Exclusive /\ table.applied \in Nat /\ task[t] \in TaskState
      /\ task[t].list \in Seq(Nat)
  BY DEF StoreInv, StoreTypes, TaskState
<1>2. /\ up /\ task[t].pc = "taken" /\ (\A u \in Task : task[u].pc \notin Holding)
      /\ table' = ApplyAll(table, task[t].list)
      /\ UNCHANGED <<commit, taken, base, dropped, up, snaps, unsure, walFirst>>
  BY DEF ApplyTaken, At, Locked, Holding, coreVars, diskVars
<1>3. Last(task[t].list) \in Nat
  <2>1. Len(task[t].list) \in 1..Len(task[t].list)
    BY <1>1, <1>2 DEF Exclusive
  <2>2. QED
    BY <1>1, <2>1 DEF Last
<1>4. table'.applied = Greater(table.applied, Last(task[t].list))
  BY <1>2 DEF ApplyAll
<1>5. table'.applied \in Nat /\ table'.applied >= table.applied
  BY <1>1, <1>3, <1>4 DEF Greater
<1>6. PICK pc \in {"snapshot", "publish"} : Goto(t, pc)
  BY DEF ApplyTaken
<1>7. /\ task' \in [Task -> TaskState] /\ task'[t].pc = pc
      /\ \A u \in Task : u # t => task'[u] = task[u]
  BY <1>1, <1>6, GotoStep DEF Holding
<1>8. StoreTypes'
  BY <1>1, <1>2, <1>5, <1>7 DEF StoreTypes
<1>9. Exclusive'
  BY <1>1, <1>2, <1>7 DEF Exclusive
<1>10. Written'
  BY <1>2, <1>7 DEF Written, Holding
<1>11. Behind'
  <2>1. \A f \in snaps \cup unsure : f.index \in Nat
    BY <1>1 DEF StoreTypes
  <2>2. QED
    BY <1>1, <1>2, <1>5, <2>1 DEF StoreInv, Behind
<1>12. Recoverable'
  BY <1>2 DEF StoreInv, Recoverable, Covered
<1>13. QED
  BY <1>8, <1>9, <1>10, <1>11, <1>12 DEF StoreInv

\* term_at gives a term for every index.
LEMMA TermAtType ==
  ASSUME StoreTypes, NEW i \in Nat
  PROVE  TermAt(i) \in Nat
BY StoreBoundAssumption DEF StoreTypes, Meta, TermAt, HasEntry, EntryAt

\* The rename of a new snapshot (snapshot.rs:60) leaves the old one to fall
\* back on.
LEMMA RenameSnapshotInv ==
  ASSUME StoreInv, NEW t \in Task, RenameSnapshot(t)
  PROVE  StoreInv'
<1> DEFINE meta == [index |-> table.applied, term |-> TermAt(table.applied)]
           file == [index |-> meta.index, term |-> meta.term, map |-> table.map]
           same == {f \in snaps : f.index = meta.index}
           r == [task[t] EXCEPT !.pc = "sync", !.meta = meta]
<1>1. /\ StoreTypes /\ table.applied \in Nat /\ task[t] \in TaskState
      /\ \A f \in snaps \cup unsure : f.index \in Nat
  BY DEF StoreInv, StoreTypes
<1>2. meta \in Meta /\ meta.index = table.applied /\ meta.index \in Nat /\ meta.term \in Nat
  BY <1>1, TermAtType DEF Meta
<1>3. /\ up /\ task[t].pc = "snapshot" /\ task' = [task EXCEPT ![t] = r]
      /\ snaps' = (snaps \ same) \cup {file}
      /\ unsure' = (unsure \ same) \cup (IF same \subseteq unsure THEN {file} ELSE {})
      /\ UNCHANGED <<commit, taken, base, dropped, table, up, walFirst>>
  BY Zenon DEF RenameSnapshot, At, coreVars, storeVars
<1> HIDE DEF meta
<1>4. file.index = table.applied /\ file.index \in Nat /\ file.term \in Nat
  BY <1>2
<1>5. r \in TaskState /\ r.pc = "sync" /\ r.list = task[t].list /\ r.meta = meta
  BY <1>1, <1>2 DEF TaskState, Holding
<1> HIDE DEF file, r
<1>6. /\ task' \in [Task -> TaskState] /\ task'[t] = r
      /\ \A u \in Task : u # t => task'[u] = task[u]
  BY <1>1, <1>3, <1>5, OneTask
<1>7. \A f \in snaps' \cup unsure' : f \in snaps \cup unsure \/ f = file
  BY <1>3
<1>8. StoreTypes'
  BY <1>1, <1>3, <1>4, <1>6, <1>7 DEF StoreTypes
<1>9. Exclusive'
  BY <1>3, <1>5, <1>6 DEF StoreInv, Exclusive, Holding
<1>10. Written'
  <2>1. \A u \in Task : u # t => task'[u].pc \notin Holding
    BY <1>3, <1>6 DEF StoreInv, Exclusive, Holding
  <2>2. file \in snaps' /\ task'[t].pc = "sync" /\ task'[t].meta.index = table.applied
    BY <1>2, <1>3, <1>5, <1>6
  <2>3. QED
    BY <1>3, <1>4, <2>1, <2>2 DEF Written, Holding
<1>11. Behind'
  <2>1. \A f \in snaps' \cup unsure' : f.index <= table.applied
    BY <1>1, <1>4, <1>7 DEF StoreInv, Behind
  <2>2. \A f \in unsure' \ snaps' : f \in unsure \ snaps
    BY <1>3
  <2>3. QED
    BY <1>3, <2>1, <2>2 DEF StoreInv, Behind
<1>12. Recoverable'
  <2>1. ASSUME NEW f \in Sure
        PROVE  \E g \in Sure' : g.index >= f.index
    <3>1. CASE f \notin same
      <4>1. f # file
        BY <1>2, <1>4, <3>1 DEF Sure
      <4>2. f \in Sure'
        BY <1>3, <3>1, <4>1 DEF Sure
      <4>3. QED
        BY <1>1, <4>2 DEF Sure
    <3>2. CASE f \in same
      <4>1. unsure' = unsure \ same
        BY <1>3, <3>2 DEF Sure
      <4>2. file \notin unsure \ snaps
        BY <1>1, <1>4 DEF StoreInv, Behind
      <4>3. file \in Sure'
        BY <1>2, <1>3, <1>4, <4>1, <4>2 DEF Sure
      <4>4. QED
        BY <1>2, <1>4, <3>2, <4>3
    <3>3. QED
      BY <3>1, <3>2
  <2>2. QED
    BY <1>1, <1>3, <1>8, <2>1, KeepsRecoverable DEF StoreInv
<1>13. QED
  BY <1>8, <1>9, <1>10, <1>11, <1>12 DEF StoreInv

\* The fsync of the directory (snapshot.rs:61) makes the new snapshot sure.
LEMMA FsyncDirInv ==
  ASSUME StoreInv, NEW t \in Task, FsyncDir(t)
  PROVE  StoreInv'
<1>1. StoreTypes /\ Exclusive /\ Written
  BY DEF StoreInv
<1>2. /\ up /\ task[t].pc = "sync" /\ unsure' = {} /\ Goto(t, "prune")
      /\ UNCHANGED <<commit, taken, base, dropped, table, up, snaps, walFirst>>
  BY DEF FsyncDir, At, coreVars, storeVars
<1>3. /\ task' \in [Task -> TaskState]
      /\ task'[t].pc = "prune" /\ task'[t].list = task[t].list /\ task'[t].meta = task[t].meta
      /\ \A u \in Task : u # t => task'[u] = task[u]
  BY <1>1, <1>2, GotoStep DEF Holding
<1>4. StoreTypes'
  BY <1>1, <1>2, <1>3 DEF StoreTypes
<1>5. Exclusive'
  BY <1>1, <1>2, <1>3 DEF Exclusive, Holding
<1>6. Written'
  <2>1. \A u \in Task : u # t => task'[u].pc \notin Holding
    BY <1>1, <1>2, <1>3 DEF Exclusive, Holding
  <2>2. QED
    BY <1>1, <1>2, <1>3, <2>1 DEF Written, Holding
<1>7. Behind'
  BY <1>2 DEF StoreInv, Behind
<1>8. Recoverable'
  <2>1. \A f \in Sure : f \in Sure' /\ f.index \in Nat
    BY <1>1, <1>2 DEF Sure, StoreTypes
  <2>2. \A f \in Sure : \E g \in Sure' : g.index >= f.index
    BY <2>1
  <2>3. QED
    BY <1>2, <1>4, <2>2, KeepsRecoverable DEF StoreInv
<1>9. QED
  BY <1>4, <1>5, <1>6, <1>7, <1>8 DEF StoreInv

\* Removing the other snapshots (snapshot.rs:63) keeps the newest.
LEMMA PruneInv ==
  ASSUME StoreInv, NEW t \in Task, Prune(t)
  PROVE  StoreInv'
<1>1. /\ StoreTypes /\ Exclusive /\ Written /\ Behind /\ table.applied \in Nat
      /\ \A f \in snaps \cup unsure : f.index \in Nat
  BY DEF StoreInv, StoreTypes
<1>2. /\ up /\ task[t].pc = "prune" /\ Goto(t, "compact")
      /\ UNCHANGED <<commit, taken, base, dropped, table, up, walFirst>>
  BY Zenon DEF Prune, At, coreVars
<1>3. PICK gone \in SUBSET {f \in snaps : f.index # task[t].meta.index} :
        snaps' = snaps \ gone /\ unsure' = unsure \cup gone
  BY DEF Prune
<1>4. task[t].meta.index = table.applied
  BY <1>1, <1>2 DEF Written
<1>5. PICK own \in Sure : own.index = task[t].meta.index
  BY <1>1, <1>2 DEF Written, Sure
<1>6. own \in Sure'
  BY <1>3, <1>5 DEF Sure
<1>7. /\ task' \in [Task -> TaskState]
      /\ task'[t].pc = "compact" /\ task'[t].list = task[t].list /\ task'[t].meta = task[t].meta
      /\ \A u \in Task : u # t => task'[u] = task[u]
  BY <1>1, <1>2, GotoStep DEF Holding
<1>8. snaps' \cup unsure' \subseteq snaps \cup unsure
  BY <1>3
<1>9. StoreTypes'
  BY <1>1, <1>2, <1>7, <1>8 DEF StoreTypes
<1>10. Exclusive'
  BY <1>1, <1>2, <1>7 DEF Exclusive, Holding
<1>11. Written'
  <2>1. \A u \in Task : u # t => task'[u].pc \notin Holding
    BY <1>1, <1>2, <1>7 DEF Exclusive, Holding
  <2>2. QED
    BY <1>2, <1>4, <1>5, <1>6, <1>7, <2>1 DEF Written, Holding, Sure
<1>12. Behind'
  <2>1. \A f \in unsure' \ snaps' : f \in unsure \ snaps \/ f \in gone
    BY <1>3
  <2>2. \A f \in gone : f.index < table.applied
    BY <1>1, <1>3, <1>4 DEF Behind
  <2>3. QED
    BY <1>1, <1>2, <1>8, <2>1, <2>2 DEF Behind
<1>13. Recoverable'
  <2>1. \A f \in Sure : own.index >= f.index
    BY <1>1, <1>4, <1>5 DEF Behind, Sure
  <2>2. QED
    BY <1>1, <1>2, <1>6, <1>9, <2>1, KeepsRecoverable DEF StoreInv
<1>14. QED
  BY <1>9, <1>10, <1>11, <1>12, <1>13 DEF StoreInv

\* A crash between any two of these steps keeps the invariant.
LEMMA StoreCrashInv ==
  ASSUME StoreInv, Crash
  PROVE  StoreInv'
<1>1. PICK kept \in SUBSET unsure : snaps' = (snaps \ unsure) \cup kept
  BY DEF Crash
<1>2. /\ ~up' /\ unsure' = {} /\ task' = [u \in Task |-> Idle]
      /\ UNCHANGED <<commit, taken, base, dropped, table, walFirst>>
  BY DEF Crash, coreVars, storeVars
<1>3. \A u \in Task : task'[u] = Idle
  BY <1>2
<1>4. StoreTypes'
  BY <1>1, <1>2, IdleType DEF StoreInv, StoreTypes
<1>5. Exclusive' /\ Written'
  BY <1>3, IdleType DEF Exclusive, Written, Holding
<1>6. Behind'
  BY <1>1, <1>2, <1>3 DEF StoreInv, Behind
<1>7. Recoverable'
  <2>1. \A f \in Sure : f \in Sure' /\ f.index \in Nat
    BY <1>1, <1>2 DEF Sure, StoreInv, StoreTypes
  <2>2. \A f \in Sure : \E g \in Sure' : g.index >= f.index
    BY <2>1
  <2>3. QED
    BY <1>2, <1>4, <2>2, KeepsRecoverable DEF StoreInv
<1>8. QED
  BY <1>4, <1>5, <1>6, <1>7 DEF StoreInv

\* load_latest finds a file, and none is newer.
LEMMA NewestExists ==
  ASSUME NEW F, F # {}, NEW top \in Nat, \A f \in F : f.index \in Nat /\ f.index <= top
  PROVE  Newest(F) \in F /\ \A g \in F : g.index <= Newest(F).index
<1> DEFINE T == {top - f.index : f \in F}
<1>1. T \in SUBSET Nat /\ T # {}
  OBVIOUS
<1> HIDE DEF T
<1>2. PICK x \in T : \A y \in T : x <= y
  BY <1>1, LeastNatural
<1>3. PICK f \in F : x = top - f.index
  BY DEF T
<1>4. ASSUME NEW g \in F PROVE g.index <= f.index
  <2>1. top - g.index \in T
    BY DEF T
  <2>2. top - f.index <= top - g.index
    BY <1>2, <1>3, <2>1
  <2>3. QED
    BY <2>2
<1>5. QED
  BY <1>4, Zenon DEF Newest

\* bootstrap (mod.rs:299) loads a snapshot that covers what was compacted.
LEMMA BootstrapInv ==
  ASSUME StoreInv, Bootstrap
  PROVE  StoreInv'
<1> DEFINE file == Newest(snaps)
<1>1. /\ StoreTypes /\ Behind /\ table.applied \in Nat /\ walFirst \in Nat
      /\ \A f \in snaps \cup unsure : f.index \in Nat /\ f.term \in Nat
  BY DEF StoreInv, StoreTypes
<1>2. /\ ~up /\ up' /\ table'.applied = file.index /\ commit' = file.index /\ taken' = file.index
      /\ base' = [index |-> file.index, term |-> file.term]
      /\ dropped' = Greater(file.index, walFirst - 1)
      /\ UNCHANGED <<task, snaps, unsure, walFirst>>
  BY DEF Bootstrap, diskVars
<1>3. unsure = {} /\ \A u \in Task : task[u] = Idle
  BY <1>1, <1>2 DEF Behind
<1>4. /\ file.index \in Nat /\ file.term \in Nat
      /\ file.index = 0 \/ file \in snaps
      /\ \A g \in snaps : g.index <= file.index
  <2>1. CASE snaps = {}
    BY <2>1 DEF Newest
  <2>2. CASE snaps # {}
    <3>1. \A f \in snaps : f.index \in Nat /\ f.index <= table.applied
      BY <1>1 DEF Behind
    <3>2. file \in snaps /\ \A g \in snaps : g.index <= file.index
      BY <1>1, <2>2, <3>1, NewestExists
    <3>3. QED
      BY <1>1, <3>2
  <2>3. QED
    BY <2>1, <2>2
<1> HIDE DEF file
<1>5. StoreTypes'
  BY <1>1, <1>2, <1>4 DEF StoreTypes, Meta, Greater
<1>6. Exclusive' /\ Written'
  BY <1>2, <1>3, IdleType DEF Exclusive, Written, Holding
<1>7. Behind'
  BY <1>2, <1>3, <1>4 DEF Behind
<1>8. Recoverable'
  <2>1. Sure' = Sure /\ Sure = snaps
    BY <1>2, <1>3 DEF Sure
  <2>2. CoveredBy(Sure, file.index) /\ CoveredBy(Sure, walFirst - 1)
    BY <1>4, <2>1, RecoverableSure DEF CoveredBy, StoreInv
  <2>3. dropped' \in {file.index, walFirst - 1} /\ base'.index = file.index
    BY <1>2 DEF Greater
  <2>4. QED
    BY <1>2, <2>1, <2>2, <2>3, RecoverableSure
<1>9. QED
  BY <1>5, <1>6, <1>7, <1>8 DEF StoreInv

\* A stuttering step keeps the invariant.
LEMMA StoreStutterInv ==
  ASSUME StoreInv, UNCHANGED vars
  PROVE  StoreInv'
BY DEF StoreInv, StoreTypes, Exclusive, Written, Behind, Recoverable, Covered, vars

\* Every step of the node keeps the invariant.
LEMMA StoreNextInv == StoreInv /\ [Next]_vars => StoreInv'
<1> SUFFICES ASSUME StoreInv, [Next]_vars PROVE StoreInv'
  OBVIOUS
<1>1. CASE UNCHANGED vars
  BY <1>1, StoreStutterInv
<1>2. CASE Next
  BY <1>2, CommitInv, TakeCommittedInv, ApplyTakenInv, RenameSnapshotInv, FsyncDirInv,
     PruneInv, CompactInv, QuitInv, StoreCrashInv, BootstrapInv DEF Next, Step
<1>3. QED
  BY <1>1, <1>2

-----------------------------------------------------------------------------
\* Whatever a crash leaves of the snapshot directory, and whatever overlaps, is
\* dropped or fails in apply_committed, a snapshot that covers everything that
\* compact() removed, in memory or on disk, survives.
THEOREM LogIsRecoverable == Spec => []Recoverable
<1>1. StoreInv => Recoverable
  BY DEF StoreInv
<1>2. QED
  BY <1>1, StoreInitInv, StoreNextInv, PTL DEF Spec
=============================================================================
