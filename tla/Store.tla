------------------------------- MODULE Store -------------------------------
(***************************************************************************)
(* How one node turns committed entries into state: apply_committed of the *)
(* driver (raft/mod.rs), run at the same time by the tick loop and by put  *)
(* and delete handlers, the state machine and its snapshots (src/store),   *)
(* the compaction that follows a snapshot, and bootstrap() after a crash.  *)
(*                                                                         *)
(* A step is what a task does between two awaits, between two locks, or    *)
(* up to one system call that a crash may follow.  The store lock is held  *)
(* from ApplyTaken to the end of the snapshot; the core lock only inside a *)
(* step.                                                                   *)
(*                                                                         *)
(* The log is given: MaxIndex entries are in the WAL, and the commit index *)
(* moves over them (Raft.tla has the reasons).  Entry i has term i, so     *)
(* that a wrong term shows.  The build is a release build: a debug build   *)
(* panics where the memtable meets a gap.                                  *)
(***************************************************************************)
EXTENDS Integers, Sequences, FiniteSets, SequencesExt, FiniteSetsExt

CONSTANTS
  Handler,           \* put and delete requests that are being served
  Driver,            \* the task that runs Raft::run
  Key, Val,
  Absent,            \* what get() finds for a key that is not in the map
  SnapshotThreshold, \* Config::snapshot_threshold
  MaxIndex,          \* bound: the length of the log
  MaxUpsets,         \* bound: kinds of upset in a behaviour
  MaxCrashes         \* bound on crashes

ASSUME TaskAssumption == Driver \notin Handler
ASSUME DataAssumption == Absent \notin Val
ASSUME StoreBoundAssumption ==
  /\ SnapshotThreshold \in Nat \ {0}
  /\ MaxIndex \in Nat
  /\ MaxUpsets \in Nat
  /\ MaxCrashes \in Nat

VARIABLES
  log,        \* the commands of the log, by index; fixed
  commit,     \* RaftCore.commit_index
  taken,      \* RaftCore.last_applied
  base,       \* RaftCore.snapshot
  dropped,    \* RaftCore.entries holds the entries dropped+1..MaxIndex
  table,      \* Store.memtable
  lastSnap,   \* Store.last_snapshot.last_included_index
  published,  \* the value in the commit watch channel
  task,       \* where each task is in apply_committed
  up,         \* is the process running?
  snaps,      \* snapshot files in the directory
  unsure,     \* files whose presence a crash decides: renamed or unlinked
              \* since the directory was last fsynced
  walFirst,   \* the lowest index in the WAL
  upsets,     \* ghost: what has gone wrong so far, see Upset
  crashes     \* how many crashes there were, for the bound

coreVars  == <<commit, taken, base, dropped>>
storeVars == <<table, lastSnap>>
diskVars  == <<snaps, unsure, walFirst>>
vars == <<log, commit, taken, base, dropped, table, lastSnap, published, task, up,
          snaps, unsure, walFirst, upsets, crashes>>

Task == Handler \cup {Driver}

\* Command::Put, Command::Delete and Command::Noop.
Command == [op : {"put"}, key : Key, val : Val] \cup [op : {"delete"}, key : Key] \cup [op : {"noop"}]

Map == [Key -> Val \cup {Absent}]
Meta == [index : Nat, term : Nat]
MemTable == [map : Map, applied : Nat]
SnapshotFile == [index : Nat, term : Nat, map : Map]

\* Two calls between take and apply at the same time; a call dropped because
\* its client went away; a commit index published after a higher one; an I/O
\* error in Store::snapshot or in RaftCore::compact.
Upset == {"overlap", "cancel", "late", "snapshot", "compact"}

Idle == [pc |-> "idle", list |-> <<>>, meta |-> [index |-> 0, term |-> 0]]

EmptyMap == [k \in Key |-> Absent]

Lesser(a, b) == IF a < b THEN a ELSE b
Greater(a, b) == IF a > b THEN a ELSE b

-----------------------------------------------------------------------------
Updated(map, c) ==
  CASE c.op = "put"    -> [map EXCEPT ![c.key] = c.val]
    [] c.op = "delete" -> [map EXCEPT ![c.key] = Absent]
    [] c.op = "noop"   -> map

\* MemTable::apply for each index of an ascending list: one that is at or below
\* last_applied is ignored.
ApplyAll(t, list) ==
  LET fresh == SelectSeq(list, LAMBDA i : i > t.applied)
  IN  [map |-> FoldLeft(LAMBDA m, i : Updated(m, log[i]), t.map, fresh),
       applied |-> Greater(t.applied, Last(list))]

\* entry_at(i) and term_at(i): positions in `entries' counted from the marker.
HasEntry(i) == i - base.index \in 1..(MaxIndex - dropped)
EntryAt(i) == dropped + i - base.index

\* Fault: no default for a term that is not known.
TermAtOrNone(i) == IF i = base.index THEN base.term ELSE IF HasEntry(i) THEN EntryAt(i) ELSE -1

TermAt(i) == IF i = base.index THEN base.term ELSE IF HasEntry(i) THEN EntryAt(i) ELSE 0

ShouldSnapshot(t) == Greater(0, t.applied - lastSnap) >= SnapshotThreshold

-----------------------------------------------------------------------------
Init ==
  /\ log \in [1..MaxIndex -> Command]
  /\ commit = 0 /\ taken = 0 /\ dropped = 0
  /\ base = [index |-> 0, term |-> 0]
  /\ table = [map |-> EmptyMap, applied |-> 0]
  /\ lastSnap = 0
  /\ published = 0
  /\ task = [t \in Task |-> Idle]
  /\ up = TRUE
  /\ snaps = {} /\ unsure = {}
  /\ walFirst = 1
  /\ upsets = {}
  /\ crashes = 0

\* advance_commit_index or handle_append_entries moves the commit index.
Commit(i) ==
  /\ up
  /\ commit < i
  /\ commit' = i
  /\ UNCHANGED <<log, taken, base, dropped, storeVars, published, task, up, diskVars,
                 upsets, crashes>>

At(t, pc) == up /\ task[t].pc = pc

Goto(t, pc) == task' = [task EXCEPT ![t].pc = pc]

\* May `what' happen (again)?
MayUpset(what) == up /\ Cardinality(upsets \cup {what}) <= MaxUpsets

\* take_committed, under the core lock.
TakeCommitted(t) ==
  LET upTo == Lesser(commit, base.index + MaxIndex - dropped)
      pending == \E u \in Task : task[u].pc = "taken"
  IN
  /\ At(t, "idle")
  /\ taken < commit
  /\ HasEntry(taken + 1)
  /\ pending => MayUpset("overlap")
  /\ task' = [task EXCEPT ![t] =
       [@ EXCEPT !.pc = "taken", !.list = [k \in 1..(upTo - taken) |-> EntryAt(taken + k)]]]
  /\ taken' = upTo
  /\ upsets' = IF pending THEN upsets \cup {"overlap"} ELSE upsets
  /\ UNCHANGED <<log, commit, base, dropped, storeVars, published, up, diskVars, crashes>>

Locked == \E t \in Task : task[t].pc \in {"snapshot", "sync", "prune", "compact"}

\* Take the store lock and apply the list; snapshot if should_snapshot.
ApplyTaken(t) ==
  /\ At(t, "taken")
  /\ ~Locked
  /\ table' = ApplyAll(table, task[t].list)
  /\ Goto(t, IF ShouldSnapshot(table') THEN "snapshot" ELSE "publish")
  /\ UNCHANGED <<log, coreVars, lastSnap, published, up, diskVars, upsets, crashes>>

\* Store::snapshot up to the rename.  The temporary file that snapshot::write
\* fills and fsyncs first is not a snapshot to discover().  A file of the same
\* index is replaced under its name, which a crash keeps if it was durable.
RenameSnapshot(t) ==
  LET meta == [index |-> table.applied, term |-> TermAt(table.applied)]
      file == [index |-> meta.index, term |-> meta.term, map |-> table.map]
      same == {f \in snaps : f.index = meta.index}
  IN
  /\ At(t, "snapshot")
  /\ snaps' = (snaps \ same) \cup {file}
  /\ unsure' = (unsure \ same) \cup (IF same \subseteq unsure THEN {file} ELSE {})
  /\ task' = [task EXCEPT ![t] = [@ EXCEPT !.pc = "sync", !.meta = meta]]
  /\ UNCHANGED <<log, coreVars, storeVars, published, up, walFirst, upsets, crashes>>

\* Fault: snapshot::write does not fsync the directory.
SkipFsyncDir(t) ==
  /\ At(t, "sync")
  /\ Goto(t, "prune")
  /\ UNCHANGED <<log, coreVars, storeVars, published, up, diskVars, upsets, crashes>>

FsyncDir(t) ==
  /\ At(t, "sync")
  /\ unsure' = {}
  /\ Goto(t, "prune")
  /\ UNCHANGED <<log, coreVars, storeVars, published, up, snaps, walFirst, upsets, crashes>>

\* Every other file is unlinked, best effort; then last_snapshot is set.
Prune(t) ==
  LET others == {f \in snaps : f.index # task[t].meta.index}
  IN
  /\ At(t, "prune")
  /\ \E gone \in SUBSET others : snaps' = snaps \ gone /\ unsure' = unsure \cup gone
  /\ lastSnap' = task[t].meta.index
  /\ Goto(t, "compact")
  /\ UNCHANGED <<log, coreVars, table, published, up, walFirst, upsets, crashes>>

\* RaftCore::compact, under the core lock; truncate_prefix deletes whole
\* segments only.  The store lock is released.
Compact(t) ==
  LET meta == task[t].meta
  IN
  /\ At(t, "compact")
  /\ IF meta.index <= base.index
     THEN UNCHANGED <<base, dropped, walFirst>>
     ELSE /\ dropped' = Greater(dropped, meta.index)
          /\ base' = meta
          /\ walFirst' \in walFirst..Greater(walFirst, meta.index + 1)
  /\ Goto(t, "publish")
  /\ UNCHANGED <<log, commit, taken, storeVars, published, up, snaps, unsure, upsets, crashes>>

\* Fault: the index before the last is sent.
LatestButOne(list) == Last(list) - 1

Latest(list) == Last(list)

\* commit_tx.send(latest): the value is replaced, whatever it was.
Publish(t) ==
  LET latest == Latest(task[t].list)
  IN
  /\ At(t, "publish")
  /\ latest < published => MayUpset("late")
  /\ published' = latest
  /\ upsets' = IF latest < published THEN upsets \cup {"late"} ELSE upsets
  /\ task' = [task EXCEPT ![t] = Idle]
  /\ UNCHANGED <<log, coreVars, storeVars, up, diskVars, crashes>>

-----------------------------------------------------------------------------
\* An I/O error in snapshot::write: apply_committed returns early.
SnapshotFails(t) ==
  /\ task[t].pc \in {"snapshot", "sync", "prune"}
  /\ MayUpset("snapshot")
  /\ upsets' = upsets \cup {"snapshot"}
  /\ task' = [task EXCEPT ![t] = Idle]
  /\ UNCHANGED <<log, coreVars, storeVars, published, up, diskVars, crashes>>

\* An I/O error in truncate_prefix: the entries are gone from memory, some
\* files may be gone too, and the marker stays.
CompactFails(t) ==
  /\ task[t].pc = "compact"
  /\ task[t].meta.index > base.index
  /\ MayUpset("compact")
  /\ upsets' = upsets \cup {"compact"}
  /\ dropped' = Greater(dropped, task[t].meta.index)
  /\ walFirst' \in walFirst..Greater(walFirst, task[t].meta.index + 1)
  /\ task' = [task EXCEPT ![t] = Idle]
  /\ UNCHANGED <<log, commit, taken, base, storeVars, published, up, snaps, unsure, crashes>>

\* The client of a put or delete goes away: the server drops the handler's
\* future where it awaits a lock.
ClientGone(t) ==
  /\ t \in Handler
  /\ task[t].pc \in {"taken", "snapshot", "compact"}
  /\ MayUpset("cancel")
  /\ upsets' = upsets \cup {"cancel"}
  /\ task' = [task EXCEPT ![t] = Idle]
  /\ UNCHANGED <<log, coreVars, storeVars, published, up, diskVars, crashes>>

Crash ==
  /\ up
  /\ crashes < MaxCrashes
  /\ crashes' = crashes + 1
  /\ up' = FALSE
  /\ \E kept \in SUBSET unsure : snaps' = (snaps \ unsure) \cup kept
  /\ unsure' = {}
  /\ task' = [t \in Task |-> Idle]
  /\ UNCHANGED <<log, coreVars, storeVars, published, walFirst, upsets>>

\* Fault: the file of the lowest index.
Oldest(files) ==
  IF files = {} THEN [index |-> 0, term |-> 0, map |-> EmptyMap]
  ELSE CHOOSE f \in files : \A g \in files : f.index <= g.index

\* snapshot::load_latest: the file of the highest index.
Newest(files) ==
  IF files = {} THEN [index |-> 0, term |-> 0, map |-> EmptyMap]
  ELSE CHOOSE f \in files : \A g \in files : g.index <= f.index

\* Store::open, Log::open, RaftCore::restore and the new watch channel.
Bootstrap ==
  LET file == Newest(snaps)
      meta == [index |-> file.index, term |-> file.term]
  IN
  /\ ~up
  /\ up' = TRUE
  /\ table' = [map |-> file.map, applied |-> file.index]
  /\ lastSnap' = meta.index
  /\ base' = meta
  /\ dropped' = Greater(meta.index, walFirst - 1)
  /\ commit' = meta.index /\ taken' = meta.index
  /\ published' = meta.index
  /\ UNCHANGED <<log, task, diskVars, upsets, crashes>>

Step(t) ==
  \/ TakeCommitted(t)
  \/ ApplyTaken(t)
  \/ RenameSnapshot(t)
  \/ FsyncDir(t)
  \/ Prune(t)
  \/ Compact(t)
  \/ Publish(t)

Next ==
  \/ \E i \in 1..MaxIndex : Commit(i)
  \/ \E t \in Task : Step(t)
  \/ \E t \in Task : SnapshotFails(t)
  \/ \E t \in Task : CompactFails(t)
  \/ \E t \in Task : ClientGone(t)
  \/ Crash
  \/ Bootstrap

\* The runtime keeps polling every task, and tokio's mutex is first come, first
\* served; a handler that has nothing to take need not come back.
Fairness ==
  /\ WF_vars(TakeCommitted(Driver))
  /\ \A t \in Task : WF_vars(~At(t, "idle") /\ Step(t))
  /\ WF_vars(Bootstrap)

Spec == Init /\ [][Next]_vars /\ Fairness

-----------------------------------------------------------------------------
\* Types; in particular TermAt finds a term for every snapshot.
TypeOK ==
  /\ log \in [1..MaxIndex -> Command]
  /\ commit \in Nat /\ taken \in Nat /\ dropped \in Nat
  /\ base \in Meta
  /\ table \in MemTable
  /\ lastSnap \in Nat
  /\ published \in Nat
  /\ task \in [Task -> [pc : {"idle", "taken", "snapshot", "sync", "prune", "compact", "publish"},
                        list : Seq(Nat), meta : Meta]]
  /\ up \in BOOLEAN
  /\ snaps \in SUBSET SnapshotFile /\ unsure \in SUBSET SnapshotFile
  /\ walFirst \in Nat
  /\ upsets \in SUBSET Upset
  /\ crashes \in Nat

\* The first i commands, replayed on an empty map.
Replay(i) == FoldLeft(Updated, EmptyMap, SubSeq(log, 1, i))

\* The map is the replay of the first last_applied commands, and so is every
\* snapshot, with the term of its last entry: entries are applied once and in
\* order through crashes at any step and failed snapshots, as long as no two
\* apply_committed calls overlap between take and apply, none is dropped there,
\* and no compaction fails half way ("state machine applied out of order",
\* memtable.rs:45).
StateExact ==
  upsets \subseteq {"snapshot", "late"} =>
    /\ table.map = Replay(table.applied)
    /\ \A f \in snaps \cup unsure : f.map = Replay(f.index) /\ f.term = f.index

\* A snapshot that a crash cannot lose covers the first i entries.
Covered(i) == i = 0 \/ \E f \in snaps \ unsure : f.index >= i

\* Whatever a crash leaves of the snapshot directory, the newest file and the
\* WAL above it leave no index out: nothing is compacted, in memory or on disk,
\* before a snapshot of that index or a higher one is sure to survive ("every WAL
\* record at or below last_included_index can be dropped", snapshot.rs:2),
\* whatever overlaps, is dropped or fails.  What the snapshot holds is
\* StateExact's business.
Recoverable == Covered(walFirst - 1) /\ Covered(base.index) /\ Covered(dropped)

\* Once an index is committed on a running node, the watch channel reaches it,
\* which is what wakes the client ("publish the new commit index to waiters",
\* mod.rs:476), unless the node crashes or something upsets it.
WaitersWoken ==
  \A i \in 1..MaxIndex : (up /\ commit >= i) ~> (published >= i \/ ~up \/ upsets # {})
=============================================================================
