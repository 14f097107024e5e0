# Verification of wal-kv

TLA+ models of wal-kv (a key/value store over a write-ahead log and Raft), the
TLC configurations that check them on small instances, and TLAPS proofs of the
results that hold for every instance. Paths such as `raft/mod.rs` are relative
to the crate's `src/`.

## 1. The system

    client --gRPC--> rpc/service.rs --> Raft::propose --> WAL (fsync) --> store
                                          |
                                          +-- AppendEntries to the peers

| part | source | state | operations |
|---|---|---|---|
| record framing | `wal/record.rs` | bytes of one record | `write_record`, `read_record` |
| segments | `wal/segment.rs` | one file: bytes, record count, base index, what is buffered | `create`, `recover`, `append`, `sync`, `iter`, `remove` |
| log | `wal/log.rs` | the segments, `first_index`, `last_index` | `open`, `append` (rotates), `sync`, `read_all`, `truncate_prefix`, `truncate_suffix` |
| hard state | `raft/state.rs` | `current_term`, `voted_for` on disk | `load`, `persist` (temp file, fsync, rename, fsync of the directory) |
| elections | `raft/election.rs`, `raft/mod.rs` | role, term, vote, votes counted | `become_candidate`, `become_follower`, `become_leader`, `handle_request_vote`, `start_election` |
| replication | `raft/replication.rs`, `raft/mod.rs` | entries, commit index, next and match indices | `build_append_entries`, `handle_append_entries`, `on_append_entries_reply`, `advance_commit_index`, `propose`, `broadcast_append_entries` |
| restore, apply, compact | `raft/mod.rs` | snapshot marker, `last_applied` | `restore`, `take_committed`, `apply_committed`, `compact` |
| lease | `raft/lease.rs` | expiry instant | `renew`, `invalidate`, `is_valid` |
| driver | `raft/mod.rs` | none of its own | `run`, `tick` |
| state machine | `store/memtable.rs`, `store/mod.rs` | the map, the last snapshot's index | `apply`, `should_snapshot`, `snapshot` |
| snapshots | `store/snapshot.rs` | files | `write`, `load_latest` |
| client service | `rpc/service.rs` | none | `get`, `put`, `delete`, `wait_for_commit` |
| peer transport | `rpc/service.rs` | connections | `request_vote`, `append_entries` |
| configuration, binary, errors | `config.rs`, `main.rs`, `lib.rs` | none that changes | parsing, wiring |

What makes it hard:

- **One lock per node, many tasks.** Every handler runs under the core lock, but
  `start_election`, `broadcast_append_entries`, `apply_committed` and the client
  calls release it and take it again; what they saw before may be stale.
- **RPCs** are lost, late, and answered after the sender moved on to another
  term or another role.
- **Crashes** fall between any two system calls. The hard state and the fsynced
  part of the WAL survive; buffered records may be torn, partly written or
  written back out of order.
- **Operations on several files** (`truncate_prefix`, `truncate_suffix`, a batch
  that rotates, a snapshot and the compaction after it) are not atomic.
- **Failures that leave the process running**: `persist`, a snapshot or a
  compaction may return an error half way, and a client may go away while its
  handler holds a batch of committed entries.
- **Boundaries**: the position `quorum - 1` of a sorted list, `next_index` at 1,
  an empty segment, the first index above a snapshot, a cluster of one.

What each part has to guarantee is stated in section 3, and the hazards are
listed with their lines in `PROJECT.json`.

## 2. The modules

| module | models | how |
|---|---|---|
| `Wal` | `wal/` | one log and its files, every multi-file operation step by step, crash and recovery |
| `DurableLog` | | what a log promises its caller; `Wal` implements it |
| `HardState` | `raft/state.rs`, its callers | term and vote of one node in memory and on disk, system call by system call |
| `Ballot` | | what elections need of a term and a vote; `HardState` implements it |
| `Raft` | `raft/` without the lease; the metadata of snapshots | the cluster: cores, tasks that hold a core's lock in turn, RPCs in flight, crashes |
| `CatchUp` | the leader's loop in `raft/mod.rs`, `raft/replication.rs` | `Raft`'s steps of a stable leader and one follower, with fairness |
| `Store` | `store/`, `apply_committed`, `compact`, `bootstrap` | one node's state machine and snapshots, with several tasks applying at once |
| `Kv` | `KvService` in `rpc/service.rs` | clients on a cluster of `Raft` nodes |
| `MCWal`, `MCHardState`, `MCRaft`, `MCCatchUp`, `MCStore`, `MCKv` | | the above for TLC: symmetry, views, reductions |
| `WalProofs`, `WalStreamProofs` | | theorems about `Wal` |
| `HardStateProofs` | | theorems about `HardState`, the refinement of `Ballot` included |
| `RaftTypeProofs`, `RaftVoteProofs` | | theorems about `Raft` |
| `StoreProofs` | | a theorem about `Store` |
| `LeastElement` | | the least-element principle that several proofs use |

How they fit together: `Raft` takes three things as one step each that other
modules take apart. "Change the hard state, persist it, answer" is one step of
`Raft` and several of `HardState`. A write to the log with its fsync is one step of
`Raft`; `Wal` has the files below it. `apply_committed` is one step of `Raft` and of
`Kv`; `Store` has its locks, files and failures. `CatchUp` and `Kv` are built on
`Raft` itself: the first extends it, the second instantiates it.

### Wal

A log has a single caller, which holds the core lock across each call and ends
every batch of appends with `sync()`. So operations run one at a time, and only
a crash interleaves with them.

- `segments` is both `Log.segments` and the directory. A segment has a base index,
  its contents `recs`, and `synced`, the number of leading records that an fsync
  covers. A file's contents are the results that `read_record` gives on it:
  payloads, then possibly `Corrupt` (bad checksum) and `Torn` (cut short).
  A record is one unit long, so `bytes` and `count` are both the length.
- `AppendRecord` is `append` with its rotation. `SyncSegment` is one iteration of
  `sync`'s loop and `SyncReturns` its return, after which the caller may answer.
- `truncate_prefix` is `TruncatePrefix`, `RemoveFirstSegment` (repeated),
  `PrefixDone`. `truncate_suffix` is `TruncateSuffix`, `RemoveLastSegment`
  (repeated), `RemoveStraddling`, `RewriteStraddling`, `SuffixDone`. The variable
  `op` says which of them is in progress.
- `Crash` (external: the operating system) leaves of every file its fsynced
  records and then a prefix of the others, cut cleanly, inside a record, or at a
  half-written record (`OrderedImages`); or, when pages are written back out of
  order, with whole records after that one (`Images`).
- `Open` is `Log::open` with `Segment::recover` on every file; `OpenRefused` is
  its `Error::Corruption`.
- Two ghosts: `acked` is what `sync()` has acknowledged and the caller has not asked
  to drop since; `harm` records the three kinds of crash that the code does not
  withstand (inside a rewrite, across a rotation that was not fsynced, with pages
  out of order). Every crash happens in every run; the properties name the kind
  that breaks them.

`DurableLog` is the promise: a set of records at indices, to which new ones are
added behind all others, and which may lose a record only if it is not acknowledged.
The refinement maps it to the records that the files hold.

### HardState

One node and the calls that change its term or vote; the other nodes are the
environment, which may ask for a vote in any term and send any term. `persist()`
is `Rename` (the temporary file is complete and fsynced, `rename`) and the return
(directory fsync). `older` holds the contents that a crash may bring back, because
the rename over them is not yet durable. What a handler does after `persist()` is
`CandidatePersisted`, `VotePersisted` or `StepDownPersisted`; the last goes on to
decide on the vote, which may start a second `persist()`. `PersistFails` returns the
error: memory keeps what the handler wrote, nothing is answered. `answers` is a
ghost: the terms and votes that have left the node.

### Raft

An action is what one task does while it holds a node's core lock. A handler
persists the hard state and fsyncs the log before it releases the lock, so
`currentTerm`, `votedFor`, `entries` and `snapshot` stand for memory and disk at
once: `Restart` keeps them and loses the rest. Positions in `entries` are the
code's `index - base_index`; that the entry at a position carries the right index
is the property `LogContiguous`, and `CutAt` and `ApplyCommitted` take it for granted:
what they do to a log with a gap is no subject of any run.

| action | code |
|---|---|
| `StartElection` | `tick` on an expired timer, `start_election` up to its RPCs, `become_candidate` |
| `HandleRequestVote` | `handle_request_vote` |
| `HandleVoteReply` (newer term, stale, counted, wins) | the reply loop of `start_election`; winning is `become_leader` and the no-op |
| `DecideReplicate`, `BeginBroadcast`, `SendAppendEntries` | three locks in a row: `tick` or `propose` sees a leader; `broadcast_append_entries` reads the term, whatever the node is by then, and spawns the tasks; one task builds its request |
| `HandleAppendEntries` (stale leader, reject, accept) | `handle_append_entries` |
| `HandleAppendReply` (newer term, ignored, success, rejected) | the fold of `broadcast_append_entries`, `on_append_entries_reply` |
| `Propose` | `propose` up to its broadcast |
| `ApplyCommitted` | `apply_committed`, `take_committed`, `compact` |
| `Restart`, `CrashInAppend` | `bootstrap` and `restore` after a crash, also one in the middle of a splice |
| `Lose...` | an RPC that fails in the transport |

Abstractions:

- The election timer is a free choice: any node that does not lead may time out.
- A broadcast that is aborted is a broadcast whose replies are lost.
- `BuildRace` selects whether a round may read its term, and a task build its
  request, after the node has lost the leadership. `TRUE` is the code. `FALSE`
  restricts the schedules to those in which the node still leads, and the three
  steps are one: this is what replication needs to be right (see the finding
  `raft_build_race`).
- `RewriteCrash` selects whether a crash in the middle of a splice may fall inside
  `truncate_suffix`'s rewrite of the straddling file, and then lose any of the
  entries below the cut that were in it. `TRUE` is the code. `FALSE` leaves these
  crashes out, and what `raft_crashes` and `raft_catch_up` show of crashes is
  **conditional** on that (see the finding `wal_rewrite_crash`): with `TRUE` a
  follower that resolves a conflict and crashes may lose committed entries below the
  cut, and TLC finds `CommittedOnQuorum` violated. `raft_compaction` has both
  constants `TRUE`, and the theorems about `Raft` hold for all their values.

### CatchUp

The steps of `Raft` that a leader of the highest term and one follower take; the
third node is down, and its vote elected the leader. The behaviours start from
every pair of logs that the election may have left: entries of one term agree up
to where both have them, the leader's commit index lies within what the logs have in
common or at an entry of a later term than those in which the follower differs, and
either node may have compacted whatever it knows to be committed, the leader also
beyond the follower's log. RPCs are lost and overtake each other, and the follower
crashes, also in the middle of a splice. The ghost `astray` says that the leader has
built a request that starts below its snapshot, for which the code has no answer
(`mod.rs:211`, "TODO: snapshot streaming").

### Store

The tick loop (`Driver`) and put or delete handlers (`Handler`) run
`apply_committed` at the same time. A step is what a task does between two awaits,
between two locks, or up to one system call that a crash may follow:
`TakeCommitted` (core lock), `ApplyTaken` (store lock), then, if a snapshot is due,
`RenameSnapshot`, `FsyncDir`, `Prune`, `Compact` (store lock held, core lock inside
`Compact`), and `Publish`, which replaces the value of the watch channel. `unsure`
holds the snapshot files whose presence a crash decides. `SnapshotFails` and
`CompactFails` are I/O errors, `ClientGone` drops a handler's future where it
awaits. `Bootstrap` is the restart: `Store::open`, `Log::open`, `restore`.

The log itself is given and its terms are its indices, so that a wrong term shows;
the commit index moves over it. `upsets` is a ghost that records the schedules and
faults which the code does not withstand, as `harm` does in `Wal`; `MaxUpsets`
bounds how many kinds a behaviour has.

### Kv

`Put` is `put` or `delete` up to `wait_for_commit`; `PutReturns` and `PutTimesOut` are
its two ends; `Get` is the leadership check and `GetReturns` the read of the store
under the other lock. Any step of the cluster may come between. The state that a
read returns is the set of entries whose replay it is. Nothing is compacted and
nothing crashes here; `raft_crashes` and `store` have that.

## 3. What is checked

### Runs that pass

| run | instance | properties |
|---|---|---|
| `wal_crashes` | 2 payloads, 3 records a segment, indices to 4; any crash | `TypeOK`, `AckedSurvives`, `OneStream`, `NeverRefused`, `RecoveryKeepsPositions`, `KeepsPromise` |
| `hard_state` | 2 peers, 3 terms, 1 failed `persist()`, 2 crashes | `TypeOK`, `VotesDurable`, `TermsDurable`, `LeadsOwnTerm`, `IsBallot` |
| `raft_crashes` | 3 nodes, 2 terms, 2 indices, a command, 2 RPCs in flight, 1 crash | `ElectionSafety`, `VoteOnce`, `LeaderCompleteness`, `CommittedOnQuorum`, `CommittedStable`, `StateMachineSafety` |
| `raft_compaction` | 2 nodes, 2 terms, 3 indices, a command, late broadcasts, a snapshot after every entry, 1 crash, also inside a rewrite | `TypeOK`, `VotesBind`, `AppliedInBounds` |
| `raft_catch_up` | every pair of logs of up to 3 entries, a snapshot after every application, 2 RPCs in flight, 1 crash of the follower | `MatchIsTrue`, `LogsMatch`, `CatchesUp` |
| `store` | the driver and a handler, every log of 3 commands on one key, a snapshot after every application, 1 crash, 1 kind of upset | `TypeOK`, `StateExact`, `Recoverable`, `WaitersWoken` |
| `kv` | 3 nodes, 2 terms, 3 indices, 1 write, 1 read | `OwnAcksKept`, `ReadsCommitted` |

The log:

- **`AckedSurvives`**: what `sync()` acknowledged is in the fsynced part of some file,
  at its own index, whatever a crash leaves, unless a crash hit the rewrite inside
  `truncate_suffix`.
- **`OneStream`**: the files of an idle log join up from `first_index` to
  `last_index`, unless a crash cut a file short that has a successor. The condition
  is needed: `append` rotates without an fsync of the full file, and `open()` recovers
  every file on its own, so that a hole between two files goes unnoticed, although
  `log.rs:1` speaks of one stream and `log.rs:35` of a torn tail "on the final segment".
- **`NeverRefused`**: `open()` fails only after pages were written back out of order.
  The condition is needed: such a batch, never acknowledged, looks like interior
  corruption, although `lib.rs:36` calls that "real on-disk corruption rather than
  a torn write we can recover from".
- **`RecoveryKeepsPositions`**: recovery cuts, and never renumbers or adds: every file
  keeps its base and a prefix of its records.
- **`KeepsPromise`**: the log implements `DurableLog`.

The hard state:

- **`VotesDurable`**: a vote that left the node is remembered by everything that a
  crash may leave on disk, and no other vote of its term ever leaves, whatever fails.
- **`TermsDurable`**, **`LeadsOwnTerm`**: an answered term is on disk for good, and a
  node leads only in the term that elected it, as long as no `persist()` has failed.
  Both conditions are needed: a failed call leaves the newer term in memory, from
  where later handlers answer, and it leaves a leader its role (`become_follower`
  sets the role after `persist_hard`).
- **`IsBallot`**: the oldest content that a crash may bring back behaves as a `Ballot`.

Raft:

- **`ElectionSafety`**, **`VotesBind`**, **`VoteOnce`**: one leader per term; every vote in
  flight or counted is on the voter's disk; a vote is never changed.
- **`LeaderCompleteness`**, **`StateMachineSafety`**: a leader has every entry committed
  before, and no two nodes commit different entries at one index.
- **`LogsMatch`**: Raft's log matching, between a leader and a follower whose log
  diverges anywhere, until a request starts below the leader's snapshot.
- **`CommittedOnQuorum`**: what any node believes committed is on a quorum, for good,
  as long as `BuildRace` and `RewriteCrash` are `FALSE`.
- **`CommittedStable`**: no node drops or replaces an entry it knows to be committed.
  A late request that is shorter than the log it meets needs two entries of one term,
  hence the command in `raft_crashes`.
- **`AppliedInBounds`**: snapshot, applied, committed and last index stay ordered, in a
  cluster of two. With three nodes it fails together with `LogContiguous`: behind a
  gap (`raft_gap`) positions are off, so that a snapshot's index may exceed
  `last_applied`, and the build race may cut a follower's log below its commit index.
- **`MatchIsTrue`**: the leader's `match_index` counts only entries that the follower
  holds, through its crashes and late replies, until a request starts below the
  leader's snapshot. The answer to such a request moves `match_index` over entries that
  the follower was never sent.
- **`CatchesUp`**: the follower ends up with the leader's log and commit index, unless a
  request starts below the leader's snapshot. From there on the leader may repeat for
  ever a request that the follower refuses, although `tests/replication.rs:96` says that
  it "retries until prev matches", or the follower accepts it with a gap (`raft_gap`).

The store and its clients:

- **`StateExact`**: the map, and every snapshot, is the replay of the first
  `last_applied` commands. It holds through crashes and failed snapshots. It needs
  three conditions, each of which the code can break: no two calls overlap between
  take and apply (the later batch may be applied first, and the earlier is then
  skipped as already applied), no handler is dropped there (its batch is applied by
  nobody until a restart), and no compaction fails half way (the marker is stale and
  positions are off).
  TLC violates `StateExact` with each of the three alone once the condition is dropped.
- **`Recoverable`**: whatever overlaps, fails or crashes, no index is compacted before a
  snapshot of that index or a higher one is sure to survive. It is about indices; that
  the snapshot holds the right state is `StateExact`, with its conditions.
- **`WaitersWoken`**: once an index is committed, the watch channel reaches it, unless
  the node crashes or something upsets it. That it stays there is not claimed:
  `commit_tx.send` replaces the value, so a slower call may set it back below an
  index that a client waits for, for ever if nothing more is committed.
- **`OwnAcksKept`**: a write that a node acknowledges in the term in which it proposed
  it is on a quorum and in every later leader.
- **`ReadsCommitted`**: whatever a get returns is in every leader of its entries' terms
  or later ones, also when the node was deposed between its check and its read. That a
  get returns *all* that was acknowledged does not hold (`kv_read`).

### Bounds

The bounds are guards of the actions and the smallest in which the interesting cases
happen.

- Four records in segments of three give two files, so that a truncation deletes one
  and rewrites the other and a batch spans a rotation; three records in a file allow
  a bad record, a whole one and a torn one in a single tail.
- Two terms give two leaders, with a log of the first to be resolved by the second.
  Two RPCs in flight allow one of the old leader's to be overtaken by one of the new.
  A follower's log differs from the leader's at `prev_log_index` only from a third
  term on: `CatchUp` starts from all such logs instead of reaching them.
- Three terms for the hard state allow a step-down, a vote and a campaign in different
  terms, with a crash before and after a failed call.
- Three commands and a snapshot after every application give three snapshots, of which
  one is being written, one is in place and one is being removed. One key suffices,
  because commands on different keys commute.
- Three indices for the clients: the no-ops of two leaders and a write.

Nodes, peers and payloads are symmetric where a configuration says so. The views of
`MCRaft` and `MCKv` leave out what no later step and no checked property reads. In `MCRaft`, `FirstLeaderProposes` gives commands to the leader of term 1 only
(`raft_crashes` and `raft_compaction`, which pass without it as well, in twice the time).
`MCKv` has three reductions. `OneExchange` lets one AppendEntries exchange finish
before the next starts, and lets the nodes do nothing else meanwhile: a request of an
old leader that is still in flight under a new one does not occur in the `kv` runs, so
that what they say of clients is not shown for such overlaps; what these do to the logs is
the subject of the `raft_` runs. `GetAfterPut` lets a get arrive only once a write was
acknowledged, and `ClientsBusy` stops where no client can be answered any more. Deadlock is not checked:
at their bounds the models stop, and a log that refused to open stays closed.

### Fairness

Safety is checked without fairness. Two modules state some:

- `Store`: the driver keeps taking what is committed, because `run` loops for ever; a
  task inside `apply_committed` goes on, because the runtime polls every task and
  tokio's mutex is first come, first served; a stopped node is started again. This
  presumes that a tick ends, that is, that each RPC it waits for is in the end
  answered or fails. A handler need not come back.
- `CatchUp`: the leader's loop sends again and again, and a link that is used for ever
  delivers now and then, in both directions (strong fairness of the heartbeat, of
  the delivery of requests and of replies). Nothing is assumed of applying,
  compaction, crashes or losses. The follower does not campaign meanwhile, because
  `Config::validate` keeps `heartbeat_interval` below the election timeout.

### Runs that find a violation

Each checks one property that the repository states, and TLC shows the code
breaking it. `PROJECT.json` quotes the line.

| run | what happens |
|---|---|
| `wal_rewrite_crash` | `truncate_suffix` deletes the straddling file before the survivors are on disk elsewhere; a crash in between loses acknowledged records |
| `raft_gap` | a leader that has compacted past a follower's `next_index` sends entries that do not follow `prev_log_index`, and the follower appends them behind a gap; with two nodes a leader compacts only what its one follower has acknowledged |
| `raft_build_race` | a deposed leader's late broadcast stamps its old log with the new term; a follower overwrites a committed entry |
| `kv_ack` | another leader's entry takes the index that a put proposed and commits; the put returns success for a write that is in no log |
| `kv_read` | a new leader answers a get before it has applied what its predecessor acknowledged |

## 4. What is proved

The proofs hold for every set of nodes, payloads or handlers, every bound and every
choice of the Boolean constants, under the ASSUMEs of the modules: nodes are finite
in number and not empty, the markers are distinct from the data, bounds are naturals.

`RaftTypeProofs` and `RaftVoteProofs`:

- `TypeCorrect`: `Spec => []TypeOK`. The helper lemmas say what `last_log_index`,
  `term_at`, `entries_from`, the splice and `advance_commit_index` return on a typed
  log; there is one lemma per group of actions. That the first entry to write in
  `handle_append_entries` exists (`FirstNewExists`) follows from the least-element
  principle.
- `VotesCastOnce`: `Spec => VoteOnce`. Every write of a hard state either adopts a
  newer term or keeps the vote (`HardStateWrite`).
- `VotesAreBound`: `Spec => []VotesBind`, and `OneLeaderPerTerm`:
  `Spec => []ElectionSafety`. `ElectionSafety` is not inductive: nothing in it says why
  a second candidate cannot collect a quorum. The invariant is

      ElectionInv == TypeOK /\ VotesBind /\ LeadersElected

  where `LeadersElected` says that a leader has counted a quorum. Most steps are
  *quiet*: they add no reply and nobody campaigns or leads who did not before.
  Three are not. Starting a campaign adds the candidate's own vote in a fresh term.
  Handling a request adds a vote that the voter's hard state backs, and any earlier
  vote of that voter and term was for the same candidate. Counting moves a vote
  from a reply into the voters. Two leaders of one term would share a voter
  (`QuorumsIntersect`), whose votes are for one candidate. The broadcast race does not
  matter here, so the theorem covers `BuildRace = TRUE`.

`HardStateProofs`:

- `VotesAreDurable`, `TermsAreDurable`, `LeadersOwnTerm` and `HardTypeCorrect` follow
  from one invariant,

      HardInv == HardTypes /\ Ordered /\ VotesDurable /\ Clean

  `Ordered` says that what may be on disk is totally ordered, never ahead of memory,
  and `Clean` what holds while no `persist()` has failed. Every step but a crash is
  *forward*: memory moves to a later term or from no vote to a vote, only memory's
  content reaches the disk, and only what memory holds is answered (`ForwardInv`). A
  crash picks one of the contents that may be on disk, all of which remember the
  votes that left.
- `FileIsBallot`: `Spec => IsBallot`, the refinement. The oldest content on disk exists
  because contents are ordered; a rename adds a later one, the directory fsync and a
  crash remove earlier ones, so the oldest moves forward only (`DurableForward`).

`StoreProofs`:

- `LogIsRecoverable`: `Spec => []Recoverable`, with any number of handlers, under every
  upset. The invariant

      StoreInv == StoreTypes /\ Exclusive /\ Written /\ Behind /\ Recoverable

  says that one task at a time is between apply and compact (`Exclusive`, the store
  lock), that the snapshot it is about to prune for or to compact to is in the
  directory and sure to stay (`Written`), and that no snapshot is ahead of the
  memtable and a removed one is behind it (`Behind`).

`WalProofs`:

- `WalTypeCorrect`: `Spec => []TypeOK`. The inductive invariant `WalTypes` separates
  the files of an open log (`Whole`: every record is a payload) from those that a
  crash may leave (`Damaged`: the fsynced records are payloads), and says that an
  open log has at least one file except while `truncate_suffix` has the only one in
  memory. Recovery turns the second kind into the first (`RecoverKeeps`); that its
  scan has a stopping point (`GoodLengthExists`) is again the least-element principle.
- `AckedRecordsSurvive`: `Spec => []AckedSurvives`. The property is not inductive,
  because truncations take several steps:

      DurableInv == WalTypes /\ GivenUp /\ Rewritten /\ ("rewrite" \notin harm => Covered)

  `Covered` says that what was acknowledged is fsynced or among the survivors in
  memory, `GivenUp` that a truncation in progress only concerns records that the
  caller gave up (so that `RemoveFirstSegment` and `RemoveLastSegment` remove nothing
  else), and `Rewritten` that the new file holds the survivors (so that the final
  fsync covers them). Every other step replaces each file by one that *keeps* its
  fsynced records (`Keeps`, `SyncedKept`).

`WalStreamProofs`:

- `OpenNeverRefused`: `Spec => []NeverRefused`. Until pages are written back out of
  order, the files of a stopped log are bad at their ends at most (`TailOnly`), and
  recovery refuses only what is bad before its end.
- `RecoveryInPlace`: `Spec => RecoveryKeepsPositions`.
- `FilesFormOneStream`: `Spec => []OneStream`. The invariant `StreamInv` follows the
  stream through the steps of a truncation, in which `first_index` and `last_index`
  are not yet those of the files, and through a crash and the recovery after it: a
  file that is fsynced to its end has one image only (`SyncedImage`), and recovery
  leaves whole files as they are (`RecoverWhole`).

Only model-checked: the log properties of Raft, `KeepsPromise`, and
everything about `CatchUp` and `Kv`. Out of the prover's reach and therefore with
TLC: liveness under fairness (`CatchesUp`, `WaitersWoken`), and what a fold computes
for every log (`StateExact`).

## 5. What is not modelled, and why

- **The lease** (`raft/lease.rs`). Whether two nodes can hold one is a question of
  clocks, and no request path consults it: `get` checks the role only. Reads are
  modelled as they are served.
- **Time in the driver loop.** A tick waits for every peer before the next one; for
  how long is not something these models say.
- **I/O errors inside the log that leave the process running**, such as one between
  the removal and the rewrite in `truncate_suffix`, after which the log has no
  segment and the next append panics. On disk they leave what a crash at the same
  step leaves, which is modelled.
- **The durability of directory entries in the WAL.** The code does not fsync the
  directory when it creates or removes a segment; in `Wal` both are durable at once.
  The hard state and the snapshots, which do fsync it, are modelled with it.
- **A cluster of one.** `start_election` compares votes with the quorum only when a
  reply arrives, so a node without peers stays a candidate, although
  `tests/partition.rs:32` says that it "can elect itself with no peers". The runs have
  two nodes or more.
- **Membership changes and snapshot installation**: the code has none.
- **The byte layout and checksum of records** (which result `read_record` gives is what
  matters), generated gRPC code and field-by-field conversions, connection caching,
  configuration parsing and `main`.
