--------------------------------- MODULE Kv ---------------------------------
(***************************************************************************)
(* The client service (KvService in rpc/service.rs) on a cluster of Raft   *)
(* nodes: put and delete propose a command and wait until the commit watch *)
(* of their node reaches its index; get checks that its node leads and     *)
(* then reads the node's store.                                            *)
(*                                                                         *)
(* Raft's own proposals are off (no Value); Put makes them.  A node's      *)
(* store is the replay of its first lastApplied entries and its watch      *)
(* channel holds lastApplied: ApplyCommitted is atomic here, Store.tla     *)
(* takes it apart.  Nothing is compacted and nothing crashes.  A request   *)
(* to a node that does not lead is turned away and changes nothing.        *)
(***************************************************************************)
EXTENDS Integers, Sequences, FiniteSets

CONSTANTS Node, Noop, Nil, MaxTerm, MaxIndex, MaxInFlight,
  Write,       \* the commands that clients send: puts and deletes
  MaxWrites,   \* bound on the writes ever proposed
  MaxReads     \* bound on gets in progress

VARIABLES currentTerm, votedFor, entries, snapshot, role, leaderId, commitIndex,
  lastApplied, nextIndex, matchIndex, campaign, voters, todo,
  voteCalls, voteReplies, appendCalls, appendReplies, crashes,
  waiting,     \* handlers in wait_for_commit: the node and the entry proposed
  acked,       \* ghost: the entries of answered writes; `own' says whether the
               \* node was still in the entry's term
  reading,     \* gets between the two locks; `seen' is a ghost: what had been
               \* acknowledged when the get arrived
  writes       \* how many writes were proposed, for the bound

INSTANCE Raft WITH Value <- {}, SnapshotThreshold <- MaxIndex + 1, BuildRace <- FALSE,
                   RewriteCrash <- FALSE, MaxCrashes <- 0

kvVars == <<waiting, acked, reading, writes>>
raftVars == <<currentTerm, votedFor, entries, snapshot, role, leaderId, commitIndex,
              lastApplied, nextIndex, matchIndex, campaign, voters, todo,
              voteCalls, voteReplies, appendCalls, appendReplies, crashes>>
allVars == <<raftVars, kvVars>>

KvInit ==
  /\ Init
  /\ waiting = {}
  /\ acked = {}
  /\ reading = {}
  /\ writes = 0

\* put and delete: Raft::propose, then wait_for_commit.
Put(n, w) ==
  /\ writes < MaxWrites
  /\ writes' = writes + 1
  /\ Propose(n, w)
  /\ waiting' = waiting \cup {[node |-> n, entry |-> NewEntry(n, w)]}
  /\ UNCHANGED <<acked, reading>>

\* Fault: the index is in the log.
WokenByAppend(r) == LastLogIndex(r.node) >= r.entry.index

\* wait_for_commit looks at the index only.
Woken(r) == lastApplied[r.node] >= r.entry.index

PutReturns(r) ==
  /\ r \in waiting
  /\ Woken(r)
  /\ waiting' = waiting \ {r}
  /\ acked' = acked \cup {[entry |-> r.entry, own |-> currentTerm[r.node] = r.entry.term]}
  /\ UNCHANGED <<raftVars, reading, writes>>

\* COMMIT_TIMEOUT: the client does not learn what became of its write.
PutTimesOut(r) ==
  /\ r \in waiting
  /\ ~Woken(r)
  /\ waiting' = waiting \ {r}
  /\ UNCHANGED <<raftVars, acked, reading, writes>>

\* get, up to the release of the core lock.
Get(n) ==
  /\ role[n] = "Leader"
  /\ Cardinality(reading) < MaxReads
  /\ reading' = reading \cup {[node |-> n, seen |-> acked]}
  /\ UNCHANGED <<raftVars, waiting, acked, writes>>

\* The entries whose replay is the node's store.
Applied(n) == {entries[n][i] : i \in 1..lastApplied[n]}

\* get under the store lock.  The answer is what Applied(r.node) makes of the key.
GetReturns(r) ==
  /\ r \in reading
  /\ reading' = reading \ {r}
  /\ UNCHANGED <<raftVars, waiting, acked, writes>>

RaftStep == Next /\ UNCHANGED kvVars

KvNext ==
  \/ \E n \in Node : \E w \in Write : Put(n, w)
  \/ \E r \in waiting : PutReturns(r)
  \/ \E r \in waiting : PutTimesOut(r)
  \/ \E n \in Node : Get(n)
  \/ \E r \in reading : GetReturns(r)
  \/ RaftStep

KvSpec == KvInit /\ [][KvNext]_allVars

-----------------------------------------------------------------------------
Kept(e) ==
  \A l \in Node : role[l] = "Leader" /\ currentTerm[l] >= e.term =>
    HasEntry(l, e.index) /\ EntryAt(l, e.index) = e

\* A write that was acknowledged by a node still in the term in which it
\* proposed it is never lost: it is stored by a quorum, and every leader of that
\* term or a later one has it ("returns once committed on a quorum", kv.proto:11).
OwnAcksKept ==
  \A a \in acked : a.own =>
    /\ Kept(a.entry)
    /\ Cardinality({p \in Node : HasEntry(p, a.entry.index)
                                 /\ EntryAt(p, a.entry.index) = a.entry}) >= Quorum

\* The same of every acknowledged write ("returns once committed on a quorum",
\* kv.proto:11).
AcksKept == \A a \in acked : Kept(a.entry)

\* Whatever a get returns is committed: no leader of its term or a later one is
\* without an entry that the answer shows, also when the node was deposed between
\* the two locks ("Read the committed value for a key", kv.proto:9).
ReadsCommitted ==
  [][\A r \in reading : GetReturns(r) => \A e \in Applied(r.node) : Kept(e)]_allVars

\* A get returns a state with every write that was acknowledged, in its proposer's
\* term, before the get arrived ("Served by the leader so it's linearizable",
\* kv.proto:9; "Only the leader may answer, to stay linearizable", service.rs:73).
ReadsSeeAcked ==
  [][\A r \in reading : GetReturns(r) =>
       \A a \in r.seen : a.own => a.entry \in Applied(r.node)]_allVars
=============================================================================
