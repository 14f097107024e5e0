------------------------------ MODULE CatchUp ------------------------------
(***************************************************************************)
(* Does a leader bring a follower up to date?  The steps of Raft.tla that  *)
(* a stable leader and one follower of a three-node cluster take, from     *)
(* every pair of logs in which an election may leave them; the third node  *)
(* is down.  Requests and replies are lost and overtake each other, and    *)
(* the follower crashes.                                                   *)
(*                                                                         *)
(* The follower hears from the leader often enough not to campaign, as     *)
(* heartbeat_interval is below election_timeout (Config::validate).        *)
(***************************************************************************)
EXTENDS Raft

CONSTANTS Leader, Lagging, Down

ASSUME PairAssumption == Node = {Leader, Lagging, Down} /\ Cardinality(Node) = 3

VARIABLES
  goal,    \* ghost: the leader's log, including what its snapshot covers
  astray   \* ghost: was a request built that starts below the leader's snapshot?

catchUpVars == <<vars, goal, astray>>

-----------------------------------------------------------------------------
\* The logs of entries of terms 1..MaxTerm-1, up to `length' entries long.
Logs(length) ==
  {log \in UNION {[1..n -> [term : 1..(MaxTerm - 1), index : 1..length, command : {Noop}]] :
                    n \in 0..length} :
     \A k \in DOMAIN log : log[k].index = k /\ (k > 1 => log[k - 1].term <= log[k].term)}

\* Entries of one term come from the log of that term's leader.
OneLeaderEach(a, b) ==
  \A i \in DOMAIN a, j \in DOMAIN b :
    a[i].term = b[j].term => \A k \in 1..Lower(i, j) : a[k] = b[k]

\* How far two logs agree.
Common(a, b) ==
  CHOOSE i \in 0..Lower(Len(a), Len(b)) :
    /\ \A k \in 1..i : a[k] = b[k]
    /\ i < Lower(Len(a), Len(b)) => a[i + 1] # b[i + 1]

\* What a leader with log a may know to be committed when another node has log b:
\* entries that b has, or entries of a later term than those in which b differs.
MayBeCommitted(a, b) ==
  {c \in 0..Len(a) : c > Common(a, b) => \A k \in (Common(a, b) + 1)..Len(b) : b[k].term < a[c].term}

\* A log behind a snapshot of its first i entries.
SnapshotOf(log, i) == [index |-> i, term |-> IF i = 0 THEN 0 ELSE log[i].term]
Above(log, i) == SubSeq(log, i + 1, Len(log))

\* What a node that knows c entries to be committed may have in its snapshot and
\* may have applied: apply_committed compacts whatever it has applied once
\* SnapshotThreshold entries have come together.
Compacted(c) ==
  {<<s, i>> \in (0..c) \X (0..c) :
     /\ s = 0 \/ s >= SnapshotThreshold
     /\ i >= s /\ i - s < SnapshotThreshold}

\* The leader has won the election of MaxTerm and appended its no-op.
CatchUpInit ==
  \E old \in Logs(MaxIndex - 1), b \in Logs(MaxIndex) :
    LET a == Append(old, [term |-> MaxTerm, index |-> Len(old) + 1, command |-> Noop])
    IN
    /\ OneLeaderEach(old, b)
    /\ goal = a /\ astray = FALSE
    /\ \E ca \in MayBeCommitted(old, b), cb \in 0..Common(old, b) :
       \E la \in Compacted(ca), lb \in Compacted(cb) :
         /\ entries = [n \in Node |-> IF n = Leader THEN Above(a, la[1])
                                      ELSE IF n = Lagging THEN Above(b, lb[1]) ELSE <<>>]
         /\ snapshot = [n \in Node |-> IF n = Leader THEN SnapshotOf(a, la[1])
                                       ELSE IF n = Lagging THEN SnapshotOf(b, lb[1]) ELSE SnapshotOf(a, 0)]
         /\ commitIndex = [n \in Node |-> IF n = Leader THEN ca ELSE IF n = Lagging THEN cb ELSE 0]
         /\ lastApplied = [n \in Node |-> IF n = Leader THEN la[2] ELSE IF n = Lagging THEN lb[2] ELSE 0]
    /\ currentTerm = [n \in Node |-> IF n = Lagging THEN MaxTerm - 1 ELSE MaxTerm]
    /\ votedFor = [n \in Node |-> IF n = Lagging THEN Nil ELSE Leader]
    /\ role = [n \in Node |-> IF n = Leader THEN "Leader" ELSE "Follower"]
    /\ leaderId = [n \in Node |-> IF n = Leader THEN Leader ELSE Nil]
    /\ nextIndex = [n \in Node |-> [p \in Node |-> IF n = Leader THEN Len(a) ELSE 1]]
    /\ matchIndex = [n \in Node |-> [p \in Node |-> 0]]
    /\ campaign = [n \in Node |-> 0]
    /\ voters = [n \in Node |-> IF n = Leader THEN {Leader, Down} ELSE {}]
    /\ todo = [n \in Node |-> {}]
    /\ voteCalls = {} /\ voteReplies = {} /\ appendCalls = {} /\ appendReplies = {}
    /\ crashes = 0

\* The next request starts below what the leader has in memory.  Nothing can carry
\* the entries in between (there is no InstallSnapshot RPC), and its prev_log_term
\* is that of another index (build_append_entries).
Stranded == nextIndex[Leader][Lagging] < BaseIndex(Leader)

\* tick() of the leader: a heartbeat to the follower.
Heartbeat ==
  /\ SendAppendEntries(Leader, <<Lagging, MaxTerm>>)
  /\ astray' = (astray \/ Stranded)

Deliver == \E m \in appendCalls : HandleAppendEntries(m)

Acknowledge == \E m \in appendReplies : HandleAppendReply(m)

Apply(n) == ApplyCommitted(n)

CatchUpNext ==
  /\ \/ Heartbeat
     \/ /\ \/ Deliver
           \/ Acknowledge
           \/ Apply(Leader)
           \/ Apply(Lagging)
           \/ Restart(Lagging)
           \/ \E m \in appendCalls : CrashInAppend(m)
           \/ \E m \in appendCalls : LoseAppendCall(m)
           \/ \E m \in appendReplies : LoseAppendReply(m)
        /\ UNCHANGED astray
  /\ UNCHANGED goal

\* The leader's tick loop sends forever, and a link that is used forever delivers
\* now and then, both ways.
Fairness ==
  /\ SF_catchUpVars(Heartbeat /\ UNCHANGED goal)
  /\ SF_catchUpVars(Deliver /\ UNCHANGED <<goal, astray>>)
  /\ SF_catchUpVars(Acknowledge /\ UNCHANGED <<goal, astray>>)

CatchUpSpec == CatchUpInit /\ [][CatchUpNext]_catchUpVars /\ Fairness

-----------------------------------------------------------------------------
\* Does the follower hold the leader's i-th entry?
InStep(i) ==
  \/ snapshot[Lagging].index >= i
  \/ i <= Len(goal) /\ HasEntry(Lagging, i) /\ EntryAt(Lagging, i) = goal[i]

InStepAll ==
  /\ \A i \in 1..Len(goal) : InStep(i)
  /\ LastLogIndex(Lagging) = Len(goal)
  /\ commitIndex[Lagging] = Len(goal)

\* A leader's match_index counts only entries that the follower holds, through
\* crashes of the follower and late or lost replies; advance_commit_index rests
\* on it.  It holds until a request starts below the leader's snapshot: that one
\* may be accepted and then counts entries it did not carry (LogContiguous).
MatchIsTrue == ~astray => \A i \in 1..matchIndex[Leader][Lagging] : InStep(i)

\* Entries of one index and term never have different predecessors on the leader
\* and on a follower whose log diverges anywhere, also at prev_log_index, while the
\* follower accepts, refuses, splices and crashes ("accepts entries only if the
\* preceding entry matches, truncates any divergent suffix", replication.rs:3).
LogsMatch == ~astray => LogMatching

\* A follower whose log is short, long or divergent ends up with the leader's log
\* and commit index, whatever replies are late or lost: backing off by
\* conflict_index finds where the logs agree (on_append_entries_reply), unless
\* a request starts below the leader's snapshot.
CatchesUp == <>[](InStepAll \/ astray)
=============================================================================
