-------------------------------- MODULE Raft --------------------------------
(***************************************************************************)
(* A cluster of RaftCores (src/raft/{mod,election,replication,state}.rs)   *)
(* and the steps their drivers (Raft in mod.rs) make them take.            *)
(*                                                                         *)
(* An action is what one task does while it holds a node's core lock.  A   *)
(* handler persists the hard state and fsyncs the log before it releases   *)
(* the lock, so currentTerm, votedFor, entries and snapshot are at once    *)
(* the node's memory and its disk; Restart keeps them and loses the rest.  *)
(*                                                                         *)
(* An RPC is a request in flight and then a reply in flight.  Either may   *)
(* be lost or overtaken; tonic never sends one twice.                      *)
(***************************************************************************)
EXTENDS Integers, Sequences, FiniteSets, SequencesExt, FiniteSetsExt

CONSTANTS
  Node,              \* the members: Config::id and Config::peers
  Value,             \* client commands (Command::Put and Command::Delete)
  Noop,              \* Command::Noop
  Nil,               \* None, where a node id is optional
  SnapshotThreshold, \* Config::snapshot_threshold
  BuildRace,         \* TRUE: a broadcast task builds its request after the
                     \* lock was released, as in the code.  FALSE: only the
                     \* schedules in which the node still leads by then.
  RewriteCrash,      \* TRUE: a crash inside truncate_suffix's file rewrite loses
                     \* survivors, as in the code.  FALSE: none falls there.
  MaxTerm,           \* bound on terms
  MaxIndex,          \* bound on log indices
  MaxInFlight,       \* bound on RPCs in flight
  MaxCrashes         \* bound on crashes

ASSUME NodeAssumption == IsFiniteSet(Node) /\ Node # {} /\ Nil \notin Node
ASSUME ValueAssumption == Noop \notin Value
ASSUME RaceAssumption == BuildRace \in BOOLEAN /\ RewriteCrash \in BOOLEAN
ASSUME RaftBoundAssumption ==
  /\ SnapshotThreshold \in Nat
  /\ MaxTerm \in Nat
  /\ MaxIndex \in Nat
  /\ MaxInFlight \in Nat
  /\ MaxCrashes \in Nat

VARIABLES
  currentTerm, votedFor,      \* HardState
  entries,                    \* RaftCore.entries: the log above the snapshot
  snapshot,                   \* RaftCore.snapshot: SnapshotMeta
  role, leaderId,
  commitIndex, lastApplied,
  nextIndex, matchIndex,
  campaign,                   \* the term of the start_election that is
                              \* collecting votes on the node; 0 if none
  voters,                     \* who voted for the node in its last campaign
  todo,                       \* broadcast tasks, each a <<peer, term at the start of
                              \* the round>>, that have not built their request yet;
                              \* Decided(n) if callers have yet to begin a round
  voteCalls, voteReplies, appendCalls, appendReplies,   \* RPCs in flight
  crashes                     \* how many crashes there were, for the bound

hardVars   == <<currentTerm, votedFor>>
logVars    == <<entries, snapshot>>
commitVars == <<commitIndex, lastApplied>>
leaderVars == <<nextIndex, matchIndex>>
voteVars   == <<campaign, voters>>
voteRpcs   == <<voteCalls, voteReplies>>
appendRpcs == <<appendCalls, appendReplies>>
vars == <<currentTerm, votedFor, entries, snapshot, role, leaderId, commitIndex,
          lastApplied, nextIndex, matchIndex, campaign, voters, todo,
          voteCalls, voteReplies, appendCalls, appendReplies, crashes>>

-----------------------------------------------------------------------------
Command  == Value \cup {Noop}
LogEntry == [term : Nat, index : Nat, command : Command]
SnapshotMeta == [index : Nat, term : Nat]
NoTerm == -1   \* term_at's None

RequestVoteArgs == [from : Node, to : Node, term : Nat, lastIndex : Nat, lastTerm : Nat]
\* `campaign' is args.term, which the awaiting task still knows.
RequestVoteReply == [from : Node, to : Node, campaign : Nat, term : Nat, granted : BOOLEAN]

\* `round' (the term in which the broadcast began) and `lastSent' belong to the
\* awaiting task, not to the wire.
AppendEntriesArgs ==
  [from : Node, to : Node, round : Nat, term : Nat, prevIndex : Nat, prevTerm : Nat,
   entries : Seq(LogEntry), commit : Nat]
AppendEntriesReply ==
  [from : Node, to : Node, round : Nat, lastSent : Nat,
   term : Nat, success : BOOLEAN, conflict : Nat]

Lower(a, b) == IF a < b THEN a ELSE b
Higher(a, b) == IF a > b THEN a ELSE b

\* RaftCore::quorum.
Quorum == Cardinality(Node) \div 2 + 1

Peers(n) == Node \ {n}

InFlight == Cardinality(voteCalls) + Cardinality(voteReplies)
            + Cardinality(appendCalls) + Cardinality(appendReplies)

-----------------------------------------------------------------------------
\* The log helpers of mod.rs, on a snapshot and the entries above it.
BaseIndex(n) == snapshot[n].index + 1

LastIndex(snap, log) == IF log = <<>> THEN snap.index ELSE Last(log).index

LastTerm(snap, log) == IF log = <<>> THEN snap.term ELSE Last(log).term

TermIn(snap, log, i) ==
  IF i = snap.index THEN snap.term
  ELSE IF i - snap.index \in 1..Len(log) THEN log[i - snap.index].term
  ELSE NoTerm

LastLogIndex(n) == LastIndex(snapshot[n], entries[n])
LastLogTerm(n) == LastTerm(snapshot[n], entries[n])
TermAt(n, i) == TermIn(snapshot[n], entries[n], i)

\* entry_at: is there an entry in memory at index i, and which?
HasEntry(n, i) == i - snapshot[n].index \in 1..Len(entries[n])
EntryAt(n, i) == entries[n][i - snapshot[n].index]

EntriesFrom(n, from) ==
  IF from < BaseIndex(n) THEN entries[n]
  ELSE SubSeq(entries[n], from - snapshot[n].index, Len(entries[n]))

NewEntry(n, c) == [term |-> currentTerm[n], index |-> LastLogIndex(n) + 1, command |-> c]

\* RaftCore::advance_commit_index, for a log and the peers' match indices.
Reached(n, log, match) ==
  [p \in Node |-> IF p = n THEN LastIndex(snapshot[n], log) ELSE match[p]]

\* Fault: the position one past quorum - 1.
AtQuorumOffByOne(reached, c) ==
  /\ Cardinality({p \in Node : reached[p] >= c}) >= Quorum - 1
  /\ Cardinality({p \in Node : reached[p] > c}) < Quorum - 1

\* c is at position quorum - 1 of the descending order.
AtQuorum(reached, c) ==
  /\ Cardinality({p \in Node : reached[p] >= c}) >= Quorum
  /\ Cardinality({p \in Node : reached[p] > c}) < Quorum

AdvancedCommit(n, log, match) ==
  LET reached == Reached(n, log, match)
      advance == {c \in {reached[p] : p \in Node} :
                    /\ AtQuorum(reached, c)
                    /\ c > commitIndex[n]
                    /\ TermIn(snapshot[n], log, c) = currentTerm[n]}
  IN  IF advance = {} THEN commitIndex[n] ELSE CHOOSE c \in advance : TRUE

-----------------------------------------------------------------------------
\* HardState::load, Log::open and snapshot::load_latest find nothing.
Init ==
  /\ currentTerm = [n \in Node |-> 0]
  /\ votedFor = [n \in Node |-> Nil]
  /\ entries = [n \in Node |-> <<>>]
  /\ snapshot = [n \in Node |-> [index |-> 0, term |-> 0]]
  /\ role = [n \in Node |-> "Follower"]
  /\ leaderId = [n \in Node |-> Nil]
  /\ commitIndex = [n \in Node |-> 0]
  /\ lastApplied = [n \in Node |-> 0]
  /\ nextIndex = [n \in Node |-> [p \in Node |-> 1]]
  /\ matchIndex = [n \in Node |-> [p \in Node |-> 0]]
  /\ campaign = [n \in Node |-> 0]
  /\ voters = [n \in Node |-> {}]
  /\ todo = [n \in Node |-> {}]
  /\ voteCalls = {} /\ voteReplies = {}
  /\ appendCalls = {} /\ appendReplies = {}
  /\ crashes = 0

\* Fault: the vote is reset in every call, not only for a newer term.
BecomeFollowerForgetting(n, term, leader) ==
  /\ currentTerm' = [currentTerm EXCEPT ![n] = Higher(@, term)]
  /\ votedFor' = [votedFor EXCEPT ![n] = Nil]
  /\ role' = [role EXCEPT ![n] = "Follower"]
  /\ leaderId' = [leaderId EXCEPT ![n] = leader]

\* RaftCore::become_follower, without the lease.
BecomeFollower(n, term, leader) ==
  /\ currentTerm' = [currentTerm EXCEPT ![n] = Higher(@, term)]
  /\ votedFor' = [votedFor EXCEPT ![n] = IF term > currentTerm[n] THEN Nil ELSE @]
  /\ role' = [role EXCEPT ![n] = "Follower"]
  /\ leaderId' = [leaderId EXCEPT ![n] = leader]

-----------------------------------------------------------------------------
\* tick() finds the node not leading and its timer expired; start_election:
\* become_candidate, then RequestVote to every peer.  The previous campaign of
\* the node is over by then, so replies to it reach nobody.
StartElection(n) ==
  /\ role[n] # "Leader"
  /\ currentTerm[n] < MaxTerm
  /\ LastLogIndex(n) < MaxIndex
  /\ InFlight + Cardinality(Peers(n)) <= MaxInFlight
  /\ role' = [role EXCEPT ![n] = "Candidate"]
  /\ currentTerm' = [currentTerm EXCEPT ![n] = @ + 1]
  /\ votedFor' = [votedFor EXCEPT ![n] = n]
  /\ leaderId' = [leaderId EXCEPT ![n] = Nil]
  /\ campaign' = [campaign EXCEPT ![n] = currentTerm[n] + 1]
  /\ voters' = [voters EXCEPT ![n] = {n}]
  /\ voteCalls' = voteCalls \cup
       {[from |-> n, to |-> p, term |-> currentTerm[n] + 1,
         lastIndex |-> LastLogIndex(n), lastTerm |-> LastLogTerm(n)] : p \in Peers(n)}
  /\ voteReplies' = {r \in voteReplies : r.to # n}
  /\ UNCHANGED <<logVars, commitVars, leaderVars, todo, appendRpcs, crashes>>

\* Fault: the logs are not compared.
LogOkAlways(n, m) == TRUE

\* theirs >= ours, comparing (term, index) lexically.
LogOk(n, m) ==
  \/ m.lastTerm > LastLogTerm(n)
  \/ m.lastTerm = LastLogTerm(n) /\ m.lastIndex >= LastLogIndex(n)

\* Fault: voted_for is not consulted.
GrantsVoteAgain(n, m) == m.term >= currentTerm[n] /\ LogOk(n, m)

\* RaftCore::handle_request_vote.
GrantsVote(n, m) ==
  LET vote == IF m.term > currentTerm[n] THEN Nil ELSE votedFor[n]
  IN  m.term >= currentTerm[n] /\ LogOk(n, m) /\ vote \in {Nil, m.from}

HandleRequestVote(m) ==
  LET n == m.to
      newer == m.term > currentTerm[n]
      granted == GrantsVote(n, m)
  IN
  /\ currentTerm' = [currentTerm EXCEPT ![n] = Higher(@, m.term)]
  /\ votedFor' = [votedFor EXCEPT ![n] = IF granted THEN m.from
                                         ELSE IF newer THEN Nil ELSE @]
  /\ role' = [role EXCEPT ![n] = IF newer THEN "Follower" ELSE @]
  /\ leaderId' = [leaderId EXCEPT ![n] = IF newer THEN Nil ELSE @]
  /\ voteCalls' = voteCalls \ {m}
  /\ voteReplies' = voteReplies \cup
       (IF campaign[m.from] = m.term   \* else the caller has gone
        THEN {[from |-> n, to |-> m.from, campaign |-> m.term,
               term |-> Higher(currentTerm[n], m.term), granted |-> granted]}
        ELSE {})
  /\ UNCHANGED <<logVars, commitVars, leaderVars, voteVars, todo, appendRpcs, crashes>>

\* start_election's reply loop: the replies that end the campaign.
CampaignOver(n) ==
  /\ campaign' = [campaign EXCEPT ![n] = 0]
  /\ voteReplies' = {r \in voteReplies : r.to # n}

VoteReplyNewerTerm(m) ==
  /\ m.term > currentTerm[m.to]
  /\ BecomeFollower(m.to, m.term, Nil)
  /\ CampaignOver(m.to)
  /\ UNCHANGED <<logVars, commitVars, leaderVars, voters, todo, voteCalls, appendRpcs, crashes>>

VoteReplyStale(m) ==
  /\ m.term <= currentTerm[m.to]
  /\ role[m.to] # "Candidate" \/ currentTerm[m.to] # m.campaign
  /\ CampaignOver(m.to)
  /\ UNCHANGED <<hardVars, logVars, role, leaderId, commitVars, leaderVars, voters,
                 todo, voteCalls, appendRpcs, crashes>>

Awaited(m) ==
  /\ m.term <= currentTerm[m.to]
  /\ role[m.to] = "Candidate"
  /\ currentTerm[m.to] = m.campaign

VotesWith(m) == voters[m.to] \cup (IF m.granted THEN {m.from} ELSE {})

Wins(m) == m.granted /\ Cardinality(VotesWith(m)) >= Quorum

VoteReplyCounted(m) ==
  /\ Awaited(m)
  /\ ~Wins(m)
  /\ voters' = [voters EXCEPT ![m.to] = VotesWith(m)]
  /\ voteReplies' = voteReplies \ {m}
  /\ UNCHANGED <<hardVars, logVars, role, leaderId, commitVars, leaderVars, campaign,
                 todo, voteCalls, appendRpcs, crashes>>

\* become_leader, then a no-op in the new term.
VoteReplyWins(m) ==
  LET n == m.to
      log == Append(entries[n], NewEntry(n, Noop))
      match == [p \in Node |-> 0]
  IN
  /\ Awaited(m)
  /\ Wins(m)
  /\ voters' = [voters EXCEPT ![n] = VotesWith(m)]
  /\ role' = [role EXCEPT ![n] = "Leader"]
  /\ leaderId' = [leaderId EXCEPT ![n] = n]
  /\ nextIndex' = [nextIndex EXCEPT ![n] = [p \in Node |-> LastLogIndex(n) + 1]]
  /\ matchIndex' = [matchIndex EXCEPT ![n] = match]
  /\ entries' = [entries EXCEPT ![n] = log]
  /\ commitIndex' = [commitIndex EXCEPT ![n] = AdvancedCommit(n, log, match)]
  /\ CampaignOver(n)
  /\ UNCHANGED <<hardVars, snapshot, lastApplied, todo, voteCalls, appendRpcs, crashes>>

HandleVoteReply(m) ==
  /\ m.campaign = campaign[m.to]
  /\ \/ VoteReplyNewerTerm(m)
     \/ VoteReplyStale(m)
     \/ VoteReplyCounted(m)
     \/ VoteReplyWins(m)

-----------------------------------------------------------------------------
\* The tasks of a broadcast that begins now.
Round(n) == Peers(n) \X {currentTerm[n]}

Decided(n) == <<n, 0>>

\* tick() or propose() sees a leader, releases the lock and is about to call
\* broadcast_append_entries.
DecideReplicate(n) ==
  /\ BuildRace
  /\ role[n] = "Leader"
  /\ Decided(n) \notin todo[n]
  /\ todo' = [todo EXCEPT ![n] = @ \cup {Decided(n)}]
  /\ UNCHANGED <<hardVars, logVars, role, leaderId, commitVars, leaderVars, voteVars,
                 voteRpcs, appendRpcs, crashes>>

\* broadcast_append_entries reads the term, whatever the node is by now, and
\* spawns one task per peer.  Any number of other callers may be waiting as well.
BeginBroadcast(n) ==
  /\ Decided(n) \in todo[n]
  /\ ~(Round(n) \subseteq todo[n])
  /\ todo' = [todo EXCEPT ![n] = @ \cup Round(n)]
  /\ UNCHANGED <<hardVars, logVars, role, leaderId, commitVars, leaderVars, voteVars,
                 voteRpcs, appendRpcs, crashes>>

\* RaftCore::build_append_entries.  It does not look at the role.
AppendEntriesFor(n, p, round) ==
  LET prev == nextIndex[n][p] - 1
      known == TermAt(n, prev)
  IN  [from |-> n, to |-> p, round |-> round, term |-> currentTerm[n], prevIndex |-> prev,
       prevTerm |-> IF known = NoTerm THEN snapshot[n].term ELSE known,
       entries |-> EntriesFrom(n, nextIndex[n][p]), commit |-> commitIndex[n]]

\* One task of broadcast_append_entries takes the lock and sends its request.
ToBuild(n) ==
  IF BuildRace THEN todo[n] \ {Decided(n)}
  ELSE IF role[n] = "Leader" THEN Round(n) ELSE {}

SendAppendEntries(n, task) ==
  /\ task \in ToBuild(n)
  /\ InFlight < MaxInFlight
  /\ appendCalls' = appendCalls \cup {AppendEntriesFor(n, task[1], task[2])}
  /\ todo' = [todo EXCEPT ![n] = @ \ {task}]
  /\ UNCHANGED <<hardVars, logVars, role, leaderId, commitVars, leaderVars, voteVars,
                 voteRpcs, appendReplies, crashes>>

\* The awaiting task's view of the answer to the request m.
AppendReply(m, success, conflict) ==
  [from |-> m.to, to |-> m.from, round |-> m.round,
   lastSent |-> m.prevIndex + Len(m.entries),
   term |-> Higher(currentTerm[m.to], m.term), success |-> success, conflict |-> conflict]

AnswerAppend(m, success, conflict) ==
  /\ appendCalls' = appendCalls \ {m}
  /\ appendReplies' = appendReplies \cup {AppendReply(m, success, conflict)}

\* RaftCore::handle_append_entries, step 1.
RejectStaleLeader(m) ==
  /\ m.term < currentTerm[m.to]
  /\ AnswerAppend(m, FALSE, 0)
  /\ UNCHANGED <<hardVars, logVars, role, leaderId, commitVars, leaderVars, voteVars,
                 todo, voteRpcs, crashes>>

\* Step 3: the log-matching check.
TooShort(n, m) == m.prevIndex > LastLogIndex(n)

\* Fault: the terms at prev_log_index are not compared.
NeverDiverges(n, m) == FALSE

Diverges(n, m) == TermAt(n, m.prevIndex) \notin {NoTerm, m.prevTerm}

RejectAppend(m) ==
  /\ m.term >= currentTerm[m.to]
  /\ BecomeFollower(m.to, m.term, m.from)
  /\ \/ TooShort(m.to, m) /\ AnswerAppend(m, FALSE, LastLogIndex(m.to) + 1)
     \/ ~TooShort(m.to, m) /\ Diverges(m.to, m) /\ AnswerAppend(m, FALSE, m.prevIndex)
  /\ UNCHANGED <<logVars, commitVars, leaderVars, voteVars, todo, voteRpcs, crashes>>

\* Step 4.  The loop skips the entries that the node holds, cuts the log where
\* the first other one conflicts, and appends from there on: once an entry has
\* been appended, term_at is None for every later one.
Held(n, e) == e.index < BaseIndex(n) \/ TermAt(n, e.index) = e.term

FirstNew(n, es) ==
  CHOOSE k \in 1..(Len(es) + 1) :
    /\ \A j \in 1..(k - 1) : Held(n, es[j])
    /\ k <= Len(es) => ~Held(n, es[k])

\* truncate_from(i) if there is an entry at i: retain what is below i, which is
\* what precedes it as long as the log has no gap (LogContiguous).
CutAt(n, i) ==
  IF HasEntry(n, i) THEN SubSeq(entries[n], 1, i - BaseIndex(n)) ELSE entries[n]

\* Fault: what the node holds behind the last entry sent is dropped.
SplicedNoLonger(n, es, upTo) ==
  LET k == FirstNew(n, es)
  IN  IF es = <<>> THEN entries[n]
      ELSE IF k > Len(es) THEN CutAt(n, es[Len(es)].index + 1)
      ELSE CutAt(n, es[k].index) \o SubSeq(es, k, upTo)

\* The log after the loop has written the entries of es up to position `upTo'.
Spliced(n, es, upTo) ==
  LET k == FirstNew(n, es)
  IN  IF k > Len(es) THEN entries[n] ELSE CutAt(n, es[k].index) \o SubSeq(es, k, upTo)

Accepts(m) ==
  m.term >= currentTerm[m.to] /\ ~TooShort(m.to, m) /\ ~Diverges(m.to, m)

\* Steps 4 to 6: splice, fsync, adopt the leader's commit index, answer.
AcceptAppend(m) ==
  LET n == m.to
      log == Spliced(n, m.entries, Len(m.entries))
  IN
  /\ Accepts(m)
  /\ BecomeFollower(n, m.term, m.from)
  /\ entries' = [entries EXCEPT ![n] = log]
  /\ commitIndex' = [commitIndex EXCEPT ![n] =
       IF m.commit > @ THEN Lower(m.commit, LastIndex(snapshot[n], log)) ELSE @]
  /\ AnswerAppend(m, TRUE, 0)
  /\ UNCHANGED <<snapshot, lastApplied, leaderVars, voteVars, todo, voteRpcs, crashes>>

HandleAppendEntries(m) == RejectStaleLeader(m) \/ RejectAppend(m) \/ AcceptAppend(m)

-----------------------------------------------------------------------------
\* broadcast_append_entries folds a reply in (on_append_entries_reply).
ReplyNewerTerm(m) ==
  /\ m.term > currentTerm[m.to]
  /\ BecomeFollower(m.to, m.term, Nil)
  /\ UNCHANGED <<commitIndex, leaderVars>>

ReplyIgnored(m) ==
  /\ m.term <= currentTerm[m.to]
  /\ role[m.to] # "Leader" \/ currentTerm[m.to] # m.round
  /\ UNCHANGED <<hardVars, role, leaderId, commitIndex, leaderVars>>

ReplyAwaited(m) ==
  m.term <= currentTerm[m.to] /\ role[m.to] = "Leader" /\ currentTerm[m.to] = m.round

ReplySuccess(m) ==
  LET n == m.to
      match == [matchIndex[n] EXCEPT ![m.from] = m.lastSent]
  IN
  /\ ReplyAwaited(m)
  /\ m.success
  /\ matchIndex' = [matchIndex EXCEPT ![n] = match]
  /\ nextIndex' = [nextIndex EXCEPT ![n][m.from] = m.lastSent + 1]
  /\ commitIndex' = [commitIndex EXCEPT ![n] = AdvancedCommit(n, entries[n], match)]
  /\ UNCHANGED <<hardVars, role, leaderId>>

\* Fault: nothing keeps next_index at 1 or more.
BackedOffToZero(current, conflict) ==
  IF conflict > 0 THEN Lower(conflict, current - 1) ELSE current - 1

\* Fault: one past the conflict.
BackedOffPast(current, conflict) ==
  Higher(1, IF conflict > 0 THEN Lower(conflict + 1, current) ELSE current - 1)

BackedOff(current, conflict) ==
  Higher(1, IF conflict > 0 THEN Lower(conflict, current - 1) ELSE current - 1)

ReplyRejected(m) ==
  /\ ReplyAwaited(m)
  /\ ~m.success
  /\ nextIndex' = [nextIndex EXCEPT ![m.to][m.from] = BackedOff(@, m.conflict)]
  /\ UNCHANGED <<hardVars, role, leaderId, commitIndex, matchIndex>>

HandleAppendReply(m) ==
  /\ \/ ReplyNewerTerm(m)
     \/ ReplyIgnored(m)
     \/ ReplySuccess(m)
     \/ ReplyRejected(m)
  /\ appendReplies' = appendReplies \ {m}
  /\ UNCHANGED <<logVars, lastApplied, voteVars, todo, voteRpcs, appendCalls, crashes>>

-----------------------------------------------------------------------------
\* Raft::propose up to the broadcast.
Propose(n, v) ==
  LET log == Append(entries[n], NewEntry(n, v))
  IN
  /\ role[n] = "Leader"
  /\ LastLogIndex(n) < MaxIndex
  /\ entries' = [entries EXCEPT ![n] = log]
  /\ commitIndex' = [commitIndex EXCEPT ![n] = AdvancedCommit(n, log, matchIndex[n])]
  /\ UNCHANGED <<hardVars, snapshot, role, leaderId, lastApplied, leaderVars, voteVars,
                 todo, voteRpcs, appendRpcs, crashes>>

\* Raft::apply_committed: take_committed, apply to the store, and when
\* Store::should_snapshot says so, snapshot and RaftCore::compact.
ApplyCommitted(n) ==
  LET upTo == Lower(commitIndex[n], snapshot[n].index + Len(entries[n]))
      applied == EntryAt(n, upTo).index
  IN
  /\ lastApplied[n] < commitIndex[n]
  /\ HasEntry(n, lastApplied[n] + 1)
  /\ lastApplied' = [lastApplied EXCEPT ![n] = upTo]
  /\ IF applied - snapshot[n].index >= SnapshotThreshold
     THEN /\ snapshot' = [snapshot EXCEPT ![n] =
                           [index |-> applied, term |-> Higher(0, TermAt(n, applied))]]
          /\ entries' = [entries EXCEPT ![n] =
                           SubSeq(@, applied - snapshot[n].index + 1, Len(@))]
     ELSE UNCHANGED logVars
  /\ UNCHANGED <<hardVars, role, leaderId, commitIndex, leaderVars, voteVars, todo,
                 voteRpcs, appendRpcs, crashes>>

-----------------------------------------------------------------------------
\* Fault: commit_index and last_applied do not start at the snapshot.
ResetToZero(n) ==
  /\ crashes < MaxCrashes
  /\ crashes' = crashes + 1
  /\ role' = [role EXCEPT ![n] = "Follower"]
  /\ leaderId' = [leaderId EXCEPT ![n] = Nil]
  /\ commitIndex' = [commitIndex EXCEPT ![n] = 0]
  /\ lastApplied' = [lastApplied EXCEPT ![n] = 0]
  /\ nextIndex' = [nextIndex EXCEPT ![n] = [p \in Node |-> 1]]
  /\ matchIndex' = [matchIndex EXCEPT ![n] = [p \in Node |-> 0]]
  /\ campaign' = [campaign EXCEPT ![n] = 0]
  /\ voters' = [voters EXCEPT ![n] = {}]
  /\ todo' = [todo EXCEPT ![n] = {}]
  /\ voteReplies' = {r \in voteReplies : r.to # n}
  /\ appendReplies' = {r \in appendReplies : r.to # n}

\* RaftCore::restore after a crash: memory is gone, and so are the tasks that
\* awaited replies.
Reset(n) ==
  /\ crashes < MaxCrashes
  /\ crashes' = crashes + 1
  /\ role' = [role EXCEPT ![n] = "Follower"]
  /\ leaderId' = [leaderId EXCEPT ![n] = Nil]
  /\ commitIndex' = [commitIndex EXCEPT ![n] = snapshot[n].index]
  /\ lastApplied' = [lastApplied EXCEPT ![n] = snapshot[n].index]
  /\ nextIndex' = [nextIndex EXCEPT ![n] = [p \in Node |-> 1]]
  /\ matchIndex' = [matchIndex EXCEPT ![n] = [p \in Node |-> 0]]
  /\ campaign' = [campaign EXCEPT ![n] = 0]
  /\ voters' = [voters EXCEPT ![n] = {}]
  /\ todo' = [todo EXCEPT ![n] = {}]
  /\ voteReplies' = {r \in voteReplies : r.to # n}
  /\ appendReplies' = {r \in appendReplies : r.to # n}

Restart(n) ==
  /\ Reset(n)
  /\ UNCHANGED <<hardVars, logVars, voteCalls, appendCalls>>

\* The logs that a crash in the loop leaves: the old one, with some of the files
\* behind the cut removed; without survivors too, if the crash hits the rewrite of
\* the file that holds the cut; or cut, with some of the new entries.
CrashImages(n, es) ==
  LET k == FirstNew(n, es)
      cuts == HasEntry(n, es[k].index)
      kept == IF RewriteCrash /\ cuts THEN 0 ELSE Len(CutAt(n, es[k].index))
  IN  {SubSeq(entries[n], 1, j) : j \in kept..Len(entries[n])}
      \cup {Spliced(n, es, upTo) : upTo \in (k - 1)..(Len(es) - 1)}

\* The node dies inside handle_append_entries, after the hard state was
\* persisted and before all of the new entries are in the WAL.
CrashInAppend(m) ==
  LET n == m.to
  IN
  /\ Accepts(m)
  /\ FirstNew(n, m.entries) <= Len(m.entries)
  /\ \E log \in CrashImages(n, m.entries) : entries' = [entries EXCEPT ![n] = log]
  /\ currentTerm' = [currentTerm EXCEPT ![n] = m.term]
  /\ votedFor' = [votedFor EXCEPT ![n] = IF m.term > currentTerm[n] THEN Nil ELSE @]
  /\ Reset(n)
  /\ appendCalls' = appendCalls \ {m}
  /\ UNCHANGED <<snapshot, voteCalls>>

\* A request or a reply is lost; the task awaiting it gets an error.
LoseVoteCall(m) ==
  /\ voteCalls' = voteCalls \ {m}
  /\ UNCHANGED <<hardVars, logVars, role, leaderId, commitVars, leaderVars, voteVars,
                 todo, voteReplies, appendRpcs, crashes>>

LoseVoteReply(m) ==
  /\ voteReplies' = voteReplies \ {m}
  /\ UNCHANGED <<hardVars, logVars, role, leaderId, commitVars, leaderVars, voteVars,
                 todo, voteCalls, appendRpcs, crashes>>

LoseAppendCall(m) ==
  /\ appendCalls' = appendCalls \ {m}
  /\ UNCHANGED <<hardVars, logVars, role, leaderId, commitVars, leaderVars, voteVars,
                 todo, voteRpcs, appendReplies, crashes>>

LoseAppendReply(m) ==
  /\ appendReplies' = appendReplies \ {m}
  /\ UNCHANGED <<hardVars, logVars, role, leaderId, commitVars, leaderVars, voteVars,
                 todo, voteRpcs, appendCalls, crashes>>

Next ==
  \/ \E n \in Node : StartElection(n)
  \/ \E m \in voteCalls : HandleRequestVote(m)
  \/ \E m \in voteReplies : HandleVoteReply(m)
  \/ \E n \in Node : DecideReplicate(n)
  \/ \E n \in Node : BeginBroadcast(n)
  \/ \E n \in Node : \E task \in ToBuild(n) : SendAppendEntries(n, task)
  \/ \E m \in appendCalls : HandleAppendEntries(m)
  \/ \E m \in appendReplies : HandleAppendReply(m)
  \/ \E n \in Node : \E v \in Value : Propose(n, v)
  \/ \E n \in Node : ApplyCommitted(n)
  \/ \E n \in Node : Restart(n)
  \/ \E m \in appendCalls : CrashInAppend(m)
  \/ \E m \in voteCalls : LoseVoteCall(m)
  \/ \E m \in voteReplies : LoseVoteReply(m)
  \/ \E m \in appendCalls : LoseAppendCall(m)
  \/ \E m \in appendReplies : LoseAppendReply(m)

Spec == Init /\ [][Next]_vars

-----------------------------------------------------------------------------
TypeOK ==
  /\ currentTerm \in [Node -> Nat]
  /\ votedFor \in [Node -> Node \cup {Nil}]
  /\ entries \in [Node -> Seq(LogEntry)]
  /\ snapshot \in [Node -> SnapshotMeta]
  /\ role \in [Node -> {"Follower", "Candidate", "Leader"}]
  /\ leaderId \in [Node -> Node \cup {Nil}]
  /\ commitIndex \in [Node -> Nat]
  /\ lastApplied \in [Node -> Nat]
  /\ nextIndex \in [Node -> [Node -> Nat \ {0}]]
  /\ matchIndex \in [Node -> [Node -> Nat]]
  /\ campaign \in [Node -> Nat]
  /\ voters \in [Node -> SUBSET Node]
  /\ todo \in [Node -> SUBSET (Node \X Nat)]
  /\ voteCalls \in SUBSET RequestVoteArgs
  /\ voteReplies \in SUBSET RequestVoteReply
  /\ appendCalls \in SUBSET AppendEntriesArgs
  /\ appendReplies \in SUBSET AppendEntriesReply
  /\ crashes \in Nat

\* At most one node leads in a term, whatever is lost, reordered or restarted.
ElectionSafety ==
  \A n1, n2 \in Node :
    role[n1] = "Leader" /\ role[n2] = "Leader" /\ currentTerm[n1] = currentTerm[n2]
      => n1 = n2

\* A node's term never goes back and its vote in a term, once cast, never
\* changes, restarts included (HardState, "flushed before any RPC is answered").
VoteOnce ==
  [][\A n \in Node :
       /\ currentTerm'[n] >= currentTerm[n]
       /\ currentTerm'[n] = currentTerm[n] /\ votedFor[n] # Nil
            => votedFor'[n] = votedFor[n]]_vars

\* The votes <<voter, term, candidate>> that a campaign has counted or that are
\* on their way to it.
Votes ==
  {<<r.from, r.campaign, r.to>> : r \in {x \in voteReplies : x.granted}}
  \cup UNION {{<<v, currentTerm[c], c>> : v \in voters[c]} :
                c \in {x \in Node : role[x] # "Follower"}}

\* Every such vote is backed by the voter's hard state until the voter moves on
\* to a later term, and no voter has two of them in one term ("only once per
\* term (which is why the vote is persisted before replying)", election.rs:4).
VotesBind ==
  /\ \A e \in Votes :
       /\ currentTerm[e[1]] >= e[2]
       /\ currentTerm[e[1]] = e[2] => votedFor[e[1]] = e[3]
  /\ \A e, f \in Votes : e[1] = f[1] /\ e[2] = f[2] => e[3] = f[3]

\* The entry in position k above the snapshot has the k-th index above it,
\* which term_at, entry_at and entries_from rely on when they subtract
\* base_index: a follower appends entries that are "contiguous from
\* prev_log_index + 1" (replication.rs:17; "replicated append left a gap in the
\* log", replication.rs:179).
LogContiguous ==
  \A n \in Node : \A k \in 1..Len(entries[n]) : entries[n][k].index = snapshot[n].index + k

\* What is applied is committed, what is committed is in the log, and a
\* snapshot covers only what was applied; also right after a restart, when
\* restore() starts commit_index and last_applied at the snapshot.  (Of two nodes:
\* with three, a gap as in LogContiguous moves a snapshot past last_applied.)
AppliedInBounds ==
  \A n \in Node :
    /\ snapshot[n].index <= lastApplied[n]
    /\ lastApplied[n] <= commitIndex[n]
    /\ commitIndex[n] <= LastLogIndex(n)

\* Does node p hold the entry that node n holds at index i?
Holds(p, n, i) ==
  \/ snapshot[p].index >= i
  \/ HasEntry(p, i) /\ EntryAt(p, i) = EntryAt(n, i)

\* Two logs that have an entry of the same index and term agree up to it (checked
\* where logs differ at prev_log_index, in CatchUp).
LogMatching ==
  \A n1, n2 \in Node : \A i \in 1..MaxIndex :
    HasEntry(n1, i) /\ HasEntry(n2, i) /\ TermAt(n1, i) = TermAt(n2, i)
      => \A j \in 1..i : HasEntry(n1, j) => Holds(n2, n1, j)

\* What any node believes committed is stored by a quorum, for good: crashes,
\* new leaders and conflict resolution never reduce it to a minority ("returns
\* once committed on a quorum", kv.proto:11).
CommittedOnQuorum ==
  \A n \in Node : \A i \in 1..commitIndex[n] :
    HasEntry(n, i) => Cardinality({p \in Node : Holds(p, n, i)}) >= Quorum

\* No two nodes commit different entries at one index.
StateMachineSafety ==
  \A n1, n2 \in Node : \A i \in 1..Lower(commitIndex[n1], commitIndex[n2]) :
    HasEntry(n1, i) => Holds(n2, n1, i)

\* A leader holds every entry that was committed in its term or before.
LeaderCompleteness ==
  \A l, n \in Node :
    role[l] = "Leader" /\ currentTerm[l] >= currentTerm[n]
      => \A i \in 1..commitIndex[n] : HasEntry(n, i) => Holds(l, n, i)

\* A node never drops or replaces an entry that it knows to be committed, other
\* than by folding it into a snapshot.
CommittedStable ==
  [][\A n \in {x \in Node : entries'[x] # entries[x]} : \A i \in 1..commitIndex[n] :
       HasEntry(n, i) =>
         \/ snapshot'[n].index >= i
         \/ /\ i - snapshot'[n].index \in 1..Len(entries'[n])
            /\ entries'[n][i - snapshot'[n].index] = EntryAt(n, i)]_vars
=============================================================================
