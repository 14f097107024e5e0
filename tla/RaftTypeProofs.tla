--------------------------- MODULE RaftTypeProofs ---------------------------
(***************************************************************************)
(* Types of Raft, for every set of nodes and every bound, with or without  *)
(* the broadcast race.                                                     *)
(***************************************************************************)
EXTENDS Raft, FiniteSetTheorems, SequenceTheorems, LeastElement

-----------------------------------------------------------------------------
(* The log helpers of mod.rs on well-typed logs.                           *)

\* last_log_index, last_log_term and term_at of a typed log are naturals, or
\* None for term_at.
LEMMA LogHelperTypes ==
  ASSUME NEW snap \in SnapshotMeta, NEW log \in Seq(LogEntry)
  PROVE  /\ LastIndex(snap, log) \in Nat
         /\ LastTerm(snap, log) \in Nat
         /\ \A i \in Int : TermIn(snap, log, i) \in Nat \cup {NoTerm}
<1>1. log # <<>> => Last(log) \in LogEntry
  BY DEF Last
<1>2. LastIndex(snap, log) \in Nat /\ LastTerm(snap, log) \in Nat
  BY <1>1 DEF LastIndex, LastTerm, SnapshotMeta, LogEntry
<1>3. ASSUME NEW i \in Int
      PROVE  TermIn(snap, log, i) \in Nat \cup {NoTerm}
  <2>1. i - snap.index \in 1..Len(log) => log[i - snap.index] \in LogEntry
    BY DEF SnapshotMeta
  <2>2. QED
    BY <2>1 DEF TermIn, SnapshotMeta, LogEntry
<1>4. QED
  BY <1>2, <1>3

\* entries_from ships a typed log.
LEMMA EntriesFromType ==
  ASSUME TypeOK, NEW n \in Node, NEW from \in Nat
  PROVE  EntriesFrom(n, from) \in Seq(LogEntry)
<1> DEFINE log == entries[n]
<1>1. log \in Seq(LogEntry) /\ snapshot[n].index \in Nat
  BY DEF TypeOK, SnapshotMeta
<1>2. ASSUME from >= snapshot[n].index + 1
      PROVE  SubSeq(log, from - snapshot[n].index, Len(log)) \in Seq(LogEntry)
  <2>1. CASE from - snapshot[n].index <= Len(log)
    BY <1>1, <1>2, <2>1, SubSeqProperties
  <2>2. CASE from - snapshot[n].index > Len(log)
    BY <1>1, <1>2, <2>2, SubSeqProperties
  <2>3. QED
    BY <1>1, <1>2, <2>1, <2>2
<1>3. QED
  BY <1>1, <1>2 DEF EntriesFrom, BaseIndex

\* A commit index that advances is one of the indices that some node reached.
LEMMA AdvancedCommitType ==
  ASSUME TypeOK, NEW n \in Node, NEW log \in Seq(LogEntry), NEW match \in [Node -> Nat]
  PROVE  AdvancedCommit(n, log, match) \in Nat
<1> DEFINE reached == Reached(n, log, match)
           advance == {c \in {reached[p] : p \in Node} :
                         /\ AtQuorum(reached, c)
                         /\ c > commitIndex[n]
                         /\ TermIn(snapshot[n], log, c) = currentTerm[n]}
<1>1. snapshot[n] \in SnapshotMeta /\ commitIndex[n] \in Nat
  BY DEF TypeOK
<1>2. reached \in [Node -> Nat]
  BY <1>1, LogHelperTypes DEF Reached
<1>3. advance \subseteq Nat
  BY <1>2
<1>4. advance # {} => (CHOOSE c \in advance : TRUE) \in advance
  OBVIOUS
<1> HIDE DEF advance
<1>5. (IF advance = {} THEN commitIndex[n] ELSE CHOOSE c \in advance : TRUE) \in Nat
  BY <1>1, <1>3, <1>4
<1>6. QED
  BY <1>5 DEF AdvancedCommit, advance

\* handle_append_entries' loop has a first entry that it must write, or none.
LEMMA FirstNewExists ==
  ASSUME NEW n, NEW es, Len(es) \in Nat
  PROVE  LET k == FirstNew(n, es)
         IN  /\ k \in 1..(Len(es) + 1)
             /\ \A j \in 1..(k - 1) : Held(n, es[j])
             /\ k <= Len(es) => ~Held(n, es[k])
<1> DEFINE T == {k \in 1..(Len(es) + 1) : k <= Len(es) => ~Held(n, es[k])}
           Good(k) == /\ \A j \in 1..(k - 1) : Held(n, es[j])
                      /\ k <= Len(es) => ~Held(n, es[k])
<1>1. Len(es) + 1 \in T /\ T \in SUBSET Nat
  OBVIOUS
<1>2. PICK k \in T : \A y \in T : k <= y
  BY <1>1, LeastNatural
<1>3. ASSUME NEW j \in 1..(k - 1)
      PROVE  Held(n, es[j])
  <2>1. j \in 1..(Len(es) + 1) /\ j <= Len(es) /\ ~(k <= j)
    BY <1>2
  <2>2. j \notin T
    BY <1>2, <2>1
  <2>3. QED
    BY <2>1, <2>2
<1>4. \E x \in 1..(Len(es) + 1) : Good(x)
  BY <1>2, <1>3
<1> HIDE DEF Good
<1>5. LET x == CHOOSE x \in 1..(Len(es) + 1) : Good(x)
      IN  x \in 1..(Len(es) + 1) /\ Good(x)
  BY <1>4
<1>6. QED
  BY <1>5 DEF FirstNew, Good

\* truncate_from leaves a typed log.
LEMMA CutAtType ==
  ASSUME TypeOK, NEW n \in Node, NEW i \in Nat
  PROVE  CutAt(n, i) \in Seq(LogEntry)
<1> DEFINE cut == i - BaseIndex(n)
<1>1. entries[n] \in Seq(LogEntry) /\ snapshot[n].index \in Nat
  BY DEF TypeOK, SnapshotMeta
<1>2. HasEntry(n, i) => cut \in Int /\ cut < Len(entries[n])
  BY <1>1 DEF HasEntry, BaseIndex
<1> HIDE DEF cut
<1>3. ASSUME HasEntry(n, i)
      PROVE  SubSeq(entries[n], 1, cut) \in Seq(LogEntry)
  <2>1. \A j \in 1..cut : entries[n][j] \in LogEntry
    BY <1>1, <1>2, <1>3, ElementOfSeq
  <2>2. QED
    BY <1>2, <1>3, <2>1, SubSeqProperties
<1>4. QED
  BY <1>1, <1>3 DEF CutAt, cut

\* truncate_from and the appends of a splice leave a typed log.
LEMMA SplicedType ==
  ASSUME TypeOK, NEW n \in Node, NEW es \in Seq(LogEntry), NEW upTo \in Nat,
         upTo <= Len(es)
  PROVE  Spliced(n, es, upTo) \in Seq(LogEntry)
<1> DEFINE k == FirstNew(n, es)
<1>1. entries[n] \in Seq(LogEntry) /\ snapshot[n].index \in Nat
  BY DEF TypeOK, SnapshotMeta
<1>2. k \in 1..(Len(es) + 1)
  BY FirstNewExists
<1> HIDE DEF k
<1>3. ASSUME k <= Len(es)
      PROVE  CutAt(n, es[k].index) \o SubSeq(es, k, upTo) \in Seq(LogEntry)
  <2>1. es[k].index \in Nat
    <3>1. es[k] \in LogEntry
      BY <1>2, <1>3
    <3>2. QED
      BY <3>1 DEF LogEntry
  <2>2. CutAt(n, es[k].index) \in Seq(LogEntry)
    BY <2>1, CutAtType
  <2>3. SubSeq(es, k, upTo) \in Seq(LogEntry)
    BY <1>2, SubSeqProperties
  <2>4. QED
    BY <2>2, <2>3, ConcatProperties
<1>4. QED
  <2>1. (IF k > Len(es) THEN entries[n]
         ELSE CutAt(n, es[k].index) \o SubSeq(es, k, upTo)) \in Seq(LogEntry)
    BY <1>1, <1>2, <1>3
  <2>2. QED
    BY <2>1 DEF Spliced, k

\* append_command extends a typed log to a typed log.
LEMMA NewEntryType ==
  ASSUME TypeOK, NEW n \in Node, NEW c \in Command
  PROVE  Append(entries[n], NewEntry(n, c)) \in Seq(LogEntry)
<1>1. /\ entries[n] \in Seq(LogEntry)
      /\ currentTerm[n] \in Nat
      /\ LastLogIndex(n) \in Nat
  BY LogHelperTypes DEF TypeOK, LastLogIndex
<1>2. NewEntry(n, c) \in LogEntry
  BY <1>1 DEF NewEntry, LogEntry
<1>3. QED
  BY <1>1, <1>2, AppendProperties

-----------------------------------------------------------------------------
(* Types.                                                                  *)

\* Stepping down keeps the hard state, the role and the leader hint typed.
LEMMA BecomeFollowerType ==
  ASSUME TypeOK, NEW n \in Node, NEW term \in Nat, NEW leader \in Node \cup {Nil},
         BecomeFollower(n, term, leader)
  PROVE  /\ currentTerm' \in [Node -> Nat]
         /\ votedFor' \in [Node -> Node \cup {Nil}]
         /\ role' \in [Node -> {"Follower", "Candidate", "Leader"}]
         /\ leaderId' \in [Node -> Node \cup {Nil}]
BY DEF TypeOK, BecomeFollower, Higher

\* Elections keep the types.
LEMMA ElectionTypes ==
  ASSUME TypeOK
  PROVE  /\ \A n \in Node : StartElection(n) => TypeOK'
         /\ \A m \in voteCalls : HandleRequestVote(m) => TypeOK'
         /\ \A m \in voteReplies : HandleVoteReply(m) => TypeOK'
<1>1. ASSUME NEW n \in Node, StartElection(n)
      PROVE  TypeOK'
  <2>1. LastLogIndex(n) \in Nat /\ LastLogTerm(n) \in Nat
    BY LogHelperTypes DEF TypeOK, LastLogIndex, LastLogTerm
  <2>2. voteCalls' \in SUBSET RequestVoteArgs
    <3> DEFINE call(p) == [from |-> n, to |-> p, term |-> currentTerm[n] + 1,
                           lastIndex |-> LastLogIndex(n), lastTerm |-> LastLogTerm(n)]
    <3>1. voteCalls \in SUBSET RequestVoteArgs /\ currentTerm[n] \in Nat
      BY DEF TypeOK
    <3>2. \A p \in Peers(n) : call(p) \in RequestVoteArgs
      BY <2>1, <3>1 DEF RequestVoteArgs, Peers
    <3>3. voteCalls' = voteCalls \cup {call(p) : p \in Peers(n)}
      BY <1>1 DEF StartElection
    <3> HIDE DEF call
    <3>4. QED
      BY <3>1, <3>2, <3>3
  <2>3. /\ currentTerm' \in [Node -> Nat]
        /\ votedFor' \in [Node -> Node \cup {Nil}]
        /\ role' \in [Node -> {"Follower", "Candidate", "Leader"}]
        /\ leaderId' \in [Node -> Node \cup {Nil}]
    BY <1>1 DEF TypeOK, StartElection
  <2>4. /\ voters' \in [Node -> SUBSET Node]
        /\ campaign' \in [Node -> Nat]
        /\ voteReplies' \in SUBSET RequestVoteReply
    BY <1>1 DEF TypeOK, StartElection
  <2>5. UNCHANGED <<logVars, commitVars, leaderVars, todo, appendRpcs, crashes>>
    BY <1>1 DEF StartElection
  <2>6. QED
    BY <2>2, <2>3, <2>4, <2>5 DEF TypeOK, logVars, commitVars, leaderVars, appendRpcs
<1>2. ASSUME NEW m \in voteCalls, HandleRequestVote(m)
      PROVE  TypeOK'
  <2>1. m.to \in Node /\ m.from \in Node /\ m.term \in Nat
    BY DEF TypeOK, RequestVoteArgs
  <2>2. GrantsVote(m.to, m) \in BOOLEAN
    BY DEF GrantsVote
  <2>3. voteReplies' \in SUBSET RequestVoteReply
    <3> DEFINE reply == [from |-> m.to, to |-> m.from, campaign |-> m.term,
                         term |-> Higher(currentTerm[m.to], m.term),
                         granted |-> GrantsVote(m.to, m)]
    <3>1. voteReplies \in SUBSET RequestVoteReply /\ currentTerm[m.to] \in Nat
      BY <2>1 DEF TypeOK
    <3>2. reply \in RequestVoteReply
      BY <2>1, <2>2, <3>1 DEF RequestVoteReply, Higher
    <3>3. voteReplies' = voteReplies \cup
                           (IF campaign[m.from] = m.term THEN {reply} ELSE {})
      BY <1>2 DEF HandleRequestVote
    <3> HIDE DEF reply
    <3>4. QED
      BY <3>1, <3>2, <3>3
  <2>4. /\ currentTerm' \in [Node -> Nat]
        /\ votedFor' \in [Node -> Node \cup {Nil}]
        /\ role' \in [Node -> {"Follower", "Candidate", "Leader"}]
        /\ leaderId' \in [Node -> Node \cup {Nil}]
    BY <1>2, <2>1 DEF TypeOK, HandleRequestVote, Higher
  <2>5. QED
    BY <1>2, <2>3, <2>4
       DEF TypeOK, HandleRequestVote, logVars, commitVars, leaderVars, voteVars, appendRpcs
<1>3. ASSUME NEW m \in voteReplies, HandleVoteReply(m)
      PROVE  TypeOK'
  <2>1. m.to \in Node /\ m.from \in Node /\ m.term \in Nat
    BY DEF TypeOK, RequestVoteReply
  <2>2. CASE VoteReplyNewerTerm(m)
    <3>1. BecomeFollower(m.to, m.term, Nil)
      BY <2>2 DEF VoteReplyNewerTerm
    <3>2. QED
      BY <2>1, <2>2, <3>1, BecomeFollowerType
         DEF TypeOK, VoteReplyNewerTerm, CampaignOver, logVars, commitVars, leaderVars,
             appendRpcs
  <2>3. CASE VoteReplyStale(m)
    BY <2>1, <2>3 DEF TypeOK, VoteReplyStale, CampaignOver, hardVars, logVars, commitVars,
                      leaderVars, appendRpcs
  <2>4. CASE VoteReplyCounted(m)
    BY <2>1, <2>4 DEF TypeOK, VoteReplyCounted, VotesWith, hardVars, logVars, commitVars,
                      leaderVars, appendRpcs
  <2>5. CASE VoteReplyWins(m)
    <3> DEFINE n == m.to
               log == Append(entries[n], NewEntry(n, Noop))
               match == [p \in Node |-> 0]
    <3>1. LastLogIndex(n) \in Nat
      BY <2>1, LogHelperTypes DEF TypeOK, LastLogIndex
    <3>2. log \in Seq(LogEntry)
      BY <2>1, NewEntryType DEF Command
    <3>3. AdvancedCommit(n, log, match) \in Nat
      BY <2>1, <3>2, AdvancedCommitType
    <3> HIDE DEF log, match
    <3>4. /\ entries' = [entries EXCEPT ![n] = log]
          /\ commitIndex' = [commitIndex EXCEPT ![n] = AdvancedCommit(n, log, match)]
          /\ matchIndex' = [matchIndex EXCEPT ![n] = match]
      BY <2>5 DEF VoteReplyWins, log, match
    <3>5. match \in [Node -> Nat]
      BY DEF match
    <3>6. entries' \in [Node -> Seq(LogEntry)] /\ commitIndex' \in [Node -> Nat]
          /\ matchIndex' \in [Node -> [Node -> Nat]]
      BY <2>1, <3>2, <3>3, <3>4, <3>5 DEF TypeOK
    <3>7. QED
      <4>1. nextIndex' \in [Node -> [Node -> Nat \ {0}]]
        <5>1. [p \in Node |-> LastLogIndex(n) + 1] \in [Node -> Nat \ {0}]
          BY <3>1
        <5>2. QED
          BY <2>1, <2>5, <5>1 DEF TypeOK, VoteReplyWins
      <4>2. /\ role' \in [Node -> {"Follower", "Candidate", "Leader"}]
            /\ leaderId' \in [Node -> Node \cup {Nil}]
            /\ voters' \in [Node -> SUBSET Node]
            /\ campaign' \in [Node -> Nat]
            /\ voteReplies' \in SUBSET RequestVoteReply
        BY <2>1, <2>5 DEF TypeOK, VoteReplyWins, CampaignOver, VotesWith
      <4>3. QED
        BY <2>5, <3>6, <4>1, <4>2 DEF TypeOK, VoteReplyWins, hardVars, appendRpcs
  <2>6. QED
    BY <1>3, <2>2, <2>3, <2>4, <2>5 DEF HandleVoteReply
<1>4. QED
  BY <1>1, <1>2, <1>3

\* Sending and handling AppendEntries keeps the types.
LEMMA AppendEntriesTypes ==
  ASSUME TypeOK
  PROVE  /\ \A n \in Node : DecideReplicate(n) \/ BeginBroadcast(n) => TypeOK'
         /\ \A n \in Node : \A task \in ToBuild(n) : SendAppendEntries(n, task) => TypeOK'
         /\ \A m \in appendCalls : HandleAppendEntries(m) => TypeOK'
<1>1. ASSUME NEW n \in Node
      PROVE  Round(n) \subseteq Node \X Nat /\ ToBuild(n) \subseteq Node \X Nat
  BY DEF TypeOK, Round, ToBuild, Peers
<1>2. ASSUME NEW n \in Node, DecideReplicate(n) \/ BeginBroadcast(n)
      PROVE  TypeOK'
  <2>1. Decided(n) \in Node \X Nat
    BY DEF Decided
  <2>2. todo' \in [Node -> SUBSET (Node \X Nat)]
    <3>1. PICK more \in SUBSET (Node \X Nat) : todo' = [todo EXCEPT ![n] = @ \cup more]
      BY <1>1, <1>2, <2>1 DEF DecideReplicate, BeginBroadcast
    <3>2. todo[n] \cup more \in SUBSET (Node \X Nat)
      BY DEF TypeOK
    <3>3. QED
      BY <3>1, <3>2 DEF TypeOK
  <2>3. QED
    BY <1>2, <2>2 DEF TypeOK, DecideReplicate, BeginBroadcast, hardVars, logVars, commitVars,
                      leaderVars, voteVars, voteRpcs, appendRpcs
<1>3. ASSUME NEW n \in Node, NEW task \in ToBuild(n), SendAppendEntries(n, task)
      PROVE  TypeOK'
  <2> DEFINE p == task[1]
             m == AppendEntriesFor(n, task[1], task[2])
  <2>1. p \in Node /\ task[2] \in Nat
    BY <1>1
  <2>2. /\ nextIndex[n][p] \in Nat \ {0}
        /\ currentTerm[n] \in Nat
        /\ commitIndex[n] \in Nat
        /\ snapshot[n] \in SnapshotMeta
        /\ entries[n] \in Seq(LogEntry)
    BY <2>1 DEF TypeOK
  <2>3. nextIndex[n][p] - 1 \in Nat
    <3>1. nextIndex[n][p] \in Nat \ {0}
      BY <2>2
    <3>2. \A i \in Nat \ {0} : i - 1 \in Nat
      OBVIOUS
    <3>3. QED
      BY <3>1, <3>2
  <2>4. TermAt(n, nextIndex[n][p] - 1) \in Nat \cup {NoTerm}
    <3> DEFINE prev == nextIndex[n][p] - 1
    <3>1. prev \in Nat
      BY <2>3
    <3> HIDE DEF prev
    <3>2. prev \in Int
      BY <3>1
    <3>3. TermAt(n, prev) \in Nat \cup {NoTerm}
      BY <2>2, <3>2, LogHelperTypes DEF TermAt
    <3>4. QED
      BY <3>3 DEF prev
  <2>5. EntriesFrom(n, nextIndex[n][p]) \in Seq(LogEntry)
    BY <2>2, EntriesFromType
  <2>6. m \in AppendEntriesArgs
    BY <2>1, <2>2, <2>3, <2>4, <2>5 DEF AppendEntriesFor, AppendEntriesArgs, SnapshotMeta
  <2>7. appendCalls' = appendCalls \cup {m}
    BY <1>3 DEF SendAppendEntries
  <2> HIDE DEF m
  <2>8. appendCalls' \in SUBSET AppendEntriesArgs
    BY <2>6, <2>7 DEF TypeOK
  <2>9. QED
    BY <1>3, <2>8 DEF TypeOK, SendAppendEntries, hardVars, logVars, commitVars, leaderVars,
                      voteVars, voteRpcs
<1>4. ASSUME NEW m \in appendCalls, HandleAppendEntries(m)
      PROVE  TypeOK'
  <2>1. /\ m \in AppendEntriesArgs
        /\ m.to \in Node /\ m.from \in Node /\ m.term \in Nat /\ m.commit \in Nat
        /\ m.entries \in Seq(LogEntry)
    BY DEF TypeOK, AppendEntriesArgs
  <2>2. \A success \in BOOLEAN, conflict \in Nat :
          AnswerAppend(m, success, conflict) =>
            /\ appendCalls' \in SUBSET AppendEntriesArgs
            /\ appendReplies' \in SUBSET AppendEntriesReply
    <3>1. ASSUME NEW success \in BOOLEAN, NEW conflict \in Nat
          PROVE  AppendReply(m, success, conflict) \in AppendEntriesReply
      <4>1. m.prevIndex + Len(m.entries) \in Nat /\ m.round \in Nat
        BY <2>1 DEF AppendEntriesArgs
      <4>2. Higher(currentTerm[m.to], m.term) \in Nat
        BY <2>1 DEF TypeOK, Higher
      <4>3. QED
        BY <2>1, <4>1, <4>2 DEF AppendReply, AppendEntriesReply
    <3>2. QED
      BY <3>1 DEF TypeOK, AnswerAppend
  <2>3. CASE RejectStaleLeader(m)
    BY <2>2, <2>3 DEF TypeOK, RejectStaleLeader, hardVars, logVars, commitVars, leaderVars,
                      voteVars, voteRpcs
  <2>4. CASE RejectAppend(m)
    <3>1. LastLogIndex(m.to) + 1 \in Nat /\ m.prevIndex \in Nat
      <4>1. snapshot[m.to] \in SnapshotMeta /\ entries[m.to] \in Seq(LogEntry)
        BY <2>1 DEF TypeOK
      <4>2. LastLogIndex(m.to) \in Nat
        BY <4>1, LogHelperTypes DEF LastLogIndex
      <4>3. m.prevIndex \in Nat
        BY <2>1 DEF AppendEntriesArgs
      <4>4. QED
        BY <4>2, <4>3
    <3>2. /\ appendCalls' \in SUBSET AppendEntriesArgs
          /\ appendReplies' \in SUBSET AppendEntriesReply
      BY <2>2, <2>4, <3>1 DEF RejectAppend
    <3>3. BecomeFollower(m.to, m.term, m.from)
      BY <2>4 DEF RejectAppend
    <3>4. QED
      BY <2>1, <2>4, <3>2, <3>3, BecomeFollowerType
         DEF TypeOK, RejectAppend, logVars, commitVars, leaderVars, voteVars, voteRpcs
  <2>5. CASE AcceptAppend(m)
    <3> DEFINE n == m.to
               log == Spliced(n, m.entries, Len(m.entries))
    <3>1. log \in Seq(LogEntry)
      BY <2>1, SplicedType
    <3>2. LastIndex(snapshot[n], log) \in Nat
      BY <2>1, <3>1, LogHelperTypes DEF TypeOK
    <3> HIDE DEF log
    <3>3. /\ entries' = [entries EXCEPT ![n] = log]
          /\ commitIndex' = [commitIndex EXCEPT ![n] =
               IF m.commit > @ THEN Lower(m.commit, LastIndex(snapshot[n], log)) ELSE @]
      BY <2>5 DEF AcceptAppend, log
    <3>4. entries' \in [Node -> Seq(LogEntry)] /\ commitIndex' \in [Node -> Nat]
      BY <2>1, <3>1, <3>2, <3>3 DEF TypeOK, Lower
    <3>5. BecomeFollower(n, m.term, m.from) /\ AnswerAppend(m, TRUE, 0)
      BY <2>5 DEF AcceptAppend
    <3>6. /\ appendCalls' \in SUBSET AppendEntriesArgs
          /\ appendReplies' \in SUBSET AppendEntriesReply
      BY <2>2, <3>5
    <3>7. QED
      BY <2>1, <2>5, <3>4, <3>5, <3>6, BecomeFollowerType
         DEF TypeOK, AcceptAppend, leaderVars, voteVars, voteRpcs
  <2>6. QED
    BY <1>4, <2>3, <2>4, <2>5 DEF HandleAppendEntries
<1>5. QED
  BY <1>2, <1>3, <1>4

\* Folding in the replies to AppendEntries keeps the types.
LEMMA AppendReplyTypes ==
  ASSUME TypeOK, NEW m \in appendReplies, HandleAppendReply(m)
  PROVE  TypeOK'
<1>1. /\ m.to \in Node /\ m.from \in Node /\ m.term \in Nat
      /\ m.lastSent \in Nat /\ m.conflict \in Nat
  BY DEF TypeOK, AppendEntriesReply
<1> DEFINE n == m.to
<1>2. appendReplies' \in SUBSET AppendEntriesReply
  BY DEF TypeOK, HandleAppendReply
<1>3. CASE ReplyNewerTerm(m)
  <2>1. BecomeFollower(n, m.term, Nil)
    BY <1>3 DEF ReplyNewerTerm
  <2>2. QED
    BY <1>1, <1>2, <1>3, <2>1, BecomeFollowerType
       DEF TypeOK, HandleAppendReply, ReplyNewerTerm, logVars, leaderVars, voteVars, voteRpcs
<1>4. CASE ReplyIgnored(m)
  BY <1>2, <1>4 DEF TypeOK, HandleAppendReply, ReplyIgnored, hardVars, logVars, leaderVars,
                    voteVars, voteRpcs
<1>5. CASE ReplySuccess(m)
  <2> DEFINE match == [matchIndex[n] EXCEPT ![m.from] = m.lastSent]
  <2>1. match \in [Node -> Nat] /\ entries[n] \in Seq(LogEntry)
    BY <1>1 DEF TypeOK
  <2>2. AdvancedCommit(n, entries[n], match) \in Nat
    BY <1>1, <2>1, AdvancedCommitType
  <2> HIDE DEF match
  <2>3. /\ matchIndex' = [matchIndex EXCEPT ![n] = match]
        /\ commitIndex' = [commitIndex EXCEPT ![n] = AdvancedCommit(n, entries[n], match)]
    BY <1>5 DEF ReplySuccess, match
  <2>4. matchIndex' \in [Node -> [Node -> Nat]] /\ commitIndex' \in [Node -> Nat]
    BY <1>1, <2>1, <2>2, <2>3 DEF TypeOK
  <2>5. nextIndex' \in [Node -> [Node -> Nat \ {0}]]
    <3>1. nextIndex' = [nextIndex EXCEPT ![n][m.from] = m.lastSent + 1]
      BY <1>5 DEF ReplySuccess
    <3>2. m.lastSent + 1 \in Nat \ {0}
      BY <1>1
    <3>3. QED
      BY <1>1, <3>1, <3>2 DEF TypeOK
  <2>6. QED
    BY <1>2, <1>5, <2>4, <2>5
       DEF TypeOK, HandleAppendReply, ReplySuccess, hardVars, logVars, voteVars, voteRpcs
<1>6. CASE ReplyRejected(m)
  <2>1. \A k \in Nat \ {0} : BackedOff(k, m.conflict) \in Nat \ {0}
    BY <1>1 DEF BackedOff, Higher, Lower
  <2>2. nextIndex' \in [Node -> [Node -> Nat \ {0}]]
    <3> DEFINE next == BackedOff(nextIndex[n][m.from], m.conflict)
    <3>1. nextIndex \in [Node -> [Node -> Nat \ {0}]]
      BY DEF TypeOK
    <3>2. next \in Nat \ {0}
      BY <1>1, <2>1, <3>1
    <3>3. nextIndex' = [nextIndex EXCEPT ![n][m.from] = next]
      BY <1>6 DEF ReplyRejected
    <3> HIDE DEF next
    <3>4. QED
      BY <1>1, <3>1, <3>2, <3>3
  <2>3. QED
    BY <1>2, <1>6, <2>2
       DEF TypeOK, HandleAppendReply, ReplyRejected, hardVars, logVars, voteVars, voteRpcs
<1>7. QED
  BY <1>3, <1>4, <1>5, <1>6 DEF HandleAppendReply

\* Proposing, applying and compacting keep the types.
LEMMA LocalTypes ==
  ASSUME TypeOK, NEW n \in Node
  PROVE  /\ \A v \in Value : Propose(n, v) => TypeOK'
         /\ ApplyCommitted(n) => TypeOK'
<1>1. ASSUME NEW v \in Value, Propose(n, v)
      PROVE  TypeOK'
  <2> DEFINE log == Append(entries[n], NewEntry(n, v))
  <2>1. log \in Seq(LogEntry)
    BY NewEntryType DEF Command
  <2>2. AdvancedCommit(n, log, matchIndex[n]) \in Nat
    BY <2>1, AdvancedCommitType DEF TypeOK
  <2> HIDE DEF log
  <2>3. /\ entries' = [entries EXCEPT ![n] = log]
        /\ commitIndex' = [commitIndex EXCEPT ![n] = AdvancedCommit(n, log, matchIndex[n])]
    BY <1>1 DEF Propose, log
  <2>4. entries' \in [Node -> Seq(LogEntry)] /\ commitIndex' \in [Node -> Nat]
    BY <2>1, <2>2, <2>3 DEF TypeOK
  <2>5. QED
    BY <1>1, <2>4 DEF TypeOK, Propose, hardVars, leaderVars, voteVars, voteRpcs, appendRpcs
<1>2. ASSUME ApplyCommitted(n)
      PROVE  TypeOK'
  <2> DEFINE snap == snapshot[n].index
             upTo == Lower(commitIndex[n], snap + Len(entries[n]))
             applied == EntryAt(n, upTo).index
  <2>1. /\ snapshot[n] \in SnapshotMeta /\ snap \in Nat
        /\ entries[n] \in Seq(LogEntry)
        /\ commitIndex[n] \in Nat /\ lastApplied[n] \in Nat
    BY DEF TypeOK, SnapshotMeta
  <2>2. upTo \in Nat /\ upTo - snap \in 1..Len(entries[n])
    <3>1. lastApplied[n] < commitIndex[n] /\ HasEntry(n, lastApplied[n] + 1)
      BY <1>2 DEF ApplyCommitted
    <3>2. (lastApplied[n] + 1) - snap \in 1..Len(entries[n])
      BY <3>1 DEF HasEntry
    <3> DEFINE len == Len(entries[n])
               applied0 == lastApplied[n]
               commit == commitIndex[n]
    <3>3. len \in Nat /\ applied0 \in Nat /\ commit \in Nat /\ snap \in Nat
      BY <2>1, LenProperties
    <3> HIDE DEF len, applied0, commit, snap
    <3>4. applied0 < commit /\ (applied0 + 1) - snap \in 1..len
      BY <3>1, <3>2 DEF len, applied0, commit, snap
    <3>5. Lower(commit, snap + len) \in Nat /\ Lower(commit, snap + len) - snap \in 1..len
      BY <3>3, <3>4 DEF Lower
    <3>6. QED
      BY <3>5 DEF len, commit, snap
  <2>3. applied \in Nat
    <3>1. EntryAt(n, upTo) \in LogEntry
      BY <2>1, <2>2 DEF EntryAt
    <3>2. QED
      BY <3>1 DEF LogEntry
  <2>4. /\ [index |-> applied, term |-> Higher(0, TermAt(n, applied))] \in SnapshotMeta
    <3>1. TermAt(n, applied) \in Nat \cup {NoTerm}
      BY <2>1, <2>3, LogHelperTypes DEF TermAt
    <3>2. QED
      BY <2>3, <3>1 DEF SnapshotMeta, Higher, NoTerm
  <2>5. applied - snap + 1 >= 1 =>
          SubSeq(entries[n], applied - snap + 1, Len(entries[n])) \in Seq(LogEntry)
    BY <2>1, <2>3, SubSeqProperties
  <2>6. lastApplied' = [lastApplied EXCEPT ![n] = upTo]
    BY <1>2 DEF ApplyCommitted
  <2>7. CASE applied - snap >= SnapshotThreshold
    <3>1. /\ snapshot' = [snapshot EXCEPT ![n] =
                           [index |-> applied, term |-> Higher(0, TermAt(n, applied))]]
          /\ entries' = [entries EXCEPT ![n] =
                           SubSeq(entries[n], applied - snap + 1, Len(entries[n]))]
      BY <1>2, <2>7 DEF ApplyCommitted
    <3>2. applied - snap + 1 >= 1
      <4> HIDE DEF applied, snap
      <4>1. applied \in Nat /\ snap \in Nat /\ SnapshotThreshold \in Nat
        BY <2>1, <2>3, RaftBoundAssumption
      <4>2. QED
        BY <2>7, <4>1
    <3> DEFINE marker == [index |-> applied, term |-> Higher(0, TermAt(n, applied))]
               rest == SubSeq(entries[n], applied - snap + 1, Len(entries[n]))
    <3>3. /\ snapshot' = [snapshot EXCEPT ![n] = marker] /\ marker \in SnapshotMeta
          /\ entries' = [entries EXCEPT ![n] = rest] /\ rest \in Seq(LogEntry)
      BY <2>4, <2>5, <3>1, <3>2
    <3> HIDE DEF upTo, applied, marker, rest
    <3>4. /\ snapshot' \in [Node -> SnapshotMeta]
          /\ entries' \in [Node -> Seq(LogEntry)]
          /\ lastApplied' \in [Node -> Nat]
      BY <2>2, <2>6, <3>3 DEF TypeOK
    <3>5. QED
      BY <1>2, <3>4 DEF TypeOK, ApplyCommitted, hardVars, leaderVars, voteVars, voteRpcs,
                        appendRpcs
  <2>8. CASE ~(applied - snap >= SnapshotThreshold)
    <3>1. UNCHANGED logVars
      BY <1>2, <2>8 DEF ApplyCommitted
    <3> HIDE DEF upTo, applied
    <3>2. lastApplied' \in [Node -> Nat]
      BY <2>2, <2>6 DEF TypeOK
    <3>3. QED
      BY <1>2, <3>1, <3>2 DEF TypeOK, ApplyCommitted, hardVars, logVars, leaderVars,
                              voteVars, voteRpcs, appendRpcs
  <2>9. QED
    BY <2>7, <2>8
<1>3. QED
  BY <1>1, <1>2

\* Losing a node's memory and reading its disk back keeps the types.
LEMMA ResetTypes ==
  ASSUME TypeOK, NEW n \in Node, Reset(n)
  PROVE  /\ role' \in [Node -> {"Follower", "Candidate", "Leader"}]
         /\ leaderId' \in [Node -> Node \cup {Nil}]
         /\ commitIndex' \in [Node -> Nat] /\ lastApplied' \in [Node -> Nat]
         /\ nextIndex' \in [Node -> [Node -> Nat \ {0}]]
         /\ matchIndex' \in [Node -> [Node -> Nat]]
         /\ campaign' \in [Node -> Nat]
         /\ voters' \in [Node -> SUBSET Node]
         /\ todo' \in [Node -> SUBSET (Node \X Nat)]
         /\ voteReplies' \in SUBSET RequestVoteReply
         /\ appendReplies' \in SUBSET AppendEntriesReply
         /\ crashes' \in Nat
<1>1. snapshot[n].index \in Nat
  BY DEF TypeOK, SnapshotMeta
<1>2. /\ [p \in Node |-> 1] \in [Node -> Nat \ {0}]
      /\ [p \in Node |-> 0] \in [Node -> Nat]
  OBVIOUS
<1>3. /\ commitIndex' \in [Node -> Nat] /\ lastApplied' \in [Node -> Nat]
      /\ nextIndex' \in [Node -> [Node -> Nat \ {0}]]
      /\ matchIndex' \in [Node -> [Node -> Nat]]
  <2>1. commitIndex' \in [Node -> Nat] /\ lastApplied' \in [Node -> Nat]
    BY <1>1 DEF TypeOK, Reset
  <2>2. nextIndex' \in [Node -> [Node -> Nat \ {0}]]
    BY <1>2 DEF TypeOK, Reset
  <2>3. matchIndex' \in [Node -> [Node -> Nat]]
    BY <1>2 DEF TypeOK, Reset
  <2>4. QED
    BY <2>1, <2>2, <2>3
<1>4. /\ role' \in [Node -> {"Follower", "Candidate", "Leader"}]
      /\ leaderId' \in [Node -> Node \cup {Nil}]
      /\ campaign' \in [Node -> Nat]
      /\ crashes' \in Nat
  BY DEF TypeOK, Reset
<1>5. voters' \in [Node -> SUBSET Node] /\ todo' \in [Node -> SUBSET (Node \X Nat)]
  BY DEF TypeOK, Reset
<1>6. /\ voteReplies' \in SUBSET RequestVoteReply
      /\ appendReplies' \in SUBSET AppendEntriesReply
  BY DEF TypeOK, Reset
<1>7. QED
  BY <1>3, <1>4, <1>5, <1>6

\* A crash inside the splice leaves a log.
LEMMA CrashImagesType ==
  ASSUME TypeOK, NEW n \in Node, NEW es \in Seq(LogEntry), FirstNew(n, es) <= Len(es)
  PROVE  CrashImages(n, es) \subseteq Seq(LogEntry)
<1> DEFINE k == FirstNew(n, es)
           kept == IF RewriteCrash /\ HasEntry(n, es[k].index) THEN 0
                   ELSE Len(CutAt(n, es[k].index))
<1>1. entries[n] \in Seq(LogEntry) /\ k \in 1..(Len(es) + 1)
  BY FirstNewExists DEF TypeOK
<1>2. CutAt(n, es[k].index) \in Seq(LogEntry)
  <2>1. es[k] \in LogEntry
    BY <1>1
  <2>2. QED
    BY <2>1, CutAtType DEF LogEntry
<1>3. kept \in Nat
  BY <1>2
<1>4. CrashImages(n, es) = {SubSeq(entries[n], 1, j) : j \in kept..Len(entries[n])}
                             \cup {Spliced(n, es, upTo) : upTo \in (k - 1)..(Len(es) - 1)}
  BY DEF CrashImages
<1> HIDE DEF k, kept
<1>5. ASSUME NEW j \in kept..Len(entries[n])
      PROVE  SubSeq(entries[n], 1, j) \in Seq(LogEntry)
  BY <1>1, <1>3, SubSeqProperties
<1>6. ASSUME NEW upTo \in (k - 1)..(Len(es) - 1)
      PROVE  Spliced(n, es, upTo) \in Seq(LogEntry)
  BY <1>1, SplicedType
<1>7. QED
  BY <1>4, <1>5, <1>6

\* Crashes and lost messages keep the types.
LEMMA FailureTypes ==
  ASSUME TypeOK
  PROVE  /\ \A n \in Node : Restart(n) => TypeOK'
         /\ \A m \in appendCalls : CrashInAppend(m) => TypeOK'
         /\ \A m \in voteCalls : LoseVoteCall(m) => TypeOK'
         /\ \A m \in voteReplies : LoseVoteReply(m) => TypeOK'
         /\ \A m \in appendCalls : LoseAppendCall(m) => TypeOK'
         /\ \A m \in appendReplies : LoseAppendReply(m) => TypeOK'
<1>1. ASSUME NEW n \in Node, Restart(n)
      PROVE  TypeOK'
  <2>1. Reset(n)
    BY <1>1 DEF Restart
  <2>2. QED
    BY <1>1, <2>1, ResetTypes DEF TypeOK, Restart, hardVars, logVars
<1>2. ASSUME NEW m \in appendCalls, CrashInAppend(m)
      PROVE  TypeOK'
  <2> DEFINE n == m.to
             k == FirstNew(n, m.entries)
  <2>1. n \in Node /\ m.term \in Nat /\ m.entries \in Seq(LogEntry)
    BY DEF TypeOK, AppendEntriesArgs
  <2>2. Reset(n)
    BY <1>2 DEF CrashInAppend
  <2>3. entries' \in [Node -> Seq(LogEntry)]
    <3>1. PICK log \in CrashImages(n, m.entries) : entries' = [entries EXCEPT ![n] = log]
      BY <1>2 DEF CrashInAppend
    <3>2. k <= Len(m.entries)
      BY <1>2 DEF CrashInAppend
    <3>3. log \in Seq(LogEntry)
      BY <2>1, <3>1, <3>2, CrashImagesType
    <3>4. QED
      BY <2>1, <3>1, <3>3 DEF TypeOK
  <2>4. currentTerm' \in [Node -> Nat] /\ votedFor' \in [Node -> Node \cup {Nil}]
    BY <1>2, <2>1 DEF TypeOK, CrashInAppend
  <2>5. appendCalls' \in SUBSET AppendEntriesArgs
    BY <1>2 DEF TypeOK, CrashInAppend
  <2>6. QED
    BY <1>2, <2>1, <2>2, <2>3, <2>4, <2>5, ResetTypes DEF TypeOK, CrashInAppend
<1>3. ASSUME NEW m \in voteCalls, LoseVoteCall(m)
      PROVE  TypeOK'
  BY <1>3 DEF TypeOK, LoseVoteCall, hardVars, logVars, commitVars, leaderVars, voteVars,
              appendRpcs
<1>4. ASSUME NEW m \in voteReplies, LoseVoteReply(m)
      PROVE  TypeOK'
  BY <1>4 DEF TypeOK, LoseVoteReply, hardVars, logVars, commitVars, leaderVars, voteVars,
              appendRpcs
<1>5. ASSUME NEW m \in appendCalls, LoseAppendCall(m)
      PROVE  TypeOK'
  BY <1>5 DEF TypeOK, LoseAppendCall, hardVars, logVars, commitVars, leaderVars, voteVars,
              voteRpcs
<1>6. ASSUME NEW m \in appendReplies, LoseAppendReply(m)
      PROVE  TypeOK'
  BY <1>6 DEF TypeOK, LoseAppendReply, hardVars, logVars, commitVars, leaderVars, voteVars,
              voteRpcs
<1>7. QED
  BY <1>1, <1>2, <1>3, <1>4, <1>5, <1>6

\* The types hold of a cluster that starts.
LEMMA TypesInit == Init => TypeOK
BY SMTT(20) DEF Init, TypeOK, SnapshotMeta

\* The state of every RaftCore and every RPC stays in its type: in particular
\* next_index never drops to 0, where prev_log_index would underflow.
THEOREM TypeCorrect == Spec => []TypeOK
<1>1. Init => TypeOK
  BY TypesInit
<1>2. TypeOK /\ [Next]_vars => TypeOK'
  <2> SUFFICES ASSUME TypeOK, [Next]_vars
               PROVE  TypeOK'
    OBVIOUS
  <2>1. CASE Next
    BY <2>1, ElectionTypes, AppendEntriesTypes, AppendReplyTypes, LocalTypes, FailureTypes
       DEF Next
  <2>2. CASE UNCHANGED vars
    BY <2>2 DEF TypeOK, vars
  <2>3. QED
    BY <2>1, <2>2
<1>3. QED
  BY <1>1, <1>2, PTL DEF Spec
=============================================================================
