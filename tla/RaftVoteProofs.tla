--------------------------- MODULE RaftVoteProofs ---------------------------
(***************************************************************************)
(* Theorems about votes and election safety in Raft, for every set of      *)
(* nodes and every bound, with or without the broadcast race.              *)
(***************************************************************************)
EXTENDS RaftTypeProofs

-----------------------------------------------------------------------------
(* The hard state: a vote is cast once per term.                           *)

\* What VoteOnce says of a step.
VoteKept ==
  \A n \in Node :
    /\ currentTerm'[n] >= currentTerm[n]
    /\ currentTerm'[n] = currentTerm[n] /\ votedFor[n] # Nil => votedFor'[n] = votedFor[n]

\* A write of one node's hard state keeps the votes if it adopts a newer term or
\* keeps the vote that was cast.
LEMMA HardStateWrite ==
  ASSUME TypeOK, NEW n \in Node, NEW term \in Nat, NEW vote,
         currentTerm' = [currentTerm EXCEPT ![n] = term],
         votedFor' = [votedFor EXCEPT ![n] = vote],
         term >= currentTerm[n],
         term = currentTerm[n] /\ votedFor[n] # Nil => vote = votedFor[n]
  PROVE  VoteKept
<1>1. ASSUME NEW v \in Node
      PROVE  /\ currentTerm'[v] >= currentTerm[v]
             /\ currentTerm'[v] = currentTerm[v] /\ votedFor[v] # Nil
                  => votedFor'[v] = votedFor[v]
  <2>1. currentTerm \in [Node -> Nat] /\ votedFor \in [Node -> Node \cup {Nil}]
    BY DEF TypeOK
  <2>2. CASE v = n
    BY <2>1, <2>2
  <2>3. CASE v # n
    BY <2>1, <2>3
  <2>4. QED
    BY <2>2, <2>3
<1>2. QED
  BY <1>1 DEF VoteKept

\* become_follower clears the vote only together with a newer term.
LEMMA BecomeFollowerKeepsVote ==
  ASSUME TypeOK, NEW n \in Node, NEW term \in Nat, NEW leader,
         BecomeFollower(n, term, leader)
  PROVE  VoteKept
<1> DEFINE newTerm == Higher(currentTerm[n], term)
           vote == IF term > currentTerm[n] THEN Nil ELSE votedFor[n]
<1>1. /\ currentTerm' = [currentTerm EXCEPT ![n] = newTerm]
      /\ votedFor' = [votedFor EXCEPT ![n] = vote]
  BY DEF BecomeFollower
<1>2. currentTerm[n] \in Nat
  BY DEF TypeOK
<1>3. /\ newTerm \in Nat /\ newTerm >= currentTerm[n]
      /\ newTerm = currentTerm[n] => vote = votedFor[n]
  BY <1>2 DEF Higher
<1> HIDE DEF newTerm, vote
<1>4. QED
  BY <1>1, <1>3, HardStateWrite

\* handle_request_vote overwrites a vote only in a newer term.
LEMMA RequestVoteKeepsVote ==
  ASSUME TypeOK, NEW m \in voteCalls, HandleRequestVote(m)
  PROVE  VoteKept
<1> DEFINE n == m.to
           newTerm == Higher(currentTerm[n], m.term)
           vote == IF GrantsVote(n, m) THEN m.from
                   ELSE IF m.term > currentTerm[n] THEN Nil ELSE votedFor[n]
<1>1. n \in Node /\ m.from \in Node /\ m.term \in Nat
  BY DEF TypeOK, RequestVoteArgs
<1>2. /\ currentTerm' = [currentTerm EXCEPT ![n] = newTerm]
      /\ votedFor' = [votedFor EXCEPT ![n] = vote]
  BY DEF HandleRequestVote
<1>3. currentTerm[n] \in Nat
  BY <1>1 DEF TypeOK
<1>4. ~(m.term > currentTerm[n]) /\ GrantsVote(n, m) => votedFor[n] \in {Nil, m.from}
  BY DEF GrantsVote
<1>5. newTerm \in Nat /\ newTerm >= currentTerm[n]
  BY <1>1, <1>3 DEF Higher
<1>6. newTerm = currentTerm[n] /\ votedFor[n] # Nil => vote = votedFor[n]
  <2>1. newTerm = currentTerm[n] => ~(m.term > currentTerm[n])
    BY <1>1, <1>3 DEF Higher
  <2>2. QED
    BY <1>4, <2>1
<1> HIDE DEF n, newTerm, vote
<1>7. QED
  BY <1>1, <1>2, <1>5, <1>6, HardStateWrite DEF n

\* Every step keeps the votes.
LEMMA StepKeepsVotes ==
  ASSUME TypeOK, [Next]_vars
  PROVE  VoteKept
<1>1. UNCHANGED hardVars => VoteKept
  BY DEF TypeOK, hardVars, VoteKept
<1>2. ASSUME NEW n \in Node, StartElection(n)
      PROVE  VoteKept
  <2> DEFINE term == currentTerm[n] + 1
  <2>1. /\ currentTerm' = [currentTerm EXCEPT ![n] = term]
        /\ votedFor' = [votedFor EXCEPT ![n] = n]
    BY <1>2 DEF StartElection
  <2>2. currentTerm[n] \in Nat
    BY DEF TypeOK
  <2>3. term \in Nat /\ term >= currentTerm[n] /\ term # currentTerm[n]
    BY <2>2
  <2> HIDE DEF term
  <2>4. QED
    BY <2>1, <2>2, <2>3, HardStateWrite
<1>3. ASSUME NEW m \in voteReplies, HandleVoteReply(m)
      PROVE  VoteKept
  <2>1. m.to \in Node /\ m.term \in Nat
    BY DEF TypeOK, RequestVoteReply
  <2>2. UNCHANGED hardVars \/ BecomeFollower(m.to, m.term, Nil)
    BY <1>3 DEF HandleVoteReply, VoteReplyNewerTerm, VoteReplyStale, VoteReplyCounted,
                VoteReplyWins
  <2>3. QED
    BY <1>1, <2>1, <2>2, BecomeFollowerKeepsVote
<1>4. ASSUME NEW m \in appendCalls, HandleAppendEntries(m)
      PROVE  VoteKept
  <2>1. m.to \in Node /\ m.term \in Nat
    BY DEF TypeOK, AppendEntriesArgs
  <2>2. UNCHANGED hardVars \/ BecomeFollower(m.to, m.term, m.from)
    BY <1>4 DEF HandleAppendEntries, RejectStaleLeader, RejectAppend, AcceptAppend
  <2>3. QED
    BY <1>1, <2>1, <2>2, BecomeFollowerKeepsVote
<1>5. ASSUME NEW m \in appendReplies, HandleAppendReply(m)
      PROVE  VoteKept
  <2>1. m.to \in Node /\ m.term \in Nat
    BY DEF TypeOK, AppendEntriesReply
  <2>2. UNCHANGED hardVars \/ BecomeFollower(m.to, m.term, Nil)
    BY <1>5 DEF HandleAppendReply, ReplyNewerTerm, ReplyIgnored, ReplySuccess, ReplyRejected
  <2>3. QED
    BY <1>1, <2>1, <2>2, BecomeFollowerKeepsVote
<1>6. ASSUME NEW m \in appendCalls, CrashInAppend(m)
      PROVE  VoteKept
  <2>1. m.to \in Node /\ m.term \in Nat
    BY DEF TypeOK, AppendEntriesArgs
  <2>2. m.term >= currentTerm[m.to]
    BY <1>6 DEF CrashInAppend, Accepts
  <2> DEFINE vote == IF m.term > currentTerm[m.to] THEN Nil ELSE votedFor[m.to]
  <2>3. /\ currentTerm' = [currentTerm EXCEPT ![m.to] = m.term]
        /\ votedFor' = [votedFor EXCEPT ![m.to] = vote]
    BY <1>6 DEF CrashInAppend
  <2>4. m.term = currentTerm[m.to] => vote = votedFor[m.to]
    BY <2>1
  <2> HIDE DEF vote
  <2>5. QED
    BY <2>1, <2>2, <2>3, <2>4, HardStateWrite
<1>7. \A n \in Node :
        DecideReplicate(n) \/ BeginBroadcast(n) \/ ApplyCommitted(n) \/ Restart(n)
          => UNCHANGED hardVars
  BY DEF DecideReplicate, BeginBroadcast, ApplyCommitted, Restart
<1>8. /\ \A n, task : SendAppendEntries(n, task) => UNCHANGED hardVars
      /\ \A n, v : Propose(n, v) => UNCHANGED hardVars
      /\ \A m : LoseVoteCall(m) \/ LoseVoteReply(m) \/ LoseAppendCall(m) \/ LoseAppendReply(m)
                  => UNCHANGED hardVars
  BY DEF SendAppendEntries, Propose, LoseVoteCall, LoseVoteReply, LoseAppendCall,
         LoseAppendReply
<1>9. UNCHANGED vars => UNCHANGED hardVars
  BY DEF vars, hardVars
<1>10. QED
  BY <1>1, <1>2, <1>3, <1>4, <1>5, <1>6, <1>7, <1>8, <1>9, RequestVoteKeepsVote DEF Next

\* A node never goes back in term and never changes a vote within a term, in
\* any step of any node, restarts included.
THEOREM VotesCastOnce == Spec => VoteOnce
<1>1. TypeOK /\ [Next]_vars => [VoteKept]_vars
  BY StepKeepsVotes
<1>2. Spec => [][VoteKept]_vars
  BY <1>1, TypeCorrect, PTL DEF Spec
<1>3. QED
  BY <1>2 DEF VoteOnce, VoteKept

-----------------------------------------------------------------------------
(* Votes and election safety.                                              *)

\* A leader was elected: it counted the votes of a quorum.
LeadersElected ==
  \A n \in Node : role[n] = "Leader" => Cardinality(voters[n]) >= Quorum

\* The inductive invariant behind ElectionSafety.
ElectionInv == TypeOK /\ VotesBind /\ LeadersElected

\* The elements of Votes: granted replies, and what a campaign has counted.
VotesAre ==
  /\ \A r \in voteReplies : r.granted => <<r.from, r.campaign, r.to>> \in Votes
  /\ \A c \in Node : role[c] # "Follower" =>
       \A v \in voters[c] : <<v, currentTerm[c], c>> \in Votes
  /\ \A e \in Votes :
       \/ \E r \in voteReplies : r.granted /\ e = <<r.from, r.campaign, r.to>>
       \/ \E c \in Node : \E v \in voters[c] :
            role[c] # "Follower" /\ e = <<v, currentTerm[c], c>>

\* Votes consists of these.
LEMMA VotesMembers == VotesAre
<1> DEFINE sent == {<<r.from, r.campaign, r.to>> : r \in {x \in voteReplies : x.granted}}
           of(c) == {<<v, currentTerm[c], c>> : v \in voters[c]}
           counted == UNION {of(c) : c \in {x \in Node : role[x] # "Follower"}}
<1>1. Votes = sent \cup counted
  BY DEF Votes
<1>2. ASSUME NEW r \in voteReplies, r.granted
      PROVE  <<r.from, r.campaign, r.to>> \in sent
  BY <1>2
<1>3. ASSUME NEW e \in sent
      PROVE  \E r \in voteReplies : r.granted /\ e = <<r.from, r.campaign, r.to>>
  OBVIOUS
<1>4. ASSUME NEW c \in Node, role[c] # "Follower", NEW v \in voters[c]
      PROVE  <<v, currentTerm[c], c>> \in counted
  <2>1. <<v, currentTerm[c], c>> \in of(c)
    OBVIOUS
  <2> HIDE DEF of
  <2>2. QED
    BY <1>4, <2>1
<1>5. ASSUME NEW e \in counted
      PROVE  \E c \in Node : \E v \in voters[c] :
               role[c] # "Follower" /\ e = <<v, currentTerm[c], c>>
  <2> HIDE DEF of
  <2>1. PICK c \in Node : role[c] # "Follower" /\ e \in of(c)
    OBVIOUS
  <2>2. \E v \in voters[c] : e = <<v, currentTerm[c], c>>
    BY <2>1 DEF of
  <2>3. QED
    BY <2>1, <2>2
<1> HIDE DEF sent, counted
<1>6. QED
  BY <1>1, <1>2, <1>3, <1>4, <1>5 DEF VotesAre

\* A granted reply is a vote.
LEMMA ReplyIsVote ==
  ASSUME NEW r \in voteReplies, r.granted
  PROVE  <<r.from, r.campaign, r.to>> \in Votes
BY VotesMembers DEF VotesAre

\* So is a vote that a campaign has counted.
LEMMA CountedIsVote ==
  ASSUME NEW c \in Node, role[c] # "Follower", NEW v \in voters[c]
  PROVE  <<v, currentTerm[c], c>> \in Votes
BY VotesMembers DEF VotesAre

\* A vote is a voter, a term and a candidate.
LEMMA VotesType ==
  ASSUME TypeOK
  PROVE  Votes \subseteq Node \X Nat \X Node
<1>1. ASSUME NEW r \in voteReplies
      PROVE  <<r.from, r.campaign, r.to>> \in Node \X Nat \X Node
  BY DEF TypeOK, RequestVoteReply
<1>2. ASSUME NEW c \in Node, NEW v \in voters[c]
      PROVE  <<v, currentTerm[c], c>> \in Node \X Nat \X Node
  BY DEF TypeOK
<1>3. ASSUME NEW e \in Votes
      PROVE  \/ \E r \in voteReplies : e = <<r.from, r.campaign, r.to>>
             \/ \E c \in Node : \E v \in voters[c] : e = <<v, currentTerm[c], c>>
  BY VotesMembers DEF VotesAre
<1> DEFINE T == Node \X Nat \X Node
<1>4. /\ \A r \in voteReplies : <<r.from, r.campaign, r.to>> \in T
      /\ \A c \in Node : \A v \in voters[c] : <<v, currentTerm[c], c>> \in T
  BY <1>1, <1>2
<1> HIDE DEF T
<1>5. ASSUME NEW e \in Votes
      PROVE  e \in T
  <2>1. CASE \E r \in voteReplies : e = <<r.from, r.campaign, r.to>>
    BY <1>4, <2>1
  <2>2. CASE \E c \in Node : \E v \in voters[c] : e = <<v, currentTerm[c], c>>
    BY <1>4, <2>2
  <2>3. QED
    BY <1>3, <2>1, <2>2
<1>6. QED
  BY <1>5 DEF T

\* Votes that were bound stay bound: the voters keep their hard state.
LEMMA OldVotesStayBound ==
  ASSUME TypeOK, TypeOK', VotesBind, VoteKept, NEW e \in Votes
  PROVE  /\ currentTerm'[e[1]] >= e[2]
         /\ currentTerm'[e[1]] = e[2] => votedFor'[e[1]] = e[3]
<1>1. e[1] \in Node /\ e[2] \in Nat /\ e[3] \in Node
  BY VotesType
<1>2. currentTerm[e[1]] \in Nat /\ currentTerm'[e[1]] \in Nat
  BY <1>1 DEF TypeOK
<1>3. currentTerm[e[1]] >= e[2] /\ (currentTerm[e[1]] = e[2] => votedFor[e[1]] = e[3])
  BY DEF VotesBind
<1>4. /\ currentTerm'[e[1]] >= currentTerm[e[1]]
      /\ currentTerm'[e[1]] = currentTerm[e[1]] /\ votedFor[e[1]] # Nil
           => votedFor'[e[1]] = votedFor[e[1]]
  BY <1>1 DEF VoteKept
<1>5. e[3] # Nil
  BY <1>1, NodeAssumption DEF NodeAssumption
<1>6. QED
  BY <1>1, <1>2, <1>3, <1>4, <1>5

\* VotesBind survives a step that adds at most one vote, if the voter's hard
\* state backs it and no other vote of that voter and term contradicts it.
LEMMA OneVoteAdded ==
  ASSUME TypeOK, TypeOK', VotesBind, VoteKept,
         NEW v \in Node, NEW t \in Nat, NEW c \in Node,
         Votes' \subseteq Votes \cup {<<v, t, c>>},
         currentTerm'[v] = t, votedFor'[v] = c,
         \A e \in Votes : e[1] = v /\ e[2] = t => e[3] = c
  PROVE  VotesBind'
<1>1. ASSUME NEW e \in Votes'
      PROVE  /\ currentTerm'[e[1]] >= e[2]
             /\ currentTerm'[e[1]] = e[2] => votedFor'[e[1]] = e[3]
  <2>1. CASE e \in Votes
    BY <2>1, OldVotesStayBound
  <2>2. CASE e = <<v, t, c>>
    BY <2>2
  <2>3. QED
    BY <2>1, <2>2
<1>2. ASSUME NEW e \in Votes', NEW f \in Votes', e[1] = f[1], e[2] = f[2]
      PROVE  e[3] = f[3]
  <2>1. \A g \in Votes, h \in Votes : g[1] = h[1] /\ g[2] = h[2] => g[3] = h[3]
    BY DEF VotesBind
  <2>2. e \in Votes \/ (e[1] = v /\ e[2] = t /\ e[3] = c)
    OBVIOUS
  <2>3. f \in Votes \/ (f[1] = v /\ f[2] = t /\ f[3] = c)
    OBVIOUS
  <2>4. QED
    BY <1>2, <2>1, <2>2, <2>3
<1>3. QED
  BY <1>1, <1>2 DEF VotesBind

\* VotesBind survives a step that adds no vote.
LEMMA NoVoteAdded ==
  ASSUME TypeOK, TypeOK', VotesBind, VoteKept, Votes' \subseteq Votes
  PROVE  VotesBind'
<1>1. \A e \in Votes' : /\ currentTerm'[e[1]] >= e[2]
                        /\ currentTerm'[e[1]] = e[2] => votedFor'[e[1]] = e[3]
  BY OldVotesStayBound
<1>2. \A e, f \in Votes' : e[1] = f[1] /\ e[2] = f[2] => e[3] = f[3]
  BY DEF VotesBind
<1>3. QED
  BY <1>1, <1>2 DEF VotesBind

\* No reply appears, and whoever campaigns or leads after the step did so
\* before, in the same term and with the same votes.
Quiet ==
  /\ voteReplies' \subseteq voteReplies
  /\ \A c \in Node : role'[c] # "Follower" =>
       role'[c] = role[c] /\ currentTerm'[c] = currentTerm[c] /\ voters'[c] = voters[c]

\* A quiet step keeps the election invariant.
LEMMA QuietStep ==
  ASSUME ElectionInv, TypeOK', VoteKept, Quiet
  PROVE  ElectionInv'
<1>1. VotesAre /\ VotesAre'
  BY VotesMembers, PTL
<1>2. ASSUME NEW e \in Votes'
      PROVE  e \in Votes
  <2>1. CASE \E r \in voteReplies' : r.granted /\ e = <<r.from, r.campaign, r.to>>
    <3>1. PICK r \in voteReplies' : r.granted /\ e = <<r.from, r.campaign, r.to>>
      BY <2>1
    <3>2. r \in voteReplies
      BY <3>1 DEF Quiet
    <3>3. QED
      BY <3>1, <3>2, ReplyIsVote
  <2>2. CASE \E c \in Node : \E v \in voters'[c] :
               role'[c] # "Follower" /\ e = <<v, currentTerm'[c], c>>
    <3>1. PICK c \in Node : \E v \in voters'[c] :
                 role'[c] # "Follower" /\ e = <<v, currentTerm'[c], c>>
      BY <2>2
    <3>2. PICK v \in voters'[c] : role'[c] # "Follower" /\ e = <<v, currentTerm'[c], c>>
      BY <3>1
    <3>3. role[c] # "Follower" /\ v \in voters[c] /\ currentTerm'[c] = currentTerm[c]
      BY <3>2 DEF Quiet
    <3>4. QED
      BY <3>2, <3>3, CountedIsVote
  <2>3. QED
    BY <1>1, <2>1, <2>2 DEF VotesAre
<1>3. VotesBind'
  BY <1>2, NoVoteAdded DEF ElectionInv
<1>4. LeadersElected'
  BY DEF LeadersElected, Quiet, ElectionInv, Quorum
<1>5. QED
  BY <1>3, <1>4 DEF ElectionInv

\* Stepping down is quiet.
LEMMA BecomeFollowerQuiet ==
  ASSUME TypeOK, NEW n \in Node, NEW term, NEW leader, BecomeFollower(n, term, leader),
         voters' = voters, voteReplies' \subseteq voteReplies
  PROVE  Quiet
<1>1. ASSUME NEW c \in Node, role'[c] # "Follower"
      PROVE  role'[c] = role[c] /\ currentTerm'[c] = currentTerm[c]
  <2>1. c # n
    BY <1>1 DEF TypeOK, BecomeFollower
  <2>2. QED
    BY <2>1 DEF TypeOK, BecomeFollower
<1>2. QED
  BY <1>1 DEF Quiet

\* So is losing one's memory, whatever term is on disk.
LEMMA ResetQuiet ==
  ASSUME TypeOK, NEW n \in Node, Reset(n), NEW term,
         currentTerm' = [currentTerm EXCEPT ![n] = term]
  PROVE  Quiet
<1>1. ASSUME NEW c \in Node, role'[c] # "Follower"
      PROVE  role'[c] = role[c] /\ currentTerm'[c] = currentTerm[c] /\ voters'[c] = voters[c]
  <2>1. c # n
    BY <1>1 DEF TypeOK, Reset
  <2>2. QED
    BY <2>1 DEF TypeOK, Reset
<1>2. QED
  BY <1>1 DEF Quiet, Reset

\* Every step is quiet except a campaign's start, a vote and the counting of one.
LEMMA QuietSteps ==
  ASSUME TypeOK, [Next]_vars
  PROVE  \/ \E n \in Node : StartElection(n)
         \/ \E m \in voteCalls : HandleRequestVote(m)
         \/ \E m \in voteReplies : VoteReplyCounted(m) \/ VoteReplyWins(m)
         \/ Quiet
<1>1. UNCHANGED <<currentTerm, role, voters>> /\ voteReplies' \subseteq voteReplies => Quiet
  BY DEF Quiet
<1>2. ASSUME NEW m \in voteReplies, VoteReplyNewerTerm(m) \/ VoteReplyStale(m)
      PROVE  Quiet
  <2>1. m.to \in Node
    BY DEF TypeOK, RequestVoteReply
  <2>2. voters' = voters /\ voteReplies' \subseteq voteReplies
    BY <1>2 DEF VoteReplyNewerTerm, VoteReplyStale, CampaignOver
  <2>3. BecomeFollower(m.to, m.term, Nil) \/ UNCHANGED <<currentTerm, role>>
    BY <1>2 DEF VoteReplyNewerTerm, VoteReplyStale, hardVars
  <2>4. QED
    BY <1>1, <2>1, <2>2, <2>3, BecomeFollowerQuiet
<1>3. ASSUME NEW m \in appendCalls, HandleAppendEntries(m)
      PROVE  Quiet
  <2>1. m.to \in Node
    BY DEF TypeOK, AppendEntriesArgs
  <2>2. voters' = voters /\ voteReplies' = voteReplies
    BY <1>3 DEF HandleAppendEntries, RejectStaleLeader, RejectAppend, AcceptAppend, voteVars,
                voteRpcs
  <2>3. BecomeFollower(m.to, m.term, m.from) \/ UNCHANGED <<currentTerm, role>>
    BY <1>3 DEF HandleAppendEntries, RejectStaleLeader, RejectAppend, AcceptAppend, hardVars
  <2>4. QED
    BY <1>1, <2>1, <2>2, <2>3, BecomeFollowerQuiet
<1>4. ASSUME NEW m \in appendReplies, HandleAppendReply(m)
      PROVE  Quiet
  <2>1. m.to \in Node
    BY DEF TypeOK, AppendEntriesReply
  <2>2. voters' = voters /\ voteReplies' = voteReplies
    BY <1>4 DEF HandleAppendReply, voteVars, voteRpcs
  <2>3. BecomeFollower(m.to, m.term, Nil) \/ UNCHANGED <<currentTerm, role>>
    BY <1>4 DEF HandleAppendReply, ReplyNewerTerm, ReplyIgnored, ReplySuccess, ReplyRejected,
                hardVars
  <2>4. QED
    BY <1>1, <2>1, <2>2, <2>3, BecomeFollowerQuiet
<1>5. ASSUME NEW m \in appendCalls, CrashInAppend(m)
      PROVE  Quiet
  <2>1. m.to \in Node
    BY DEF TypeOK, AppendEntriesArgs
  <2>2. Reset(m.to) /\ currentTerm' = [currentTerm EXCEPT ![m.to] = m.term]
    BY <1>5 DEF CrashInAppend
  <2>3. QED
    BY <2>1, <2>2, ResetQuiet
<1>6. ASSUME NEW n \in Node, Restart(n)
      PROVE  Quiet
  <2>1. Reset(n) /\ currentTerm' = currentTerm
    BY <1>6 DEF Restart, hardVars
  <2>2. currentTerm' = [currentTerm EXCEPT ![n] = currentTerm[n]]
    BY <2>1 DEF TypeOK
  <2>3. QED
    BY <2>1, <2>2, ResetQuiet
<1>7. /\ \A n : DecideReplicate(n) \/ BeginBroadcast(n) \/ ApplyCommitted(n)
                  => UNCHANGED <<currentTerm, role, voters, voteReplies>>
      /\ \A n, task : SendAppendEntries(n, task)
                  => UNCHANGED <<currentTerm, role, voters, voteReplies>>
      /\ \A n, v : Propose(n, v) => UNCHANGED <<currentTerm, role, voters, voteReplies>>
  BY DEF DecideReplicate, BeginBroadcast, ApplyCommitted, SendAppendEntries, Propose,
         hardVars, voteVars, voteRpcs
<1>8. \A m : LoseVoteCall(m) \/ LoseVoteReply(m) \/ LoseAppendCall(m) \/ LoseAppendReply(m)
               => /\ UNCHANGED <<currentTerm, role, voters>>
                  /\ voteReplies' \subseteq voteReplies
  BY DEF LoseVoteCall, LoseVoteReply, LoseAppendCall, LoseAppendReply, hardVars, voteVars,
         voteRpcs
<1>9. UNCHANGED vars => UNCHANGED <<currentTerm, role, voters, voteReplies>>
  BY DEF vars
<1>10. QED
  BY <1>1, <1>2, <1>3, <1>4, <1>5, <1>6, <1>7, <1>8, <1>9 DEF Next, HandleVoteReply

\* start_election: the candidate's own vote, in a term it has never been in.
LEMMA StartElectionStep ==
  ASSUME ElectionInv, TypeOK', VoteKept, NEW n \in Node, StartElection(n)
  PROVE  ElectionInv'
<1> DEFINE t == currentTerm[n] + 1
<1>1. VotesAre /\ VotesAre' /\ TypeOK
  BY VotesMembers, PTL DEF ElectionInv
<1>2. currentTerm[n] \in Nat /\ t \in Nat
  BY <1>1 DEF TypeOK
<1>3. /\ currentTerm'[n] = t /\ votedFor'[n] = n /\ voters'[n] = {n}
      /\ role'[n] = "Candidate"
      /\ voteReplies' \subseteq voteReplies
  <2>1. currentTerm'[n] = t /\ votedFor'[n] = n
    BY <1>1 DEF StartElection, TypeOK
  <2>2. voters'[n] = {n} /\ role'[n] = "Candidate"
    BY <1>1 DEF StartElection, TypeOK
  <2>3. voteReplies' \subseteq voteReplies
    BY DEF StartElection
  <2>4. QED
    BY <2>1, <2>2, <2>3
<1>4. \A c \in Node : c # n =>
        currentTerm'[c] = currentTerm[c] /\ voters'[c] = voters[c] /\ role'[c] = role[c]
  <2>1. \A c \in Node : c # n => currentTerm'[c] = currentTerm[c]
    BY <1>1 DEF StartElection, TypeOK
  <2>2. \A c \in Node : c # n => voters'[c] = voters[c]
    BY <1>1 DEF StartElection, TypeOK
  <2>3. \A c \in Node : c # n => role'[c] = role[c]
    <3>1. role' = [role EXCEPT ![n] = "Candidate"]
      BY DEF StartElection
    <3>2. role \in [Node -> {"Follower", "Candidate", "Leader"}]
      BY <1>1 DEF TypeOK
    <3>3. QED
      BY <3>1, <3>2
  <2>4. QED
    BY <2>1, <2>2, <2>3
<1>5. ASSUME NEW e \in Votes'
      PROVE  e \in Votes \cup {<<n, t, n>>}
  <2>1. CASE \E r \in voteReplies' : r.granted /\ e = <<r.from, r.campaign, r.to>>
    <3>1. PICK r \in voteReplies' : r.granted /\ e = <<r.from, r.campaign, r.to>>
      BY <2>1
    <3>2. r \in voteReplies
      BY <1>3, <3>1
    <3>3. QED
      BY <3>1, <3>2, ReplyIsVote
  <2>2. CASE \E c \in Node : \E v \in voters'[c] :
               role'[c] # "Follower" /\ e = <<v, currentTerm'[c], c>>
    <3>1. PICK c \in Node : \E v \in voters'[c] :
                 role'[c] # "Follower" /\ e = <<v, currentTerm'[c], c>>
      BY <2>2
    <3>2. PICK v \in voters'[c] : role'[c] # "Follower" /\ e = <<v, currentTerm'[c], c>>
      BY <3>1
    <3>3. CASE c = n
      BY <1>3, <3>2, <3>3
    <3>4. CASE c # n
      <4>1. role[c] # "Follower" /\ v \in voters[c] /\ currentTerm'[c] = currentTerm[c]
        BY <1>4, <3>2, <3>4
      <4>2. QED
        BY <3>2, <4>1, CountedIsVote
    <3>5. QED
      BY <3>3, <3>4
  <2>3. QED
    BY <1>1, <2>1, <2>2 DEF VotesAre
<1>6. ASSUME NEW e \in Votes
      PROVE  ~(e[1] = n /\ e[2] = t)
  BY <1>2 DEF ElectionInv, VotesBind
<1> HIDE DEF t
<1>7. VotesBind'
  BY <1>1, <1>2, <1>3, <1>5, <1>6, OneVoteAdded DEF ElectionInv
<1>8. LeadersElected'
  <2>1. ASSUME NEW c \in Node, role'[c] = "Leader"
        PROVE  Cardinality(voters'[c]) >= Quorum
    <3>1. c # n
      BY <1>3, <2>1
    <3>2. role[c] = "Leader" /\ voters'[c] = voters[c]
      BY <1>4, <2>1, <3>1
    <3>3. QED
      BY <3>2 DEF ElectionInv, LeadersElected
  <2>2. QED
    BY <2>1 DEF LeadersElected, Quorum
<1>9. QED
  BY <1>7, <1>8 DEF ElectionInv

\* handle_request_vote: at most one vote is added, and it is on disk.
LEMMA RequestVoteStep ==
  ASSUME ElectionInv, TypeOK', VoteKept, NEW m \in voteCalls, HandleRequestVote(m)
  PROVE  ElectionInv'
<1> DEFINE n == m.to
           granted == GrantsVote(n, m)
           reply == [from |-> n, to |-> m.from, campaign |-> m.term,
                     term |-> Higher(currentTerm[n], m.term), granted |-> granted]
<1>1. VotesAre /\ VotesAre' /\ TypeOK
  BY VotesMembers, PTL DEF ElectionInv
<1>2. n \in Node /\ m.from \in Node /\ m.term \in Nat
  BY <1>1 DEF TypeOK, RequestVoteArgs
<1>3. currentTerm[n] \in Nat /\ votedFor[n] \in Node \cup {Nil}
  BY <1>1, <1>2 DEF TypeOK
<1>4. \A c \in Node : role'[c] # "Follower" =>
        role'[c] = role[c] /\ currentTerm'[c] = currentTerm[c] /\ voters'[c] = voters[c]
  <2>1. /\ currentTerm' = [currentTerm EXCEPT ![n] = Higher(@, m.term)]
        /\ role' = [role EXCEPT ![n] = IF m.term > currentTerm[n] THEN "Follower" ELSE @]
        /\ voters' = voters
    BY DEF HandleRequestVote, voteVars
  <2>2. ASSUME NEW c \in Node, role'[c] # "Follower"
        PROVE  role'[c] = role[c] /\ currentTerm'[c] = currentTerm[c]
    <3>1. CASE c = n
      <4>1. ~(m.term > currentTerm[n])
        BY <1>1, <2>1, <2>2, <3>1 DEF TypeOK
      <4>2. QED
        BY <1>1, <1>2, <1>3, <2>1, <3>1, <4>1 DEF TypeOK, Higher
    <3>2. CASE c # n
      BY <1>1, <2>1, <3>2 DEF TypeOK
    <3>3. QED
      BY <3>1, <3>2
  <2>3. QED
    BY <2>1, <2>2
<1>5. voteReplies' \subseteq voteReplies \cup {reply}
  BY DEF HandleRequestVote
<1>6. ASSUME NEW e \in Votes'
      PROVE  e \in Votes \/ (granted /\ e = <<n, m.term, m.from>>)
  <2>1. ASSUME NEW r \in voteReplies', r.granted, e = <<r.from, r.campaign, r.to>>
        PROVE  e \in Votes \/ (granted /\ e = <<n, m.term, m.from>>)
    <3>1. CASE r \in voteReplies
      BY <2>1, <3>1, ReplyIsVote
    <3>2. CASE r = reply
      BY <2>1, <3>2
    <3>3. QED
      BY <1>5, <3>1, <3>2
  <2>2. CASE \E c \in Node : \E v \in voters'[c] :
               role'[c] # "Follower" /\ e = <<v, currentTerm'[c], c>>
    <3>1. PICK c \in Node : \E v \in voters'[c] :
                 role'[c] # "Follower" /\ e = <<v, currentTerm'[c], c>>
      BY <2>2
    <3>2. PICK v \in voters'[c] : role'[c] # "Follower" /\ e = <<v, currentTerm'[c], c>>
      BY <3>1
    <3>3. role[c] # "Follower" /\ v \in voters[c] /\ currentTerm'[c] = currentTerm[c]
      BY <1>4, <3>2
    <3>4. QED
      BY <3>2, <3>3, CountedIsVote
  <2>3. QED
    BY <1>1, <2>1, <2>2 DEF VotesAre
<1>7. VotesBind'
  <2>1. CASE ~granted
    BY <1>1, <1>6, <2>1, NoVoteAdded DEF ElectionInv
  <2>2. CASE granted
    <3>1. m.term >= currentTerm[n]
      BY <2>2 DEF GrantsVote
    <3>2. currentTerm'[n] = m.term /\ votedFor'[n] = m.from
      <4>1. /\ currentTerm' = [currentTerm EXCEPT ![n] = Higher(currentTerm[n], m.term)]
            /\ votedFor' = [votedFor EXCEPT ![n] = m.from]
        BY <2>2 DEF HandleRequestVote
      <4>2. Higher(currentTerm[n], m.term) = m.term
        BY <1>2, <1>3, <3>1 DEF Higher
      <4>3. currentTerm \in [Node -> Nat] /\ votedFor \in [Node -> Node \cup {Nil}]
        BY <1>1 DEF TypeOK
      <4>4. QED
        BY <1>2, <4>1, <4>2, <4>3
    <3>3. ASSUME NEW e \in Votes, e[1] = n, e[2] = m.term
          PROVE  e[3] = m.from
      <4>1. e[3] \in Node
        BY <1>1, VotesType
      <4>2. currentTerm[n] = m.term /\ votedFor[n] = e[3]
        BY <1>2, <1>3, <3>1, <3>3 DEF ElectionInv, VotesBind
      <4>3. votedFor[n] \in {Nil, m.from}
        BY <1>2, <1>3, <2>2, <4>2 DEF GrantsVote
      <4>4. QED
        BY <4>1, <4>2, <4>3, NodeAssumption DEF NodeAssumption
    <3>4. Votes' \subseteq Votes \cup {<<n, m.term, m.from>>}
      BY <1>6
    <3> HIDE DEF n
    <3>5. QED
      BY <1>1, <1>2, <3>2, <3>3, <3>4, OneVoteAdded DEF ElectionInv
  <2>3. QED
    BY <2>1, <2>2
<1>8. LeadersElected'
  BY <1>4 DEF ElectionInv, LeadersElected, Quorum
<1>9. QED
  BY <1>7, <1>8 DEF ElectionInv

\* start_election's loop: a counted vote leaves the reply and joins the voters.
LEMMA CountVoteStep ==
  ASSUME ElectionInv, TypeOK', VoteKept, NEW m \in voteReplies,
         VoteReplyCounted(m) \/ VoteReplyWins(m)
  PROVE  ElectionInv'
<1> DEFINE n == m.to
<1>1. VotesAre /\ VotesAre' /\ TypeOK
  BY VotesMembers, PTL DEF ElectionInv
<1>2. n \in Node
  BY <1>1 DEF TypeOK, RequestVoteReply
<1>3. role[n] = "Candidate" /\ currentTerm[n] = m.campaign
  BY DEF VoteReplyCounted, VoteReplyWins, Awaited
<1>4. /\ currentTerm' = currentTerm
      /\ voters' = [voters EXCEPT ![n] = VotesWith(m)]
      /\ voteReplies' \subseteq voteReplies
  BY DEF VoteReplyCounted, VoteReplyWins, CampaignOver, hardVars
<1>5. \A c \in Node : c # n => role'[c] = role[c] /\ voters'[c] = voters[c]
  <2>1. role' = role \/ role' = [role EXCEPT ![n] = "Leader"]
    BY DEF VoteReplyCounted, VoteReplyWins
  <2>2. \A c \in Node : c # n => role'[c] = role[c]
    BY <1>1, <2>1 DEF TypeOK
  <2>3. \A c \in Node : c # n => voters'[c] = voters[c]
    BY <1>1, <1>4 DEF TypeOK
  <2>4. QED
    BY <2>2, <2>3
<1>6. voters'[n] = VotesWith(m)
  BY <1>1, <1>2, <1>4 DEF TypeOK
<1>7. ASSUME NEW e \in Votes'
      PROVE  e \in Votes
  <2>1. CASE \E r \in voteReplies' : r.granted /\ e = <<r.from, r.campaign, r.to>>
    <3>1. PICK r \in voteReplies' : r.granted /\ e = <<r.from, r.campaign, r.to>>
      BY <2>1
    <3>2. r \in voteReplies
      BY <1>4, <3>1
    <3>3. QED
      BY <3>1, <3>2, ReplyIsVote
  <2>2. ASSUME NEW c \in Node, NEW v \in voters'[c],
               role'[c] # "Follower", e = <<v, currentTerm'[c], c>>
        PROVE  e \in Votes
    <3>1. CASE c # n
      BY <1>4, <1>5, <2>2, <3>1, CountedIsVote
    <3>2. CASE c = n /\ v \in voters[n]
      BY <1>2, <1>3, <1>4, <2>2, <3>2, CountedIsVote
    <3>3. CASE c = n /\ v = m.from /\ m.granted
      BY <1>3, <1>4, <2>2, <3>3, ReplyIsVote
    <3>4. QED
      BY <1>6, <2>2, <3>1, <3>2, <3>3 DEF VotesWith
  <2>3. QED
    BY <1>1, <2>1, <2>2 DEF VotesAre
<1>8. VotesBind'
  BY <1>1, <1>7, NoVoteAdded DEF ElectionInv
<1>9. LeadersElected'
  <2>1. ASSUME NEW c \in Node, role'[c] = "Leader"
        PROVE  Cardinality(voters'[c]) >= Quorum
    <3>1. CASE c # n
      BY <1>5, <2>1, <3>1 DEF ElectionInv, LeadersElected
    <3>2. CASE c = n
      <4>1. VoteReplyWins(m)
        BY <1>3, <2>1, <3>2 DEF VoteReplyCounted
      <4>2. QED
        BY <1>6, <3>2, <4>1 DEF VoteReplyWins, Wins
    <3>3. QED
      BY <3>1, <3>2
  <2>2. QED
    BY <2>1 DEF LeadersElected, Quorum
<1>10. QED
  BY <1>8, <1>9 DEF ElectionInv

\* Two quorums of voters share a voter.
LEMMA QuorumsIntersect ==
  ASSUME NEW S \in SUBSET Node, NEW T \in SUBSET Node,
         Cardinality(S) >= Quorum, Cardinality(T) >= Quorum
  PROVE  S \cap T # {}
<1>1. IsFiniteSet(Node) /\ IsFiniteSet(S) /\ IsFiniteSet(T)
  BY NodeAssumption, FS_Subset DEF NodeAssumption
<1>2. Cardinality(Node) \in Nat /\ Cardinality(S) \in Nat /\ Cardinality(T) \in Nat
  BY <1>1, FS_CardinalityType
<1>3. Cardinality(S) + Cardinality(T) > Cardinality(Node)
  BY <1>2 DEF Quorum
<1>4. QED
  BY <1>1, <1>3, FS_MajoritiesIntersect

\* Two leaders of a term would share a voter, whose vote is bound to one of them.
LEMMA ElectionInvSafe ==
  ASSUME ElectionInv
  PROVE  ElectionSafety
<1> SUFFICES ASSUME NEW n1 \in Node, NEW n2 \in Node,
                    role[n1] = "Leader", role[n2] = "Leader",
                    currentTerm[n1] = currentTerm[n2]
             PROVE  n1 = n2
  BY DEF ElectionSafety
<1>1. voters[n1] \in SUBSET Node /\ voters[n2] \in SUBSET Node
  BY DEF ElectionInv, TypeOK
<1>2. voters[n1] \cap voters[n2] # {}
  BY <1>1, QuorumsIntersect DEF ElectionInv, LeadersElected
<1>3. PICK v : v \in voters[n1] /\ v \in voters[n2]
  BY <1>2
<1>4. <<v, currentTerm[n1], n1>> \in Votes /\ <<v, currentTerm[n1], n2>> \in Votes
  BY <1>3, VotesMembers DEF VotesAre
<1>5. QED
  BY <1>4 DEF ElectionInv, VotesBind

\* The election invariant is inductive.
LEMMA ElectionInvInductive == Spec => []ElectionInv
<1>1. Init => ElectionInv
  <2> SUFFICES ASSUME Init
               PROVE  ElectionInv
    OBVIOUS
  <2>1. TypeOK
    BY TypesInit
  <2>2. Votes = {}
    BY VotesMembers DEF VotesAre, Init
  <2>3. QED
    BY <2>1, <2>2 DEF Init, ElectionInv, VotesBind, LeadersElected
<1>2. ElectionInv /\ TypeOK' /\ [Next]_vars => ElectionInv'
  <2> SUFFICES ASSUME ElectionInv, TypeOK', [Next]_vars
               PROVE  ElectionInv'
    OBVIOUS
  <2>1. TypeOK
    BY DEF ElectionInv
  <2>2. VoteKept
    BY <2>1, StepKeepsVotes
  <2>3. QED
    BY <2>1, <2>2, QuietSteps, QuietStep, StartElectionStep, RequestVoteStep, CountVoteStep
<1>3. QED
  BY <1>1, <1>2, TypeCorrect, PTL DEF Spec

\* A vote that a candidate has counted, or that is on its way, stays backed by
\* the voter's hard state, and no voter votes for two candidates in a term.
THEOREM VotesAreBound == Spec => []VotesBind
<1>1. ElectionInv => VotesBind
  BY DEF ElectionInv
<1>2. QED
  BY <1>1, ElectionInvInductive, PTL

\* At most one node leads in a term, for every number of nodes and whatever is
\* lost, reordered or restarted.
THEOREM OneLeaderPerTerm == Spec => []ElectionSafety
<1>1. ElectionInv => ElectionSafety
  BY ElectionInvSafe
<1>2. QED
  BY <1>1, ElectionInvInductive, PTL
=============================================================================
