------------------------------- MODULE MCRaft -------------------------------
(***************************************************************************)
(* Raft for TLC.  Nodes are interchangeable: nothing orders node ids.      *)
(***************************************************************************)
EXTENDS Raft, TLC

Symmetry == Permutations(Node)

\* What can still influence a behaviour or a property: leaderId is never read, a
\* leader's bookkeeping only while it leads (or may still build a request), the
\* collected votes only during a campaign, lastApplied only where snapshots are
\* taken.
View ==
  <<currentTerm, votedFor, entries, snapshot, role, commitIndex, crashes,
    IF SnapshotThreshold > MaxIndex THEN <<>> ELSE lastApplied,
    [n \in Node |-> IF role[n] = "Leader" \/ BuildRace
                    THEN <<nextIndex[n], matchIndex[n]>> ELSE <<>>],
    campaign,
    [n \in Node |-> IF role[n] = "Candidate" THEN voters[n] ELSE {}],
    todo, voteCalls, voteReplies, appendCalls, appendReplies>>

\* VotesBind also reads the votes that elected a leader.
ViewWithVotes == <<View, [n \in Node |-> IF role[n] = "Leader" THEN voters[n] ELSE {}]>>

\* Reduction: only the first leader is given commands.  Later leaders append their
\* no-ops, which is what the first one's entries have to compete with.
FirstLeaderProposes ==
  \A n \in Node : \A v \in Value : Propose(n, v) => currentTerm[n] = 1
=============================================================================
