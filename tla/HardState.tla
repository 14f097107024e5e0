----------------------------- MODULE HardState -----------------------------
(***************************************************************************)
(* The term and vote of one node, in memory and on disk: HardState         *)
(* (raft/state.rs) and every handler of the core that changes it           *)
(* (raft/election.rs, the head of handle_append_entries), system call by   *)
(* system call.  Raft.tla takes "change, persist, answer" as one step that *)
(* cannot fail; here persist() may fail or the node may crash at each of   *)
(* its steps.                                                              *)
(*                                                                         *)
(* The other nodes are the environment: a request may carry any term and   *)
(* any candidate, and whether the candidate's log is good enough is any    *)
(* Boolean.                                                                *)
(***************************************************************************)
EXTENDS Integers, FiniteSets

CONSTANTS
  Self,         \* this node's id
  Peer,         \* the other nodes
  Nil,          \* None
  MaxTerm,      \* bound on terms
  MaxFailures,  \* bound on failed calls of persist()
  MaxCrashes    \* bound on crashes

ASSUME HardIdAssumption == Self \notin Peer /\ Nil \notin Peer /\ Nil # Self
ASSUME HardBoundAssumption == MaxTerm \in Nat /\ MaxFailures \in Nat /\ MaxCrashes \in Nat

VARIABLES
  hard,      \* RaftCore.hard
  role,      \* RaftCore.role
  campaign,  \* the term of the last become_candidate that returned; 0 if none
  elected,   \* ghost: the term the node was last elected in
  call,      \* the handler that is inside persist(), or idle
  file,      \* the content of the hard-state file
  older,     \* contents that a crash may bring back instead: the renames over
             \* them are not known to be durable
  answers,   \* ghost: the terms and votes that have left the node
  failures, crashes

vars == <<hard, role, campaign, elected, call, file, older, answers, failures, crashes>>

Candidate == Peer \cup {Self}
Hard == [term : Nat, vote : Candidate \cup {Nil}]

Content(term, vote) == [term |-> term, vote |-> vote]

\* `kind' is the caller of persist(), `next' what become_follower's caller does
\* after it; `cand' and `logOk' are arguments that handle_request_vote still needs.
Call == [kind : {"idle", "candidate", "vote", "stepDown"}, step : {"rename", "sync"},
         next : {"vote", "append", "none"}, cand : Candidate \cup {Nil}, logOk : BOOLEAN]

Persisting(kind, next, cand, logOk) ==
  [kind |-> kind, step |-> "rename", next |-> next, cand |-> cand, logOk |-> logOk]

NoCall == Persisting("idle", "none", Nil, FALSE)

Idle == call = NoCall

-----------------------------------------------------------------------------
Init ==
  /\ hard = Content(0, Nil)
  /\ role = "Follower"
  /\ campaign = 0
  /\ elected = 0
  /\ call = NoCall
  /\ file = Content(0, Nil)   \* no file: HardState::load gives the default
  /\ older = {}
  /\ answers = {}
  /\ failures = 0
  /\ crashes = 0

\* What a reply tells: the term, and the vote if it grants one.
Answer(term, vote) == answers' = answers \cup {Content(term, vote)}

\* Fault: the vote is not looked at.
FreeToVoteAlways(cand) == TRUE

FreeToVote(cand) == hard.vote \in {Nil, cand}

\* handle_request_vote, step 3.
Decide(cand, logOk) ==
  IF logOk /\ FreeToVote(cand)
  THEN /\ hard' = Content(hard.term, cand)
       /\ call' = Persisting("vote", "none", cand, logOk)
       /\ UNCHANGED answers
  ELSE /\ Answer(hard.term, Nil)
       /\ call' = NoCall
       /\ UNCHANGED hard

\* Fault: != for >.
StepDownAnyTerm(term, next, cand, logOk) ==
  /\ term # hard.term
  /\ hard' = Content(term, Nil)
  /\ call' = Persisting("stepDown", next, cand, logOk)

\* become_follower with a newer term, up to persist_hard.  `next' is what the
\* caller does after it.
StepDown(term, next, cand, logOk) ==
  /\ term > hard.term
  /\ hard' = Content(term, Nil)
  /\ call' = Persisting("stepDown", next, cand, logOk)

HandleRequestVote(term, cand, logOk) ==
  /\ Idle
  /\ \/ /\ term < hard.term
        /\ Answer(hard.term, Nil)
        /\ UNCHANGED <<hard, call>>
     \/ /\ term = hard.term
        /\ Decide(cand, logOk)
     \/ /\ StepDown(term, "vote", cand, logOk)
        /\ UNCHANGED answers
  /\ UNCHANGED <<role, campaign, elected, file, older, failures, crashes>>

\* handle_append_entries as far as term and vote go.
HandleAppendEntries(term) ==
  /\ Idle
  /\ \/ /\ term < hard.term
        /\ Answer(hard.term, Nil)
        /\ UNCHANGED <<hard, call, role>>
     \/ /\ term = hard.term
        /\ role' = "Follower"
        /\ Answer(hard.term, Nil)
        /\ UNCHANGED <<hard, call>>
     \/ /\ StepDown(term, "append", Nil, FALSE)
        /\ UNCHANGED <<answers, role>>
  /\ UNCHANGED <<campaign, elected, file, older, failures, crashes>>

\* A reply to one of the node's own RPCs carries a newer term.
SeeNewerTerm(term) ==
  /\ Idle
  /\ StepDown(term, "none", Nil, FALSE)
  /\ UNCHANGED <<role, campaign, elected, file, older, answers, failures, crashes>>

\* become_candidate up to persist_hard.
BecomeCandidate ==
  /\ Idle
  /\ role # "Leader"
  /\ hard.term < MaxTerm
  /\ role' = "Candidate"
  /\ hard' = Content(hard.term + 1, Self)
  /\ call' = Persisting("candidate", "none", Self, TRUE)
  /\ UNCHANGED <<campaign, elected, file, older, answers, failures, crashes>>

\* start_election counts a quorum and calls become_leader.
BecomeLeader ==
  /\ Idle
  /\ role = "Candidate"
  /\ campaign > 0 /\ hard.term = campaign
  /\ role' = "Leader"
  /\ elected' = hard.term
  /\ campaign' = 0
  /\ UNCHANGED <<hard, call, file, older, answers, failures, crashes>>

-----------------------------------------------------------------------------
\* persist(): the temporary file is complete and fsynced; rename.
Rename ==
  /\ ~Idle /\ call.step = "rename"
  /\ file' = hard
  /\ older' = older \cup {file}
  /\ call' = [call EXCEPT !.step = "sync"]
  /\ UNCHANGED <<hard, role, campaign, elected, answers, failures, crashes>>

\* Fault: the directory is not fsynced.
NotFsynced == UNCHANGED older

\* persist() fsyncs the directory.
DirFsynced == older' = {}

\* persist() returns to its caller.
PersistReturns(kind) ==
  /\ call.kind = kind /\ call.step = "sync"
  /\ DirFsynced
  /\ UNCHANGED <<elected, file, failures, crashes>>

\* become_candidate returns, and start_election sends RequestVote.
CandidatePersisted ==
  /\ PersistReturns("candidate")
  /\ campaign' = hard.term
  /\ Answer(hard.term, Self)
  /\ call' = NoCall
  /\ UNCHANGED <<hard, role>>

\* handle_request_vote answers with the vote.
VotePersisted ==
  /\ PersistReturns("vote")
  /\ Answer(hard.term, hard.vote)
  /\ call' = NoCall
  /\ UNCHANGED <<hard, role, campaign>>

\* Fault: the role is kept.
RoleKept == UNCHANGED role

\* The end of become_follower.
Demoted == role' = "Follower"

\* become_follower returns, and its caller goes on.
StepDownPersisted ==
  /\ PersistReturns("stepDown")
  /\ Demoted
  /\ \/ /\ call.next = "vote"
        /\ Decide(call.cand, call.logOk)
     \/ /\ call.next = "append"
        /\ Answer(hard.term, Nil)
        /\ call' = NoCall
        /\ UNCHANGED hard
     \/ /\ call.next = "none"
        /\ call' = NoCall
        /\ UNCHANGED <<hard, answers>>
  /\ UNCHANGED campaign

\* A system call of persist() fails and the error goes up: what the handler
\* changed in memory stays, nothing is answered.
PersistFails ==
  /\ ~Idle
  /\ failures < MaxFailures
  /\ failures' = failures + 1
  /\ call' = NoCall
  /\ UNCHANGED <<hard, role, campaign, elected, file, older, answers, crashes>>

\* A crash, and HardState::load in bootstrap().
Crash ==
  /\ crashes < MaxCrashes
  /\ crashes' = crashes + 1
  /\ file' \in older \cup {file}
  /\ hard' = file'
  /\ older' = {}
  /\ role' = "Follower"
  /\ campaign' = 0
  /\ call' = NoCall
  /\ UNCHANGED <<elected, answers, failures>>

Next ==
  \/ \E t \in 0..MaxTerm : \E c \in Peer : \E ok \in BOOLEAN : HandleRequestVote(t, c, ok)
  \/ \E t \in 0..MaxTerm : HandleAppendEntries(t)
  \/ \E t \in 0..MaxTerm : SeeNewerTerm(t)
  \/ BecomeCandidate
  \/ BecomeLeader
  \/ Rename
  \/ CandidatePersisted
  \/ VotePersisted
  \/ StepDownPersisted
  \/ PersistFails
  \/ Crash

Spec == Init /\ [][Next]_vars

-----------------------------------------------------------------------------
\* Types; and as long as no persist() has failed, what is in memory between two
\* calls is on disk for good.
TypeOK ==
  /\ hard \in Hard
  /\ role \in {"Follower", "Candidate", "Leader"}
  /\ campaign \in Nat
  /\ elected \in Nat
  /\ call \in Call
  /\ file \in Hard
  /\ older \in SUBSET Hard
  /\ answers \in SUBSET Hard
  /\ failures \in Nat
  /\ crashes \in Nat
  /\ Idle /\ failures = 0 => file = hard /\ older = {}

\* A node votes once per term ("only once per term (which is why the vote is
\* persisted before replying)", election.rs:4), whatever crashes and whichever
\* calls of persist() fail, and every state that a crash may leave on disk
\* remembers the vote, or a later term.
VotesDurable ==
  \A a \in answers : a.vote # Nil =>
    /\ \A b \in answers : b.term = a.term /\ b.vote # Nil => b.vote = a.vote
    /\ \A d \in older \cup {file} : d.term > a.term \/ d = a

\* As long as no persist() has failed, a term that has left the node in an
\* answer is on disk for good ("Persistent state must be durable before
\* answering any RPC", state.rs:1).
TermsDurable ==
  failures = 0 => \A a \in answers : \A d \in older \cup {file} : d.term >= a.term

\* As long as no persist() has failed, a node leads only in the term that elected
\* it.  (A failed one inside become_follower leaves a leader in the new term.)
LeadsOwnTerm ==
  failures = 0 /\ Idle /\ role = "Leader" => hard.term = elected

\* Content d may have come before e on one ballot.
NoLater(d, e) == d.term < e.term \/ (d.term = e.term /\ (d.vote = Nil \/ d = e))

\* The oldest content that a crash may bring back.
Durable == CHOOSE d \in older \cup {file} : \A e \in older \cup {file} : NoLater(d, e)

Promise == INSTANCE Ballot WITH term <- Durable.term, vote <- Durable.vote, NoVote <- Nil

\* Rename and directory fsync make the file a ballot: what is durable moves only
\* forward, and a durable vote in a term never changes.
IsBallot == Promise!Spec
=============================================================================
