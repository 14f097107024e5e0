-------------------------- MODULE HardStateProofs --------------------------
(***************************************************************************)
(* Theorems about HardState, for any peers and any bounds: what leaves the *)
(* node is on disk, and the file implements Ballot.                        *)
(***************************************************************************)
EXTENDS HardState, LeastElement

\* Everything that a crash may leave in the file.
Disk == older \cup {file}

HardTypes ==
  /\ hard \in Hard
  /\ role \in {"Follower", "Candidate", "Leader"}
  /\ campaign \in Nat
  /\ elected \in Nat
  /\ call \in Call
  /\ file \in Hard
  /\ older \in SUBSET Hard
  /\ answers \in SUBSET Hard
  /\ failures \in Nat
  /\ crashes \in Nat

\* The contents on disk come one after the other, and none is ahead of memory;
\* after its rename, persist() has memory's content in the file; a campaign is
\* for the node itself.
Ordered ==
  /\ \A d \in Disk : NoLater(d, hard)
  /\ \A d, e \in Disk : NoLater(d, e) \/ NoLater(e, d)
  /\ call.kind # "idle" /\ call.step = "sync" => file = hard
  /\ call.kind = "candidate" => hard.vote = Self
  /\ call.kind = "idle" => Idle

\* As long as no persist() has failed, memory is on disk between calls, every
\* answered term is on disk, and a leader is in its term unless it is about to
\* step down.
Clean ==
  failures = 0 =>
    /\ call.kind = "idle" => file = hard /\ older = {}
    /\ \A a \in answers : \A d \in Disk : d.term >= a.term
    /\ call.kind = "candidate" => role = "Candidate"
    /\ role = "Leader" /\ call.kind # "stepDown" => hard.term = elected

HardInv == HardTypes /\ Ordered /\ VotesDurable /\ Clean

-----------------------------------------------------------------------------
(* The order of contents, and the record of the call in progress.          *)

\* Memory's content after any change comes after what it was.
LEMMA LaterContent ==
  ASSUME NEW d \in Hard, NEW e \in Hard, NEW f \in Hard, NoLater(d, e), NoLater(e, f)
  PROVE  NoLater(d, f)
BY DEF NoLater, Hard

\* Two contents that come before each other are the same.
LEMMA SameContent ==
  ASSUME NEW d \in Hard, NEW e \in Hard, NoLater(d, e), NoLater(e, d)
  PROVE  d = e
<1>1. d.term = e.term
  BY DEF NoLater, Hard
<1>2. d = e \/ d.vote = e.vote
  BY <1>1 DEF NoLater, Hard
<1>3. QED
  BY <1>1, <1>2 DEF Hard

\* A content is a term and a vote.
LEMMA ContentType ==
  ASSUME NEW t \in Nat, NEW v \in Candidate \cup {Nil}
  PROVE  Content(t, v) \in Hard /\ Content(t, v).term = t /\ Content(t, v).vote = v
BY DEF Content, Hard

\* Content only puts a record together.
LEMMA ContentOf ==
  ASSUME NEW d \in Hard
  PROVE  Content(d.term, d.vote) = d
BY DEF Content, Hard

\* The record of a call that begins.
LEMMA PersistingType ==
  ASSUME NEW kind \in {"idle", "candidate", "vote", "stepDown"},
         NEW next \in {"vote", "append", "none"},
         NEW cand \in Candidate \cup {Nil}, NEW ok \in BOOLEAN
  PROVE  LET c == Persisting(kind, next, cand, ok)
         IN  /\ c \in Call /\ c.kind = kind /\ c.step = "rename"
             /\ c.next = next /\ c.cand = cand /\ c.logOk = ok
BY DEF Persisting, Call

\* No call is in progress.
LEMMA NoCallType == NoCall \in Call /\ NoCall.kind = "idle"
BY DEF NoCall, Persisting, Call

\* Idle or not is a matter of the kind.
LEMMA IdleKind == Idle => call.kind = "idle"
BY NoCallType DEF Idle

-----------------------------------------------------------------------------
(* What every step but a crash does to memory, disk and answers.           *)

\* Memory moves forward, only memory's content reaches the disk, and what is
\* answered is memory's term, or a vote that is all there is on disk.
Forward ==
  /\ NoLater(hard, hard')
  /\ \A d \in Disk' : d \in Disk \/ d = hard
  /\ \A a \in answers' : \/ a \in answers
                         \/ a.term = hard.term /\ a.vote = Nil /\ (failures = 0 => Disk' = {hard})
                         \/ a = hard /\ Disk' = {hard}

\* An answered vote is in memory, or memory is in a later term.
LEMMA VoteInMemory ==
  ASSUME HardTypes, Ordered, VotesDurable, NEW a \in answers, a.vote # Nil
  PROVE  hard.term > a.term \/ hard = a
<1>1. file.term > a.term \/ file = a
  BY DEF VotesDurable
<1>2. NoLater(file, hard)
  BY DEF Ordered, Disk
<1>3. hard \in Hard /\ file \in Hard /\ a \in Hard
  BY DEF HardTypes
<1>4. QED
  BY <1>1, <1>2, <1>3 DEF NoLater, Hard

\* A forward step keeps every vote that left the node durable.
LEMMA ForwardVotes ==
  ASSUME HardTypes, Ordered, VotesDurable, Forward
  PROVE  VotesDurable'
<1>1. ASSUME NEW a \in answers', a.vote # Nil, NEW d \in Disk'
      PROVE  d.term > a.term \/ d = a
  <2>1. CASE a \in answers
    BY <1>1, <2>1, VoteInMemory DEF Forward, VotesDurable, Disk
  <2>2. CASE a \notin answers
    BY <1>1, <2>2 DEF Forward
  <2>3. QED
    BY <2>1, <2>2
<1>2. ASSUME NEW a \in answers', a.vote # Nil,
             NEW b \in answers', b.vote # Nil, b.term = a.term
      PROVE  b.vote = a.vote
  <2>1. hard.term \in Nat
    BY DEF HardTypes, Hard
  <2>2. \A x \in {a, b} : x \in answers \/ x = hard
    BY <1>2 DEF Forward
  <2>3. \A x \in {a, b} : x \in answers => hard.term > x.term \/ hard = x
    BY <1>2, VoteInMemory
  <2>4. CASE a \in answers /\ b \in answers
    BY <1>2, <2>4 DEF VotesDurable
  <2>5. CASE a = hard \/ b = hard
    BY <1>2, <2>1, <2>2, <2>3, <2>5
  <2>6. QED
    BY <2>2, <2>4, <2>5
<1>3. QED
  BY <1>1, <1>2 DEF VotesDurable, Disk

\* A forward step keeps memory at or after what is on disk.
LEMMA ForwardOrder ==
  ASSUME HardTypes, HardTypes', Ordered, Forward
  PROVE  /\ \A d \in Disk' : NoLater(d, hard')
         /\ \A d, e \in Disk' : NoLater(d, e) \/ NoLater(e, d)
<1>1. hard \in Hard /\ hard' \in Hard /\ (\A d \in Disk : d \in Hard)
  BY DEF HardTypes, Disk
<1>2. NoLater(hard, hard)
  BY DEF NoLater
<1>3. \A d \in Disk' : d \in Hard /\ NoLater(d, hard)
  BY <1>1, <1>2 DEF Ordered, Forward
<1>4. \A d \in Disk' : NoLater(d, hard')
  BY <1>1, <1>3, LaterContent DEF Forward
<1>5. \A d, e \in Disk' : NoLater(d, e) \/ NoLater(e, d)
  BY <1>3 DEF Ordered, Forward
<1>6. QED
  BY <1>4, <1>5

\* While no persist() has failed, a forward step keeps answered terms durable.
LEMMA ForwardTerms ==
  ASSUME HardTypes, Ordered, Clean, Forward, failures = 0
  PROVE  \A a \in answers' : \A d \in Disk' : d.term >= a.term
<1>1. /\ hard.term \in Nat /\ (\A d \in Disk : d \in Hard /\ d.term \in Nat)
      /\ \A a \in answers : a.term \in Nat
  BY DEF HardTypes, Disk, Hard
<1>2. file \in Disk /\ NoLater(file, hard)
  BY DEF Ordered, Disk
<1>3. \A a \in answers : \A d \in Disk : d.term >= a.term
  BY DEF Clean
<1>4. \A a \in answers : hard.term >= a.term
  BY <1>1, <1>2, <1>3 DEF NoLater
<1>5. QED
  BY <1>1, <1>3, <1>4 DEF Forward

-----------------------------------------------------------------------------
(* The inductive invariant.                                                *)

\* HardState::load of an empty data directory satisfies the invariant.
LEMMA HardInitInv == Init => HardInv
<1> SUFFICES ASSUME Init PROVE HardInv
  OBVIOUS
<1>1. Content(0, Nil) \in Hard
  BY ContentType
<1>2. HardTypes
  BY <1>1, NoCallType DEF Init, HardTypes
<1>3. Disk = {hard}
  BY DEF Init, Disk
<1>4. Ordered
  BY <1>3, NoCallType DEF Init, Ordered, NoLater, Idle
<1>5. VotesDurable /\ Clean
  BY <1>3, NoCallType DEF Init, VotesDurable, Clean
<1>6. QED
  BY <1>2, <1>4, <1>5 DEF HardInv

\* A change of memory inside a call: a vote where none was, or a later term.
LEMMA ChangeForward ==
  ASSUME HardTypes, NEW t \in Nat, NEW v \in Candidate \cup {Nil}, hard' = Content(t, v),
         t > hard.term \/ (t = hard.term /\ hard.vote \in {Nil, v})
  PROVE  hard' \in Hard /\ NoLater(hard, hard')
<1>1. hard' \in Hard /\ hard'.term = t /\ hard'.vote = v
  BY ContentType
<1>2. hard \in Hard
  BY DEF HardTypes
<1>3. hard.vote = v /\ t = hard.term => hard = hard'
  BY <1>2, ContentOf
<1>4. QED
  BY <1>1, <1>2, <1>3 DEF NoLater, Hard

\* Step 3 of handle_request_vote, with memory on disk unless a persist() failed.
LEMMA DecideStep ==
  ASSUME HardTypes, NEW c \in Candidate \cup {Nil}, NEW ok \in BOOLEAN, Decide(c, ok),
         failures = 0 => Disk' = {hard}
  PROVE  /\ hard' \in Hard /\ call' \in Call /\ answers' \in SUBSET Hard
         /\ NoLater(hard, hard') /\ hard'.term = hard.term
         /\ \A a \in answers' :
              \/ a \in answers
              \/ a.term = hard.term /\ a.vote = Nil /\ (failures = 0 => Disk' = {hard})
         /\ \/ call' = NoCall /\ hard' = hard
            \/ call'.kind = "vote" /\ call'.step = "rename"
<1>1. hard \in Hard /\ hard.term \in Nat /\ Nil \in Candidate \cup {Nil}
  BY DEF HardTypes, Hard
<1>2. CASE ok /\ FreeToVote(c)
  <2>1. hard' = Content(hard.term, c) /\ call' = Persisting("vote", "none", c, ok)
        /\ answers' = answers
    BY <1>2 DEF Decide
  <2>2. hard' \in Hard /\ NoLater(hard, hard')
    BY <1>1, <1>2, <2>1, ChangeForward DEF FreeToVote
  <2>3. hard'.term = hard.term
    BY <1>1, <2>1, ContentType
  <2>4. call' \in Call /\ call'.kind = "vote" /\ call'.step = "rename"
    BY <2>1, PersistingType
  <2>5. QED
    BY <2>1, <2>2, <2>3, <2>4 DEF HardTypes
<1>3. CASE ~(ok /\ FreeToVote(c))
  <2>1. answers' = answers \cup {Content(hard.term, Nil)} /\ call' = NoCall /\ hard' = hard
    BY <1>3 DEF Decide, Answer
  <2>2. LET a == Content(hard.term, Nil)
        IN  a \in Hard /\ a.term = hard.term /\ a.vote = Nil
    BY <1>1, ContentType
  <2>3. NoLater(hard, hard')
    BY <2>1 DEF NoLater
  <2>4. QED
    BY <1>1, <2>1, <2>2, <2>3, NoCallType DEF HardTypes
<1>4. QED
  BY <1>2, <1>3

\* The first half of become_follower.
LEMMA StepDownStep ==
  ASSUME HardTypes, NEW t \in Nat, NEW next \in {"vote", "append", "none"},
         NEW c \in Candidate \cup {Nil}, NEW ok \in BOOLEAN, StepDown(t, next, c, ok)
  PROVE  /\ hard' \in Hard /\ call' \in Call /\ NoLater(hard, hard')
         /\ call'.kind = "stepDown" /\ call'.step = "rename"
<1>1. t > hard.term /\ hard' = Content(t, Nil) /\ call' = Persisting("stepDown", next, c, ok)
  BY DEF StepDown
<1>2. hard' \in Hard /\ NoLater(hard, hard')
  BY <1>1, ChangeForward
<1>3. QED
  BY <1>1, <1>2, PersistingType

\* An answer that grants nothing.
LEMMA AnswerStep ==
  ASSUME HardTypes, Answer(hard.term, Nil)
  PROVE  /\ answers' \in SUBSET Hard
         /\ \A a \in answers' : a \in answers \/ (a.term = hard.term /\ a.vote = Nil)
<1>1. hard.term \in Nat
  BY DEF HardTypes, Hard
<1>2. QED
  BY <1>1, ContentType DEF Answer, HardTypes

\* The part of the invariant that is about the call in progress.
Pending ==
  /\ call.kind # "idle" /\ call.step = "sync" => file = hard
  /\ call.kind = "candidate" => hard.vote = Self
  /\ call.kind = "idle" => Idle
  /\ failures = 0 =>
       /\ call.kind = "idle" => file = hard /\ older = {}
       /\ call.kind = "candidate" => role = "Candidate"
       /\ role = "Leader" /\ call.kind # "stepDown" => hard.term = elected

\* A forward step keeps the invariant if it leaves what Pending asks for.
LEMMA ForwardInv ==
  ASSUME HardInv, HardTypes', Forward, Pending', failures' = 0 => failures = 0
  PROVE  HardInv'
<1>1. HardTypes /\ Ordered /\ VotesDurable /\ Clean
  BY DEF HardInv
<1>2. VotesDurable'
  BY <1>1, ForwardVotes
<1>3. Ordered'
  BY <1>1, ForwardOrder DEF Ordered, Pending
<1>4. Clean'
  BY <1>1, ForwardTerms DEF Clean, Pending
<1>5. QED
  BY <1>2, <1>3, <1>4 DEF HardInv

\* Between calls, and when a call returns, the disk holds memory's content alone.
LEMMA DiskAtReturn ==
  ASSUME HardInv, UNCHANGED file,
         \/ Idle /\ failures = 0 /\ UNCHANGED older
         \/ \E kind \in {"candidate", "vote", "stepDown"} : PersistReturns(kind)
  PROVE  Disk' = {hard}
<1>1. CASE Idle /\ failures = 0 /\ UNCHANGED older
  BY <1>1, IdleKind DEF HardInv, Clean, Disk
<1>2. CASE \E kind \in {"candidate", "vote", "stepDown"} : PersistReturns(kind)
  BY <1>2 DEF HardInv, Ordered, Disk, PersistReturns, DirFsynced
<1>3. QED
  BY <1>1, <1>2

\* handle_request_vote up to its first persist (election.rs:90) keeps it.
LEMMA RequestVoteInv ==
  ASSUME HardInv, NEW t \in 0..MaxTerm, NEW c \in Peer, NEW ok \in BOOLEAN,
         HandleRequestVote(t, c, ok)
  PROVE  HardInv'
<1>1. /\ HardTypes /\ Ordered /\ Clean /\ Idle /\ call.kind = "idle"
      /\ t \in Nat /\ c \in Candidate \cup {Nil}
  BY IdleKind DEF HardInv, HandleRequestVote, Candidate
<1>2. UNCHANGED <<role, campaign, elected, file, older, failures, crashes>>
  BY DEF HandleRequestVote
<1>3. Disk' = Disk /\ (failures = 0 => Disk' = {hard})
  BY <1>1, <1>2, DiskAtReturn DEF Disk
<1>4. CASE t < hard.term /\ Answer(hard.term, Nil) /\ UNCHANGED <<hard, call>>
  <2>1. HardTypes'
    BY <1>1, <1>2, <1>4, AnswerStep DEF HardTypes
  <2>2. Forward
    BY <1>1, <1>3, <1>4, AnswerStep DEF Forward, NoLater
  <2>3. Pending'
    BY <1>1, <1>2, <1>4 DEF Pending, Ordered, Clean, Idle
  <2>4. QED
    BY <1>2, <2>1, <2>2, <2>3, ForwardInv
<1>5. CASE Decide(c, ok)
  <2>1. HardTypes'
    BY <1>1, <1>2, <1>3, <1>5, DecideStep DEF HardTypes
  <2>2. Forward
    BY <1>1, <1>3, <1>5, DecideStep DEF Forward
  <2>3. Pending'
    BY <1>1, <1>2, <1>3, <1>5, DecideStep, NoCallType DEF Pending, Clean, Idle
  <2>4. QED
    BY <1>2, <2>1, <2>2, <2>3, ForwardInv
<1>6. CASE StepDown(t, "vote", c, ok) /\ UNCHANGED answers
  <2>1. /\ hard' \in Hard /\ call' \in Call /\ NoLater(hard, hard')
        /\ call'.kind = "stepDown" /\ call'.step = "rename"
    BY <1>1, <1>6, StepDownStep
  <2>2. HardTypes' /\ Forward /\ Pending'
    BY <1>1, <1>2, <1>3, <1>6, <2>1 DEF HardTypes, Forward, Pending
  <2>3. QED
    BY <1>2, <2>2, ForwardInv
<1>7. QED
  BY <1>4, <1>5, <1>6 DEF HandleRequestVote

\* handle_append_entries up to its persist (replication.rs:52) keeps it.
LEMMA AppendEntriesInv ==
  ASSUME HardInv, NEW t \in 0..MaxTerm, HandleAppendEntries(t)
  PROVE  HardInv'
<1>1. HardTypes /\ Ordered /\ Clean /\ Idle /\ call.kind = "idle" /\ t \in Nat
  BY IdleKind DEF HardInv, HandleAppendEntries
<1>2. UNCHANGED <<campaign, elected, file, older, failures, crashes>>
  BY DEF HandleAppendEntries
<1>3. Disk' = Disk /\ (failures = 0 => Disk' = {hard})
  BY <1>1, <1>2, DiskAtReturn DEF Disk
<1>4. CASE role' \in {role, "Follower"} /\ Answer(hard.term, Nil) /\ UNCHANGED <<hard, call>>
  <2>1. HardTypes'
    BY <1>1, <1>2, <1>4, AnswerStep DEF HardTypes
  <2>2. Forward
    BY <1>1, <1>3, <1>4, AnswerStep DEF Forward, NoLater
  <2>3. Pending'
    BY <1>1, <1>2, <1>4 DEF Pending, Ordered, Clean, Idle
  <2>4. QED
    BY <1>2, <2>1, <2>2, <2>3, ForwardInv
<1>5. CASE StepDown(t, "append", Nil, FALSE) /\ UNCHANGED <<answers, role>>
  <2>1. /\ hard' \in Hard /\ call' \in Call /\ NoLater(hard, hard')
        /\ call'.kind = "stepDown" /\ call'.step = "rename"
    BY <1>1, <1>5, StepDownStep
  <2>2. HardTypes' /\ Forward /\ Pending'
    BY <1>1, <1>2, <1>3, <1>5, <2>1 DEF HardTypes, Forward, Pending
  <2>3. QED
    BY <1>2, <2>2, ForwardInv
<1>6. QED
  BY <1>4, <1>5 DEF HandleAppendEntries

\* A reply with a newer term (mod.rs:394) keeps it.
LEMMA NewerTermInv ==
  ASSUME HardInv, NEW t \in 0..MaxTerm, SeeNewerTerm(t)
  PROVE  HardInv'
<1>1. HardTypes /\ t \in Nat
  BY DEF HardInv
<1>2. UNCHANGED <<role, campaign, elected, file, older, answers, failures, crashes>>
  BY DEF SeeNewerTerm
<1>3. /\ hard' \in Hard /\ call' \in Call /\ NoLater(hard, hard')
      /\ call'.kind = "stepDown" /\ call'.step = "rename"
  BY <1>1, StepDownStep DEF SeeNewerTerm
<1>4. HardTypes' /\ Forward /\ Pending'
  BY <1>1, <1>2, <1>3 DEF HardTypes, Forward, Pending, Disk
<1>5. QED
  BY <1>2, <1>4, ForwardInv

\* become_candidate up to its persist (election.rs:59) keeps it.
LEMMA CandidateInv ==
  ASSUME HardInv, BecomeCandidate
  PROVE  HardInv'
<1>1. HardTypes /\ hard.term \in Nat /\ Self \in Candidate \cup {Nil}
  BY DEF HardInv, HardTypes, Hard, Candidate
<1>2. /\ UNCHANGED <<campaign, elected, file, older, answers, failures, crashes>>
      /\ role' = "Candidate" /\ hard' = Content(hard.term + 1, Self)
      /\ call' = Persisting("candidate", "none", Self, TRUE)
  BY DEF BecomeCandidate
<1>3. call' \in Call /\ call'.kind = "candidate" /\ call'.step = "rename"
  BY <1>1, <1>2 DEF Persisting, Call
<1>4. hard' \in Hard /\ NoLater(hard, hard') /\ hard'.vote = Self
  <2>1. hard.term + 1 \in Nat /\ hard.term + 1 > hard.term
    BY <1>1
  <2>2. QED
    BY <1>1, <1>2, <2>1, ChangeForward, ContentType
<1>5. HardTypes' /\ Forward /\ Pending'
  BY <1>1, <1>2, <1>3, <1>4 DEF HardTypes, Forward, Pending, Disk
<1>6. QED
  BY <1>2, <1>5, ForwardInv

\* become_leader (election.rs:77) changes no term and no vote.
LEMMA LeaderInv ==
  ASSUME HardInv, BecomeLeader
  PROVE  HardInv'
<1>1. HardTypes /\ Ordered /\ Clean /\ hard.term \in Nat /\ call.kind = "idle"
  BY IdleKind DEF HardInv, HardTypes, Hard, BecomeLeader
<1>2. UNCHANGED <<hard, call, file, older, answers, failures, crashes>>
      /\ role' = "Leader" /\ elected' = hard.term /\ campaign' = 0
  BY DEF BecomeLeader
<1>3. HardTypes' /\ Forward
  BY <1>1, <1>2 DEF HardTypes, Forward, Disk, NoLater
<1>4. Pending'
  BY <1>1, <1>2 DEF Pending, Ordered, Clean, Idle
<1>5. QED
  BY <1>2, <1>3, <1>4, ForwardInv

\* The rename of persist() (state.rs:71) puts memory's content in the file.
LEMMA RenameInv ==
  ASSUME HardInv, Rename
  PROVE  HardInv'
<1>1. HardTypes /\ Ordered /\ Clean /\ call.kind # "idle"
  BY DEF HardInv, Ordered, Rename
<1>2. UNCHANGED <<hard, role, campaign, elected, answers, failures, crashes>>
      /\ file' = hard /\ older' = older \cup {file}
  BY DEF Rename
<1>3. call' \in Call /\ call'.kind = call.kind /\ call'.step = "sync"
  BY <1>1 DEF Rename, HardTypes, Call
<1>4. HardTypes' /\ Forward
  BY <1>1, <1>2, <1>3 DEF HardTypes, Forward, Disk, NoLater
<1>5. Pending'
  BY <1>1, <1>2, <1>3 DEF Pending, Ordered, Clean
<1>6. QED
  BY <1>2, <1>4, <1>5, ForwardInv

\* What the ends of the three callers of persist() have in common.
LEMMA ReturnStep ==
  ASSUME HardInv, NEW kind \in {"candidate", "vote", "stepDown"}, PersistReturns(kind)
  PROVE  /\ call.kind = kind /\ file = hard /\ older' = {} /\ Disk' = {hard}
         /\ UNCHANGED <<elected, file, failures, crashes>>
<1>1. UNCHANGED <<elected, file, failures, crashes>> /\ older' = {} /\ call.kind = kind
  BY DEF PersistReturns, DirFsynced
<1>2. file = hard
  BY <1>1 DEF HardInv, Ordered, PersistReturns
<1>3. QED
  BY <1>1, <1>2 DEF Disk

\* What become_candidate does once persist() returned keeps it.
LEMMA CandidatePersistedInv ==
  ASSUME HardInv, CandidatePersisted
  PROVE  HardInv'
<1>1. HardTypes /\ Ordered /\ Clean /\ hard \in Hard /\ hard.term \in Nat
  BY DEF HardInv, HardTypes, Hard
<1>2. /\ call.kind = "candidate" /\ file = hard /\ older' = {} /\ Disk' = {hard}
      /\ UNCHANGED <<elected, file, failures, crashes>>
  BY ReturnStep DEF CandidatePersisted
<1>3. campaign' = hard.term /\ call' = NoCall /\ UNCHANGED <<hard, role>>
  BY DEF CandidatePersisted
<1>4. answers' = answers \cup {hard}
  BY <1>1, <1>2, ContentOf DEF CandidatePersisted, Answer, Ordered
<1>5. HardTypes' /\ Forward
  BY <1>1, <1>2, <1>3, <1>4, NoCallType DEF HardTypes, Forward, NoLater
<1>6. Pending'
  BY <1>1, <1>2, <1>3, NoCallType DEF Pending, Clean, Idle
<1>7. QED
  BY <1>2, <1>5, <1>6, ForwardInv

\* The answer that follows a persisted vote (election.rs:113) keeps it.
LEMMA VotePersistedInv ==
  ASSUME HardInv, VotePersisted
  PROVE  HardInv'
<1>1. HardTypes /\ Clean /\ hard \in Hard
  BY DEF HardInv, HardTypes
<1>2. /\ call.kind = "vote" /\ file = hard /\ older' = {} /\ Disk' = {hard}
      /\ UNCHANGED <<elected, file, failures, crashes>>
  BY ReturnStep DEF VotePersisted
<1>3. call' = NoCall /\ UNCHANGED <<hard, role, campaign>>
  BY DEF VotePersisted
<1>4. answers' = answers \cup {hard}
  BY <1>1, ContentOf DEF VotePersisted, Answer
<1>5. HardTypes' /\ Forward
  BY <1>1, <1>2, <1>3, <1>4, NoCallType DEF HardTypes, Forward, NoLater
<1>6. Pending'
  BY <1>1, <1>2, <1>3, NoCallType DEF Pending, Clean, Idle
<1>7. QED
  BY <1>2, <1>5, <1>6, ForwardInv

\* What a handler does once its step-down is persisted keeps it.
LEMMA StepDownPersistedInv ==
  ASSUME HardInv, StepDownPersisted
  PROVE  HardInv'
<1>1. /\ HardTypes /\ Clean /\ hard \in Hard
      /\ call.cand \in Candidate \cup {Nil} /\ call.logOk \in BOOLEAN
  BY DEF HardInv, HardTypes, Call
<1>2. /\ call.kind = "stepDown" /\ file = hard /\ older' = {} /\ Disk' = {hard}
      /\ UNCHANGED <<elected, file, failures, crashes>>
  BY ReturnStep DEF StepDownPersisted
<1>3. role' = "Follower" /\ UNCHANGED campaign
  BY DEF StepDownPersisted, Demoted
<1>4. CASE Decide(call.cand, call.logOk)
  <2>1. HardTypes'
    BY <1>1, <1>2, <1>3, <1>4, DecideStep DEF HardTypes
  <2>2. Forward
    BY <1>1, <1>2, <1>4, DecideStep DEF Forward
  <2>3. Pending'
    BY <1>1, <1>2, <1>3, <1>4, DecideStep, NoCallType DEF Pending, Idle
  <2>4. QED
    BY <1>2, <2>1, <2>2, <2>3, ForwardInv
<1>5. CASE /\ answers' = answers \/ Answer(hard.term, Nil)
           /\ call' = NoCall /\ hard' = hard
  <2>1. HardTypes'
    BY <1>1, <1>2, <1>3, <1>5, AnswerStep, NoCallType DEF HardTypes
  <2>2. Forward
    BY <1>1, <1>2, <1>5, AnswerStep DEF Forward, NoLater
  <2>3. Pending'
    BY <1>2, <1>3, <1>5, NoCallType DEF Pending, Idle
  <2>4. QED
    BY <1>2, <2>1, <2>2, <2>3, ForwardInv
<1>6. QED
  BY <1>4, <1>5 DEF StepDownPersisted

\* A persist() that fails (mod.rs:242) answers nothing and keeps it.
LEMMA PersistFailsInv ==
  ASSUME HardInv, PersistFails
  PROVE  HardInv'
<1>1. HardTypes /\ failures \in Nat
  BY DEF HardInv, HardTypes
<1>2. /\ failures' = failures + 1 /\ call' = NoCall
      /\ UNCHANGED <<hard, role, campaign, elected, file, older, answers, crashes>>
  BY DEF PersistFails
<1>3. failures' \in Nat /\ failures' # 0
  BY <1>1, <1>2
<1>4. HardTypes' /\ Forward /\ Pending'
  BY <1>1, <1>2, <1>3, NoCallType DEF HardTypes, Forward, Disk, NoLater, Pending, Idle
<1>5. QED
  BY <1>3, <1>4, ForwardInv

\* A crash keeps a file some rename wrote, which is enough for the invariant.
LEMMA CrashInv ==
  ASSUME HardInv, Crash
  PROVE  HardInv'
<1>1. /\ HardTypes /\ VotesDurable /\ Clean /\ crashes \in Nat
      /\ \A d \in Disk : d \in Hard
  BY DEF HardInv, HardTypes, Disk
<1>2. /\ file' \in Disk /\ hard' = file' /\ older' = {} /\ Disk' = {file'}
      /\ role' = "Follower" /\ campaign' = 0 /\ call' = NoCall
      /\ crashes' = crashes + 1 /\ UNCHANGED <<elected, answers, failures>>
  BY DEF Crash, Disk
<1>3. HardTypes'
  BY <1>1, <1>2, NoCallType DEF HardTypes
<1>4. Ordered'
  BY <1>2, NoCallType DEF Ordered, NoLater, Idle
<1>5. VotesDurable'
  BY <1>1, <1>2 DEF VotesDurable, Disk
<1>6. Clean'
  BY <1>1, <1>2, NoCallType DEF Clean
<1>7. QED
  BY <1>3, <1>4, <1>5, <1>6 DEF HardInv

\* A stuttering step keeps the invariant.
LEMMA HardStutterInv ==
  ASSUME HardInv, UNCHANGED vars
  PROVE  HardInv'
BY DEF HardInv, HardTypes, Ordered, VotesDurable, Clean, vars, Disk, Idle

\* Every step of the node keeps the invariant.
LEMMA HardNextInv == HardInv /\ [Next]_vars => HardInv'
<1> SUFFICES ASSUME HardInv, [Next]_vars PROVE HardInv'
  OBVIOUS
<1>1. CASE UNCHANGED vars
  BY <1>1, HardStutterInv
<1>2. CASE Next
  BY <1>2, RequestVoteInv, AppendEntriesInv, NewerTermInv, CandidateInv, LeaderInv,
     RenameInv, CandidatePersistedInv, VotePersistedInv, StepDownPersistedInv,
     PersistFailsInv, CrashInv DEF Next
<1>3. QED
  BY <1>1, <1>2

-----------------------------------------------------------------------------
\* Types; and memory is on disk for good between calls while no persist() has
\* failed (HardState::persist returns only after the directory fsync).
THEOREM HardTypeCorrect == Spec => []TypeOK
<1>1. HardInv => TypeOK
  BY IdleKind DEF HardInv, HardTypes, Clean, TypeOK
<1>2. QED
  BY <1>1, HardInitInv, HardNextInv, PTL DEF Spec

\* One vote per term, remembered by whatever a crash leaves on disk, with any
\* failures of persist() (handle_request_vote and become_candidate answer after
\* persist_hard).
THEOREM VotesAreDurable == Spec => []VotesDurable
<1>1. HardInv => VotesDurable
  BY DEF HardInv
<1>2. QED
  BY <1>1, HardInitInv, HardNextInv, PTL DEF Spec

\* An answered term is on disk for good while no persist() has failed
\* (become_follower persists before its caller answers).
THEOREM TermsAreDurable == Spec => []TermsDurable
<1>1. HardInv => TermsDurable
  BY DEF HardInv, Clean, TermsDurable, Disk
<1>2. QED
  BY <1>1, HardInitInv, HardNextInv, PTL DEF Spec

\* A leader is in the term that elected it while no persist() has failed
\* (become_follower resets the role whenever the term moves).
THEOREM LeadersOwnTerm == Spec => []LeadsOwnTerm
<1>1. HardInv => LeadsOwnTerm
  BY IdleKind DEF HardInv, Clean, LeadsOwnTerm
<1>2. QED
  BY <1>1, HardInitInv, HardNextInv, PTL DEF Spec

-----------------------------------------------------------------------------
(* The file is a ballot.                                                   *)

OldestOf(D) == CHOOSE d \in D : \A e \in D : NoLater(d, e)

\* A chain of contents has an oldest one.
LEMMA OldestExists ==
  ASSUME NEW D \in SUBSET Hard, D # {}, \A d, e \in D : NoLater(d, e) \/ NoLater(e, d)
  PROVE  OldestOf(D) \in D /\ \A e \in D : NoLater(OldestOf(D), e)
<1> DEFINE T == {d.term : d \in D}
<1>1. T \in SUBSET Nat /\ T # {}
  BY DEF Hard
<1> HIDE DEF T
<1>2. PICK x \in T : \A y \in T : x <= y
  BY <1>1, LeastNatural
<1>3. PICK d \in D : d.term = x
  BY DEF T
<1>4. \A e \in D : d.term \in Nat /\ e.term \in Nat /\ d.term <= e.term
  BY <1>2, <1>3 DEF T, Hard
<1>5. \E f \in D : \A e \in D : NoLater(f, e)
  <2>1. CASE \A e \in D : NoLater(d, e)
    BY <2>1
  <2>2. CASE \E e \in D : ~NoLater(d, e)
    <3>1. PICK e \in D : ~NoLater(d, e)
      BY <2>2
    <3>2. NoLater(e, d) /\ e # d
      BY <3>1 DEF NoLater
    <3>3. e.term = d.term /\ e.vote = Nil
      BY <1>4, <3>2 DEF NoLater
    <3>4. \A f \in D : NoLater(e, f)
      BY <1>4, <3>3 DEF NoLater
    <3>5. QED
      BY <3>4
  <2>3. QED
    BY <2>1, <2>2
<1>6. QED
  BY <1>5, Zenon DEF OldestOf

\* The oldest content on disk, before and after a step.
LEMMA DurableOldest ==
  ASSUME HardInv
  PROVE  /\ Disk \in SUBSET Hard /\ Durable = OldestOf(Disk)
         /\ Durable \in Disk /\ \A e \in Disk : NoLater(Durable, e)
<1>1. Disk \in SUBSET Hard /\ Disk # {} /\ \A d, e \in Disk : NoLater(d, e) \/ NoLater(e, d)
  BY DEF HardInv, HardTypes, Ordered, Disk
<1>2. Durable = OldestOf(Disk)
  BY Zenon DEF Durable, OldestOf, Disk
<1>3. QED
  BY <1>1, <1>2, OldestExists

\* DurableOldest in the next state.
LEMMA DurableOldestNext ==
  ASSUME HardInv'
  PROVE  /\ Disk' \in SUBSET Hard /\ Durable' = OldestOf(Disk')
         /\ Durable' \in Disk' /\ \A e \in Disk' : NoLater(Durable', e)
<1>1. Disk' \in SUBSET Hard /\ Disk' # {} /\ \A d, e \in Disk' : NoLater(d, e) \/ NoLater(e, d)
  BY DEF HardInv, HardTypes, Ordered, Disk
<1>2. Durable' = OldestOf(Disk')
  BY Zenon DEF Durable, OldestOf, Disk
<1>3. QED
  BY <1>1, <1>2, OldestExists

\* Nothing comes onto the disk but by a rename of memory's content.
LEMMA DiskStep ==
  ASSUME [Next]_vars
  PROVE  Disk' \subseteq Disk \/ Disk' = Disk \cup {hard}
<1>1. CASE UNCHANGED <<file, older>>
  BY <1>1 DEF Disk
<1>2. CASE Rename
  BY <1>2 DEF Rename, Disk
<1>3. CASE UNCHANGED file /\ older' = {}
  BY <1>3 DEF Disk
<1>4. CASE Crash
  BY <1>4 DEF Crash, Disk
<1>5. QED
  BY <1>1, <1>2, <1>3, <1>4 DEF Next, vars, HandleRequestVote, HandleAppendEntries,
     SeeNewerTerm, BecomeCandidate, BecomeLeader, CandidatePersisted, VotePersisted,
     StepDownPersisted, PersistReturns, DirFsynced, PersistFails

\* The oldest file a crash may leave only ever moves forward.
LEMMA DurableForward ==
  ASSUME HardInv, HardInv', [Next]_vars
  PROVE  NoLater(Durable, Durable')
<1>1. CASE Disk' \subseteq Disk
  BY <1>1, DurableOldest, DurableOldestNext
<1>2. CASE Disk' = Disk \cup {hard}
  <2>1. Durable \in Disk /\ NoLater(Durable, hard)
    BY DurableOldest DEF HardInv, Ordered
  <2>2. \A e \in Disk' : NoLater(Durable, e)
    BY <1>2, <2>1, DurableOldest
  <2>3. QED
    BY <2>2, DurableOldestNext
<1>3. QED
  BY <1>1, <1>2, DiskStep

\* The file implements Ballot: persist() and a crash move the durable term and
\* vote only forward, and never change a durable vote in its term.
THEOREM FileIsBallot == Spec => IsBallot
<1>1. Init => Promise!Init
  <2> SUFFICES ASSUME Init PROVE Promise!Init
    OBVIOUS
  <2>1. Disk = {Content(0, Nil)} /\ HardInv
    BY HardInitInv DEF Init, Disk
  <2>2. Durable = Content(0, Nil)
    BY <2>1, DurableOldest
  <2>3. QED
    BY <2>2 DEF Promise!Init, Content
<1>2. HardInv /\ HardInv' /\ [Next]_vars => [Promise!Next]_<<Durable.term, Durable.vote>>
  <2> SUFFICES ASSUME HardInv, HardInv', [Next]_vars
               PROVE  [Promise!Next]_<<Durable.term, Durable.vote>>
    OBVIOUS
  <2>1. Durable \in Hard /\ Durable' \in Hard
    BY DurableOldest, DurableOldestNext
  <2>2. NoLater(Durable, Durable')
    BY DurableForward
  <2>3. CASE Durable.term < Durable'.term
    <3>1. Promise!Advance
      BY <2>1, <2>3 DEF Promise!Advance, Hard
    <3>2. QED
      BY <3>1 DEF Promise!Next
  <2>4. CASE Durable' = Durable
    BY <2>4
  <2>5. CASE Durable'.term = Durable.term /\ Durable.vote = Nil /\ Durable'.vote # Nil
    <3>1. Promise!Cast
      BY <2>1, <2>5 DEF Promise!Cast, Hard
    <3>2. QED
      BY <3>1 DEF Promise!Next
  <2>6. CASE Durable'.term = Durable.term /\ Durable'.vote = Durable.vote
    BY <2>6
  <2>7. QED
    BY <2>2, <2>3, <2>4, <2>5, <2>6 DEF NoLater
<1>3. QED
  BY <1>1, <1>2, HardInitInv, HardNextInv, PTL DEF Spec, IsBallot, Promise!Spec
=============================================================================
