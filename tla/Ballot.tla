------------------------------- MODULE Ballot -------------------------------
(***************************************************************************)
(* What elections need of a node's term and vote (state.rs, "Losing it     *)
(* across a crash would let a node vote twice in a term or forget its      *)
(* term"): the term never goes back, and a vote in a term is never changed.*)
(***************************************************************************)
EXTENDS Naturals

CONSTANTS Candidate, NoVote

VARIABLES term, vote

Init == term = 0 /\ vote = NoVote

\* A later term, with or without a vote in it already.
Advance ==
  /\ term' \in Nat /\ term' > term
  /\ vote' \in Candidate \cup {NoVote}

Cast ==
  /\ vote = NoVote
  /\ vote' \in Candidate
  /\ term' = term

Next == Advance \/ Cast

Spec == Init /\ [][Next]_<<term, vote>>
=============================================================================
