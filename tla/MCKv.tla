-------------------------------- MODULE MCKv --------------------------------
(***************************************************************************)
(* Kv for TLC: one write and one read on three interchangeable nodes.      *)
(***************************************************************************)
EXTENDS Kv, TLC

Symmetry == Permutations(Node)

\* Once no write can be acknowledged any more and none was, the clients are done.
ClientsBusy ==
  writes < MaxWrites \/ waiting # {} \/ \E a \in acked : a.own

\* Reduction: a get arrives after a write was acknowledged.
GetAfterPut == reading' # {} => acked # {}

\* Reduction: one AppendEntries exchange at a time, and while an RPC is in
\* flight the nodes do nothing else.
OneExchange ==
  kvVars' = kvVars =>
    /\ Cardinality(appendCalls') + Cardinality(appendReplies') <= 1
    /\ InFlight > 0 => /\ InFlight' <= InFlight
                       /\ <<voteRpcs, appendRpcs>>' # <<voteRpcs, appendRpcs>>

View ==
  <<currentTerm, votedFor, entries, role, commitIndex, lastApplied,
    [n \in Node |-> IF role[n] = "Leader"
                    THEN <<nextIndex[n], matchIndex[n]>> ELSE <<>>],
    campaign,
    [n \in Node |-> IF role[n] = "Candidate" THEN voters[n] ELSE {}],
    todo, voteCalls, voteReplies, appendCalls, appendReplies, kvVars>>
=============================================================================
