-------------------------- MODULE MCMomentumStream --------------------------
(***************************************************************************)
(* Model values for the two streams.  Each has a hub of its own, and they  *)
(* share nothing but the indexer's commits: a behaviour is one of either.  *)
(***************************************************************************)
EXTENDS MomentumStream, TransactionStream, TLC

\* The connections of the momentum stream have one subject.
MCSubjectOf == [c \in Clients |-> "alice"]

MCSymmetry == Permutations(Clients)

\* A momentum with two blocks, listed against the order of their hashes, and
\* one on either side of it.
MCTxs == <<<<1>>, <<3, 2>>, <<4>>>>
MCInvolves == <<{"a"}, {"a", "b"}, {"b"}, {"b"}>>

VARIABLE which   \* what this behaviour is about

MCInit == Init /\ TxInit /\ which \in {"registry", "frames", "transactions"}

\* bound: with several connections at a time fewer heights are stored.
MCRegistry == table' \subseteq 1..(MaxHeight - 2)

\* bound: one connection at a time.
MCFrames == Cardinality({c \in Clients : cpc'[c] # "idle"}) <= 1

MCNext ==
  /\ \/ which = "registry" /\ Next /\ MCRegistry /\ UNCHANGED txVars
     \/ which = "frames" /\ Next /\ MCFrames /\ UNCHANGED txVars
     \/ which = "transactions" /\ TxNext /\ UNCHANGED vars
  /\ UNCHANGED which

MCSpec == MCInit /\ [][MCNext]_<<vars, txVars, which>>
=============================================================================
