------------------------------ MODULE MCDatabase ------------------------------
(***************************************************************************)
(* Concurrent transactions on the database: three that append to the event *)
(* log, over two chained scopes (enough for a chain that forks, for a      *)
(* cycle of waits, and for a third that meets either), or three that serve *)
(* requests on the tables.  The two models share nothing; one run explores *)
(* the behaviours of one and of the other, not their product.              *)
(***************************************************************************)
EXTENDS EventChain, Transactions

CONSTANTS s1, s2, s3

MCSessions == {s1, s2, s3}

MCAsked == [text |-> "habit", scope |-> "dana"]

\* The fact the ask is about, said again while the ask is open; and a staged memory
\* that is used, judged and erased.
MCRequests ==
  [do : {"approve", "decline", "put"} \cup OnMemory]
  \cup {[do |-> "remember", text |-> "habit", scope |-> "dana"]}

\* Sessions are alike: it is enough that they take requests in one order.
MCOrder == <<"approve", "decline", "remember", "put", "use", "triage", "nightly", "forget", "nothing">>

Turn(s) == CHOOSE i \in DOMAIN MCOrder : MCOrder[i] = job[s].do

InOrder ==
  \A x \in {<<s1, s2>>, <<s1, s3>>, <<s2, s3>>} : Turn(x[1]) <= Turn(x[2]) \/ job[x[1]] = NoJob

MCInit == Init /\ TxInit

MCNext ==
  \/ (\A s \in Sessions : at[s] = "idle") /\ Next /\ UNCHANGED txVars
  \/ (\A t \in Txns : state[t] = "idle") /\ TxNext /\ InOrder' /\ UNCHANGED vars

MCSpec == MCInit /\ [][MCNext]_<<vars, txVars>> /\ Fairness /\ TxFairness
=============================================================================
