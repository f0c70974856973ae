------------------------------ MODULE EventChain ------------------------------
(***************************************************************************)
(* events.append under concurrency: handlers append to the event log       *)
(* inside their own transactions, and the events of a hash-chained scope   *)
(* form a chain that verify_chain recomputes later.  A hash commits to the *)
(* event and to all before it, so a row keeps the seq of the event whose   *)
(* hash it took as prev_hash.                                              *)
(*                                                                         *)
(* Transactions are READ COMMITTED (the pool's default): each statement    *)
(* sees what is committed when it starts, and the transaction's own rows.  *)
(***************************************************************************)
EXTENDS Integers, FiniteSets, Sequences

CONSTANTS
  Txns,           \* transactions: each runs once
  ChainedScopes,
  MaxEvents       \* bound: calls of append, those of aborted transactions included

ASSUME EventBound == MaxEvents \in Nat

VARIABLES
  rows,     \* memory_events with a curr_hash, committed or not
  state,    \* state[t]: where transaction t is
  target,   \* target[t]: the scope append is about to extend, or NoScope
  locks,    \* locks[t]: advisory locks t holds until it ends
  head,     \* head[t]: seq of the chain head append has read, or Unread
  nextSeq   \* the identity column: gaps where transactions rolled back

vars == <<rows, state, target, locks, head, nextSeq>>

NoScope == "no scope"
Unread == -1
Root == 0      \* prev_hash IS NULL

ASSUME ScopeNames == NoScope \notin ChainedScopes

Row == [seq : Nat \ {0}, scope : ChainedScopes, prev : Nat, by : Txns]

Init ==
  /\ rows = {}
  /\ state = [t \in Txns |-> "idle"]
  /\ target = [t \in Txns |-> NoScope]
  /\ locks = [t \in Txns |-> {}]
  /\ head = [t \in Txns |-> Unread]
  /\ nextSeq = 1

Committed(s) == {r \in rows : r.scope = s /\ state[r.by] = "committed"}

Visible(t, s) == Committed(s) \cup {r \in rows : r.scope = s /\ r.by = t}

LastSeq(R) == IF R = {} THEN Root ELSE CHOOSE q \in {r.seq : r \in R} : \A r \in R : r.seq <= q

Begin(t) ==
  /\ state[t] = "idle"
  /\ state' = [state EXCEPT ![t] = "running"]
  /\ UNCHANGED <<rows, target, locks, head, nextSeq>>

\* append is called for an event of scope s.
Call(t, s) ==
  /\ state[t] = "running" /\ target[t] = NoScope
  /\ nextSeq + Cardinality({u \in Txns : target[u] # NoScope}) <= MaxEvents
  /\ target' = [target EXCEPT ![t] = s]
  /\ UNCHANGED <<rows, state, locks, head, nextSeq>>

\* Mutant: the chain head is read and extended without a lock.
Lock_Unlocked(t) ==
  /\ target[t] \in ChainedScopes \ locks[t]
  /\ locks' = [locks EXCEPT ![t] = @ \cup {target[t]}]
  /\ UNCHANGED <<rows, state, target, head, nextSeq>>

\* pg_advisory_xact_lock: waits while another transaction holds it.
Lock(t) ==
  /\ target[t] \in ChainedScopes \ locks[t]
  /\ \A u \in Txns \ {t} : target[t] \notin locks[u]
  /\ locks' = [locks EXCEPT ![t] = @ \cup {target[t]}]
  /\ UNCHANGED <<rows, state, target, head, nextSeq>>

ReadHead(t) ==
  /\ target[t] \in locks[t] /\ head[t] = Unread
  /\ head' = [head EXCEPT ![t] = LastSeq(Visible(t, target[t]))]
  /\ UNCHANGED <<rows, state, target, locks, nextSeq>>

\* Mutant: the lock covers the statement, not the transaction.
Insert_Unlocks(t) ==
  /\ head[t] # Unread
  /\ rows' = rows \cup {[seq |-> nextSeq, scope |-> target[t], prev |-> head[t], by |-> t]}
  /\ nextSeq' = nextSeq + 1
  /\ target' = [target EXCEPT ![t] = NoScope]
  /\ head' = [head EXCEPT ![t] = Unread]
  /\ locks' = [locks EXCEPT ![t] = @ \ {target[t]}]
  /\ UNCHANGED state

Insert(t) ==
  /\ head[t] # Unread
  /\ rows' = rows \cup {[seq |-> nextSeq, scope |-> target[t], prev |-> head[t], by |-> t]}
  /\ nextSeq' = nextSeq + 1
  /\ target' = [target EXCEPT ![t] = NoScope]
  /\ head' = [head EXCEPT ![t] = Unread]
  /\ UNCHANGED <<state, locks>>

\* Mutant: a session lock outlives the transaction.
Commit_KeepsLocks(t) ==
  /\ state[t] = "running" /\ target[t] = NoScope
  /\ state' = [state EXCEPT ![t] = "committed"]
  /\ UNCHANGED <<rows, target, locks, head, nextSeq>>

Commit(t) ==
  /\ state[t] = "running" /\ target[t] = NoScope
  /\ state' = [state EXCEPT ![t] = "committed"]
  /\ locks' = [locks EXCEPT ![t] = {}]
  /\ UNCHANGED <<rows, target, head, nextSeq>>

\* An exception in the handler, or a lost connection, rolls everything back.
Abort(t) ==
  /\ state[t] = "running"
  /\ state' = [state EXCEPT ![t] = "aborted"]
  /\ rows' = {r \in rows : r.by # t}
  /\ target' = [target EXCEPT ![t] = NoScope]
  /\ locks' = [locks EXCEPT ![t] = {}]
  /\ head' = [head EXCEPT ![t] = Unread]
  /\ UNCHANGED nextSeq

\* t is in a set of transactions that all wait for locks within the set: append
\* locks scopes in the order a handler happens to touch them.
Deadlocked(t) ==
  \E S \in SUBSET Txns : t \in S /\ \A u \in S : \E v \in S \ {u} : target[u] \in locks[v]

\* PostgreSQL breaks a deadlock by aborting a waiter.
BreakDeadlock(t) == Deadlocked(t) /\ Abort(t)

Next ==
  \E t \in Txns :
    \/ Begin(t) \/ \E s \in ChainedScopes : Call(t, s)
    \/ Lock(t) \/ ReadHead(t) \/ Insert(t)
    \/ Commit(t) \/ Abort(t) \/ BreakDeadlock(t)

Spec == Init /\ [][Next]_vars

\* A handler that does not wait runs on to its end, and the database looks for
\* deadlocks.
Fairness ==
  \A t \in Txns : /\ WF_vars(Lock(t)) /\ WF_vars(ReadHead(t)) /\ WF_vars(Insert(t))
                  /\ WF_vars(Commit(t)) /\ WF_vars(BreakDeadlock(t))

FairSpec == Spec /\ Fairness

-----------------------------------------------------------------------------
(* Properties.                                                             *)

EventTypeOK ==
  /\ rows \subseteq Row
  /\ state \in [Txns -> {"idle", "running", "committed", "aborted"}]
  /\ target \in [Txns -> ChainedScopes \cup {NoScope}]
  /\ locks \in [Txns -> SUBSET ChainedScopes]
  /\ head \in [Txns -> {Unread} \cup Nat]
  /\ nextSeq \in Nat \ {0}

\* verify_chain succeeds on every scope at any time: walking the committed events in
\* the order of seq, each took the hash of the one before it.
ChainIntact ==
  \A s \in ChainedScopes : \A r \in Committed(s) :
    r.prev = LastSeq({q \in Committed(s) : q.seq < r.seq})

\* Why it holds.  A scope's uncommitted rows belong to the one transaction that
\* locks it and lie behind all its committed rows; so a head read under the lock is
\* the last row there is, and what an abort takes away is a tail.
RowsOf(s) == {r \in rows : r.scope = s}

HasLast(R) == R = {} \/ \E r \in R : \A q \in R : q.seq <= r.seq

ChainInv ==
  /\ \A t, u \in Txns : t # u => locks[t] \cap locks[u] = {}
  /\ \A t \in Txns : state[t] # "running" => target[t] = NoScope /\ locks[t] = {}
  /\ \A t \in Txns : head[t] # Unread =>
       target[t] \in locks[t] /\ head[t] = LastSeq(RowsOf(target[t]))
  /\ \A r \in rows : r.seq < nextSeq
  /\ \A r \in rows : \/ state[r.by] = "committed"
                     \/ state[r.by] = "running" /\ r.scope \in locks[r.by]
  /\ \A q, r \in rows : (q.scope = r.scope /\ state[r.by] = "running" /\ q.by # r.by) => q.seq < r.seq
  /\ \A r \in rows : r.prev = LastSeq({q \in RowsOf(r.scope) : q.seq < r.seq})
  /\ \A s \in ChainedScopes : HasLast(RowsOf(s)) /\ HasLast(Committed(s))

\* The committed events of each scope, in the order of seq, are a history that only
\* grows at its end: an anchored head hash never becomes stale.
Rank(R, r) == Cardinality({q \in R : q.seq <= r.seq})

InSeqOrder(R) == [i \in 1..Cardinality(R) |-> CHOOSE r \in R : Rank(R, r) = i]

History(s) == InSeqOrder(Committed(s))

Log == INSTANCE AuditLog WITH Event <- Row, history <- [s \in ChainedScopes |-> History(s)]

ImplementsAuditLog == Log!Spec

\* No handler waits for ever to record its event, in whatever order the handlers
\* touch the scopes.
AppendsEnd == \A t \in Txns : state[t] = "running" ~> state[t] \in {"committed", "aborted"}
=============================================================================
