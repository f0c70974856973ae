--------------------------- MODULE EventChainProofs ---------------------------
(***************************************************************************)
(* For any number of transactions, scopes and events: the advisory lock    *)
(* keeps every hash chain whole, and the table of events implements the    *)
(* log that it promises to be (AuditLog).                                  *)
(***************************************************************************)
EXTENDS EventChain, FiniteSetTheorems, SequenceTheorems, TLAPS

\* The chain invariant with the types it needs.
IInv == EventTypeOK /\ ChainInv

\* LastSeq is a sequence number, or the root of an empty chain.
LEMMA LastSeqType ==
  ASSUME NEW R, \A r \in R : r.seq \in Nat \ {0}, HasLast(R)
  PROVE  LastSeq(R) \in Nat
<1>1. CASE R = {}
  BY <1>1 DEF LastSeq, Root
<1>2. CASE R # {}
  <2>1. PICK r \in R : \A q \in R : q.seq <= r.seq
    BY <1>2 DEF HasLast
  <2>2. \E q \in {x.seq : x \in R} : \A x \in R : x.seq <= q
    BY <2>1
  <2>3. LastSeq(R) \in {x.seq : x \in R}
    BY <1>2, <2>2 DEF LastSeq
  <2>. QED  BY <2>3
<1>. QED  BY <1>1, <1>2

\* The transaction that locks a scope sees every row of it.
LEMMA HolderSeesAll ==
  ASSUME IInv, NEW t \in Txns, NEW s \in locks[t]
  PROVE  Visible(t, s) = RowsOf(s)
<1>1. ASSUME NEW r \in rows, r.scope = s, state[r.by] # "committed"
      PROVE  r.by = t
  BY <1>1 DEF IInv, EventTypeOK, ChainInv, Row
<1>. QED  BY <1>1 DEF Visible, Committed, RowsOf

LEMMA InitChain == Init => IInv
<1>. SUFFICES ASSUME Init PROVE IInv
  OBVIOUS
<1>1. EventTypeOK
  <2>1. rows \subseteq Row
    BY DEF Init
  <2>2. head \in [Txns -> {Unread} \cup Nat]
    BY DEF Init
  <2>3. nextSeq \in Nat \ {0}
    BY DEF Init
  <2>4. /\ state \in [Txns -> {"idle", "running", "committed", "aborted"}]
        /\ target \in [Txns -> ChainedScopes \cup {NoScope}]
        /\ locks \in [Txns -> SUBSET ChainedScopes]
    BY DEF Init
  <2>. QED  BY <2>1, <2>2, <2>3, <2>4 DEF EventTypeOK
<1>2. \A s \in ChainedScopes : RowsOf(s) = {} /\ Committed(s) = {}
  BY DEF Init, RowsOf, Committed
<1>3. ChainInv
  BY <1>2 DEF Init, ChainInv, HasLast, NoScope, Unread
<1>. QED  BY <1>1, <1>3 DEF IInv

\* Steps that leave the rows and what is committed alone.
LEMMA QuietRows ==
  ASSUME rows' = rows, \A r \in rows : (state'[r.by] = "committed") <=> (state[r.by] = "committed")
  PROVE  \A s \in ChainedScopes : RowsOf(s)' = RowsOf(s) /\ Committed(s)' = Committed(s)
BY DEF RowsOf, Committed

LEMMA BeginStep == ASSUME IInv, NEW t \in Txns, Begin(t) PROVE IInv'
<1>1. EventTypeOK'
  BY DEF IInv, EventTypeOK, Begin
<1>2. \A r \in rows : state'[r.by] = state[r.by]
  BY DEF IInv, EventTypeOK, ChainInv, Begin, Row
<1>3. \A s \in ChainedScopes : RowsOf(s)' = RowsOf(s) /\ Committed(s)' = Committed(s)
  BY <1>2, QuietRows DEF Begin
<1>4. \A s : RowsOf(s)' = RowsOf(s)
  BY DEF Begin, RowsOf
<1>5. ChainInv'
  BY <1>2, <1>3, <1>4 DEF IInv, EventTypeOK, ChainInv, Begin, Row, HasLast
<1>. QED  BY <1>1, <1>5 DEF IInv

LEMMA CallStep == ASSUME IInv, NEW t \in Txns, NEW s \in ChainedScopes, Call(t, s) PROVE IInv'
<1>1. EventTypeOK'
  BY DEF IInv, EventTypeOK, Call
<1>2. \A x \in ChainedScopes : RowsOf(x)' = RowsOf(x) /\ Committed(x)' = Committed(x)
  BY QuietRows DEF Call
<1>3. head[t] = Unread
  BY ScopeNames DEF IInv, EventTypeOK, ChainInv, Call
<1>4. \A x : RowsOf(x)' = RowsOf(x)
  BY DEF Call, RowsOf
<1>5. ChainInv'
  BY <1>2, <1>3, <1>4 DEF IInv, EventTypeOK, ChainInv, Call, Row, HasLast
<1>. QED  BY <1>1, <1>5 DEF IInv

LEMMA LockStep == ASSUME IInv, NEW t \in Txns, Lock(t) PROVE IInv'
<1>1. EventTypeOK'
  BY DEF IInv, EventTypeOK, Lock
<1>2. \A x \in ChainedScopes : RowsOf(x)' = RowsOf(x) /\ Committed(x)' = Committed(x)
  BY QuietRows DEF Lock
<1>3. \A x : RowsOf(x)' = RowsOf(x)
  BY DEF Lock, RowsOf
<1>4. \A u, v \in Txns : u # v => locks'[u] \cap locks'[v] = {}
  BY DEF IInv, EventTypeOK, ChainInv, Lock
<1>5. state[t] = "running"
  BY ScopeNames DEF IInv, EventTypeOK, ChainInv, Lock
<1>6. ChainInv'
  BY <1>2, <1>3, <1>4, <1>5 DEF IInv, EventTypeOK, ChainInv, Lock, Row, HasLast
<1>. QED  BY <1>1, <1>6 DEF IInv

LEMMA ReadHeadStep == ASSUME IInv, NEW t \in Txns, ReadHead(t) PROVE IInv'
<1>. DEFINE s == target[t]
<1>1. s \in ChainedScopes /\ s \in locks[t]
  BY DEF IInv, EventTypeOK, ReadHead
<1>2. head' = [head EXCEPT ![t] = LastSeq(RowsOf(s))]
  BY <1>1, HolderSeesAll DEF ReadHead
<1>3. LastSeq(RowsOf(s)) \in Nat
  <2>1. HasLast(RowsOf(s))
    BY <1>1 DEF IInv, ChainInv
  <2>2. \A r \in RowsOf(s) : r.seq \in Nat \ {0}
    BY DEF IInv, EventTypeOK, RowsOf, Row
  <2>. QED  BY <2>1, <2>2, LastSeqType
<1>4. EventTypeOK'
  BY <1>2, <1>3 DEF IInv, EventTypeOK, ReadHead
<1>5. \A x \in ChainedScopes : RowsOf(x)' = RowsOf(x) /\ Committed(x)' = Committed(x)
  BY QuietRows DEF ReadHead
<1>6. \A x : RowsOf(x)' = RowsOf(x)
  BY DEF ReadHead, RowsOf
<1>7. ChainInv'
  BY <1>1, <1>2, <1>5, <1>6 DEF IInv, EventTypeOK, ChainInv, ReadHead, Row, HasLast
<1>. QED  BY <1>4, <1>7 DEF IInv

\* The row t inserts goes behind every row of the scope it holds.
LEMMA InsertStep == ASSUME IInv, NEW t \in Txns, Insert(t) PROVE IInv'
<1>0. target[t] \in locks[t] /\ locks[t] \subseteq ChainedScopes /\ head[t] \in Nat
  BY DEF IInv, EventTypeOK, ChainInv, Insert
<1>. PICK s \in ChainedScopes : s = target[t]
  BY <1>0
<1>. PICK new \in Row : new = [seq |-> nextSeq, scope |-> s, prev |-> head[t], by |-> t]
  BY <1>0 DEF IInv, EventTypeOK, Row
<1>1. /\ s \in locks[t] /\ state[t] = "running"
      /\ head[t] = LastSeq(RowsOf(s)) /\ nextSeq \in Nat \ {0}
      /\ new.seq = nextSeq /\ new.scope = s /\ new.prev = head[t] /\ new.by = t
  <2>1. s \in locks[t] /\ state[t] = "running"
    BY <1>0 DEF IInv, ChainInv
  <2>2. head[t] # Unread
    BY DEF Insert
  <2>3. head[t] = LastSeq(RowsOf(s))
    BY <2>2 DEF IInv, ChainInv
  <2>4. nextSeq \in Nat \ {0}
    BY DEF IInv, EventTypeOK
  <2>. QED  BY <2>1, <2>3, <2>4
<1>2. rows' = rows \cup {new} /\ nextSeq' = nextSeq + 1 /\ locks' = locks /\ state' = state
  BY DEF Insert
<1>3. EventTypeOK'
  BY <1>2 DEF IInv, EventTypeOK, Insert
<1>4. /\ RowsOf(s)' = RowsOf(s) \cup {new}
      /\ \A x : x # s => RowsOf(x)' = RowsOf(x)
  BY <1>1, <1>2 DEF RowsOf
<1>5. \A x : Committed(x)' = Committed(x)
  BY <1>1, <1>2 DEF Committed
<1>6. \A r \in rows : r.seq < nextSeq /\ r.seq \in Nat /\ r.scope \in ChainedScopes /\ r.by \in Txns
  BY DEF IInv, EventTypeOK, ChainInv, Row
<1>7. \A r \in rows : r.scope = s /\ state[r.by] = "running" => r.by = t
  BY <1>1, <1>6 DEF IInv, EventTypeOK, ChainInv
<1>8. ASSUME NEW r \in rows'
      PROVE  r.prev = LastSeq({q \in RowsOf(r.scope)' : q.seq < r.seq})
  <2>1. CASE r \in rows
    <3>1. {q \in RowsOf(r.scope)' : q.seq < r.seq} = {q \in RowsOf(r.scope) : q.seq < r.seq}
      BY <1>1, <1>4, <1>6, <2>1
    <3>. QED  BY <2>1, <3>1 DEF IInv, ChainInv
  <2>2. CASE r = new
    <3>1. {q \in RowsOf(s)' : q.seq < nextSeq} = RowsOf(s)
      BY <1>1, <1>4, <1>6 DEF RowsOf
    <3>. QED  BY <1>1, <2>2, <3>1
  <2>. QED  BY <1>2, <2>1, <2>2
<1>9. \A x \in ChainedScopes : HasLast(RowsOf(x))'
  <2>1. HasLast(RowsOf(s))'
    BY <1>1, <1>4, <1>6 DEF HasLast, RowsOf
  <2>2. ASSUME NEW x \in ChainedScopes, x # s PROVE HasLast(RowsOf(x))'
    BY <1>4, <2>2 DEF HasLast, IInv, ChainInv
  <2>. QED  BY <2>1, <2>2
<1>10. \A x \in ChainedScopes : HasLast(Committed(x))'
  BY <1>5 DEF HasLast, IInv, ChainInv
<1>11. /\ \A u, v \in Txns : u # v => locks'[u] \cap locks'[v] = {}
       /\ \A u \in Txns : state'[u] # "running" => target'[u] = NoScope /\ locks'[u] = {}
  BY <1>1 DEF IInv, EventTypeOK, ChainInv, Insert
<1>12. ASSUME NEW u \in Txns, head'[u] # Unread
       PROVE  target'[u] \in locks'[u] /\ head'[u] = LastSeq(RowsOf(target[u])')
  <2>1. u # t /\ head[u] # Unread /\ head'[u] = head[u] /\ target'[u] = target[u] /\ locks' = locks
    BY <1>12 DEF IInv, EventTypeOK, Insert
  <2>2. target[u] \in locks[u] /\ target[u] # s
    BY <1>1, <2>1 DEF IInv, ChainInv
  <2>. QED  BY <1>4, <2>1, <2>2 DEF IInv, ChainInv
<1>13. /\ \A r \in rows' : r.seq < nextSeq'
       /\ \A r \in rows' : \/ state'[r.by] = "committed"
                           \/ state'[r.by] = "running" /\ r.scope \in locks'[r.by]
  BY <1>1, <1>2, <1>6 DEF IInv, ChainInv
<1>14. \A q, r \in rows' : (q.scope = r.scope /\ state'[r.by] = "running" /\ q.by # r.by) => q.seq < r.seq
  BY <1>1, <1>2, <1>6, <1>7 DEF IInv, ChainInv
<1>15. ChainInv'
  BY <1>8, <1>9, <1>10, <1>11, <1>12, <1>13, <1>14 DEF ChainInv
<1>. QED  BY <1>3, <1>15 DEF IInv

\* The rows a commit publishes are those of the scopes t holds, complete with t's.
LEMMA CommitStep == ASSUME IInv, NEW t \in Txns, Commit(t) PROVE IInv'
<1>1. EventTypeOK'
  BY DEF IInv, EventTypeOK, Commit
<1>2. \A x : RowsOf(x)' = RowsOf(x)
  BY DEF Commit, RowsOf
<1>3. ASSUME NEW x \in ChainedScopes PROVE HasLast(Committed(x))'
  <2>1. CASE x \in locks[t]
    <3>1. Visible(t, x) = RowsOf(x)
      BY <2>1, HolderSeesAll
    <3>2. Committed(x)' = RowsOf(x)
      BY <3>1 DEF Commit, IInv, EventTypeOK, Visible, Committed, RowsOf
    <3>. QED  BY <3>2 DEF HasLast, IInv, ChainInv
  <2>2. CASE x \notin locks[t]
    <3>1. Committed(x)' = Committed(x)
      BY <2>2 DEF Commit, IInv, EventTypeOK, ChainInv, Committed, Row
    <3>. QED  BY <3>1 DEF HasLast, IInv, ChainInv
  <2>. QED  BY <2>1, <2>2
<1>4. head[t] = Unread
  BY ScopeNames DEF IInv, EventTypeOK, ChainInv, Commit
<1>5. ChainInv'
  BY <1>2, <1>3, <1>4 DEF IInv, EventTypeOK, ChainInv, Commit, Row, HasLast
<1>. QED  BY <1>1, <1>5 DEF IInv

\* An abort takes the tail of every chain t was extending.
LEMMA AbortStep == ASSUME IInv, NEW t \in Txns, Abort(t) PROVE IInv'
<1>1. EventTypeOK'
  BY DEF IInv, EventTypeOK, Abort
<1>2. \A r \in rows : r.seq \in Nat /\ r.scope \in ChainedScopes /\ r.by \in Txns
  BY DEF IInv, EventTypeOK, Row
<1>3. ASSUME NEW r \in rows' PROVE state'[r.by] = state[r.by] /\ r.by # t /\ r \in rows
  BY <1>2 DEF IInv, EventTypeOK, Abort
<1>4. \A x : Committed(x)' = Committed(x)
  BY <1>2, <1>3 DEF IInv, EventTypeOK, ChainInv, Abort, Committed
<1>5. \A x : x \notin locks[t] => RowsOf(x)' = RowsOf(x)
  BY <1>2 DEF IInv, EventTypeOK, ChainInv, Abort, RowsOf
<1>6. \A x : x \in locks[t] => RowsOf(x)' = Committed(x)
  BY <1>2 DEF IInv, EventTypeOK, ChainInv, Abort, RowsOf, Committed
<1>7. \A x \in ChainedScopes : HasLast(RowsOf(x))' /\ HasLast(Committed(x))'
  BY <1>4, <1>5, <1>6 DEF IInv, ChainInv, HasLast
<1>8. ASSUME NEW r \in rows'
      PROVE  r.prev = LastSeq({q \in RowsOf(r.scope)' : q.seq < r.seq})
  <2>1. \A q \in rows : q.scope = r.scope /\ q.by = t => r.seq < q.seq
    BY <1>3 DEF IInv, ChainInv, Abort
  <2>2. {q \in RowsOf(r.scope)' : q.seq < r.seq} = {q \in RowsOf(r.scope) : q.seq < r.seq}
    BY <1>2, <1>3, <2>1 DEF Abort, RowsOf
  <2>. QED  BY <1>3, <2>2 DEF IInv, ChainInv
<1>9. ASSUME NEW u \in Txns, head'[u] # Unread
      PROVE  target'[u] \in locks'[u] /\ head'[u] = LastSeq(RowsOf(target[u])')
  <2>1. /\ u # t /\ head[u] # Unread /\ head'[u] = head[u]
        /\ target'[u] = target[u] /\ locks'[u] = locks[u]
    BY <1>9 DEF IInv, EventTypeOK, Abort
  <2>2. target[u] \in locks[u] /\ target[u] \notin locks[t]
    BY <2>1 DEF IInv, ChainInv
  <2>. QED  BY <1>5, <2>1, <2>2 DEF IInv, ChainInv
<1>10. ChainInv'
  BY <1>1, <1>2, <1>3, <1>7, <1>8, <1>9 DEF IInv, EventTypeOK, ChainInv, Abort
<1>. QED  BY <1>1, <1>10 DEF IInv

THEOREM ChainInductive == Spec => []IInv
<1>1. IInv /\ [Next]_vars => IInv'
  <2>. SUFFICES ASSUME IInv, [Next]_vars PROVE IInv'
    OBVIOUS
  <2>1. CASE UNCHANGED vars
    BY <2>1 DEF vars, IInv, EventTypeOK, ChainInv, HasLast, RowsOf, Committed
  <2>2. CASE Next
    <3>1. ASSUME NEW t \in Txns, Begin(t) PROVE IInv'
      BY <3>1, BeginStep
    <3>2. ASSUME NEW t \in Txns, NEW s \in ChainedScopes, Call(t, s) PROVE IInv'
      BY <3>2, CallStep
    <3>3. ASSUME NEW t \in Txns, Lock(t) PROVE IInv'
      BY <3>3, LockStep
    <3>4. ASSUME NEW t \in Txns, ReadHead(t) PROVE IInv'
      BY <3>4, ReadHeadStep
    <3>5. ASSUME NEW t \in Txns, Insert(t) PROVE IInv'
      BY <3>5, InsertStep
    <3>6. ASSUME NEW t \in Txns, Commit(t) PROVE IInv'
      BY <3>6, CommitStep
    <3>7. ASSUME NEW t \in Txns, Abort(t) PROVE IInv'
      BY <3>7, AbortStep
    <3>. QED  BY <2>2, <3>1, <3>2, <3>3, <3>4, <3>5, <3>6, <3>7 DEF Next, BreakDeadlock
  <2>. QED  BY <2>1, <2>2
<1>. QED  BY <1>1, InitChain, PTL DEF Spec

\* verify_chain answers True for every scope at any time, whatever transactions
\* ran, waited, deadlocked or rolled back in between.
THEOREM ChainAlwaysIntact == Spec => []ChainIntact
<1>1. IInv => ChainIntact
  <2>. SUFFICES ASSUME IInv, NEW s \in ChainedScopes, NEW r \in Committed(s)
                PROVE  r.prev = LastSeq({q \in Committed(s) : q.seq < r.seq})
    BY DEF ChainIntact
  <2>1. r \in rows /\ r.scope = s
    BY DEF Committed
  <2>2. {q \in RowsOf(s) : q.seq < r.seq} = {q \in Committed(s) : q.seq < r.seq}
    BY <2>1 DEF IInv, EventTypeOK, ChainInv, Committed, RowsOf, Row
  <2>. QED  BY <2>1, <2>2 DEF IInv, ChainInv
<1>. QED  BY <1>1, ChainInductive, PTL

-----------------------------------------------------------------------------
(* The audit log.                                                          *)

Apart(R) == \A q, r \in R : q.seq = r.seq => q = r

\* The events of a scope are finitely many, and no two have one seq.
RowsInv == IsFiniteSet(rows) /\ Apart(rows)

\* So each has a rank, no two have the same, and every rank is taken.
LEMMA Ranked ==
  ASSUME NEW R, R \subseteq Row, IsFiniteSet(R), Apart(R)
  PROVE  /\ \A r \in R : Rank(R, r) \in 1..Cardinality(R)
         /\ \A q, r \in R : Rank(R, q) = Rank(R, r) => q = r
         /\ \A i \in 1..Cardinality(R) : \E r \in R : Rank(R, r) = i
<1>. DEFINE UpTo(r) == {q \in R : q.seq <= r.seq}
            n == Cardinality(R)
            f == [r \in R |-> Rank(R, r)]
<1>1. n \in Nat
  BY FS_CardinalityType
<1>2. \A r \in R : r.seq \in Nat
  BY DEF Row
<1>3. ASSUME NEW r \in R PROVE IsFiniteSet(UpTo(r)) /\ Cardinality(UpTo(r)) \in 1..n
  <2>1. UpTo(r) \in SUBSET R /\ r \in UpTo(r)
    BY <1>2
  <2>. HIDE DEF UpTo
  <2>2. IsFiniteSet(UpTo(r)) /\ Cardinality(UpTo(r)) <= n
    BY <2>1, FS_Subset
  <2>3. Cardinality(UpTo(r)) \in Nat /\ Cardinality(UpTo(r)) # 0
    BY <2>1, <2>2, FS_CardinalityType, FS_EmptySet
  <2>. QED  BY <1>1, <2>2, <2>3
<1>4. ASSUME NEW q \in R, NEW r \in R, q.seq < r.seq PROVE Rank(R, q) < Rank(R, r)
  <2>1. UpTo(q) \in SUBSET UpTo(r)
    BY <1>2, <1>4
  <2>2. r \in UpTo(r) /\ r \notin UpTo(q)
    BY <1>2, <1>4
  <2>3. UpTo(q) # UpTo(r)
    BY <2>2
  <2>. HIDE DEF UpTo
  <2>4. Cardinality(UpTo(q)) <= Cardinality(UpTo(r)) /\ Cardinality(UpTo(q)) # Cardinality(UpTo(r))
    BY <1>3, <2>1, <2>3, FS_Subset
  <2>5. Cardinality(UpTo(q)) < Cardinality(UpTo(r))
    BY <1>1, <1>3, <2>4
  <2>. QED  BY <2>5 DEF Rank, UpTo
<1>5. \A r \in R : Rank(R, r) \in 1..n
  BY <1>3 DEF Rank
<1>6. ASSUME NEW q \in R, NEW r \in R, Rank(R, q) = Rank(R, r) PROVE q = r
  <2>1. Rank(R, q) \in Nat /\ Rank(R, r) \in Nat
    BY <1>1, <1>5
  <2>2. ~(q.seq < r.seq) /\ ~(r.seq < q.seq)
    BY <1>4, <1>6, <2>1
  <2>3. q.seq = r.seq
    BY <1>2, <2>2
  <2>. QED  BY <2>3 DEF Apart
<1>7. f \in Injection(R, 1..n)
  <2>1. f \in [R -> 1..n]
    BY <1>5
  <2>2. \A q, r \in DOMAIN f : f[q] = f[r] => q = r
    BY <1>6
  <2>. QED  BY <2>1, <2>2 DEF Injection, IsInjective
<1>8. IsFiniteSet(1..n) /\ Cardinality(1..n) = n
  BY <1>1, FS_Interval
<1>9. f \in Surjection(R, 1..n)
  <2>. HIDE DEF f
  <2>. QED  BY <1>7, <1>8, FS_Injection
<1>10. \A i \in 1..n : \E r \in R : Rank(R, r) = i
  BY <1>9 DEF Surjection
<1>. QED  BY <1>5, <1>6, <1>10

LEMMA OrderedType ==
  ASSUME NEW R, R \subseteq Row, IsFiniteSet(R), Apart(R)
  PROVE  /\ InSeqOrder(R) \in Seq(Row) /\ Len(InSeqOrder(R)) = Cardinality(R)
         /\ \A i \in 1..Cardinality(R) : InSeqOrder(R)[i] \in R /\ Rank(R, InSeqOrder(R)[i]) = i
<1>1. Cardinality(R) \in Nat
  BY FS_CardinalityType
<1>2. \A i \in 1..Cardinality(R) : InSeqOrder(R)[i] \in R /\ Rank(R, InSeqOrder(R)[i]) = i
  BY Ranked DEF InSeqOrder
<1>3. InSeqOrder(R) \in [1..Cardinality(R) -> Row]
  BY <1>2 DEF InSeqOrder
<1>. QED  BY <1>1, <1>2, <1>3

\* Rows that are added behind the last one are added at the end of the sequence.
LEMMA AddedBehind ==
  ASSUME NEW R, NEW T, R \subseteq T, T \subseteq Row, IsFiniteSet(T), Apart(T),
         \A r \in R, q \in T \ R : r.seq < q.seq
  PROVE  Log!IsPrefix(InSeqOrder(R), InSeqOrder(T))
<1>. DEFINE a == InSeqOrder(R)
            b == InSeqOrder(T)
            n == Cardinality(R)
<1>1. R \subseteq Row /\ IsFiniteSet(R) /\ Apart(R) /\ n <= Cardinality(T)
  BY FS_Subset DEF Apart
<1>2. n \in Nat /\ Cardinality(T) \in Nat
  BY <1>1, FS_CardinalityType
<1>3. \A r \in R : Rank(T, r) = Rank(R, r)
  <2>1. ASSUME NEW r \in R PROVE {q \in T : q.seq <= r.seq} = {q \in R : q.seq <= r.seq}
    BY DEF Row
  <2>. QED  BY <2>1 DEF Rank
<1>4. /\ a \in Seq(Row) /\ Len(a) = n
      /\ \A i \in 1..n : a[i] \in R /\ Rank(R, a[i]) = i
  BY <1>1, OrderedType
<1>5. /\ b \in Seq(Row) /\ Len(b) = Cardinality(T)
      /\ \A i \in 1..Cardinality(T) : b[i] \in T /\ Rank(T, b[i]) = i
  BY OrderedType
<1>. HIDE DEF a, b, n
<1>6. \A i \in 1..n : a[i] = b[i]
  BY <1>1, <1>2, <1>3, <1>4, <1>5, Ranked
<1>7. SubSeq(a, 1, n) = a
  BY <1>4, SubSeqFull
<1>8. \A i \in 1..n : b[i] \in Row
  BY <1>1, <1>2, <1>5
<1>9. SubSeq(b, 1, n) \in Seq(Row) /\ Len(SubSeq(b, 1, n)) = n /\ \A i \in 1..n : SubSeq(b, 1, n)[i] = b[i]
  BY <1>2, <1>8, SubSeqProperties
<1>10. SubSeq(b, 1, n) = a
  BY <1>4, <1>6, <1>9, SeqEqual
<1>. QED  BY <1>1, <1>4, <1>5, <1>7, <1>10 DEF Log!IsPrefix, a, b

LEMMA RowsInit == Init => RowsInv
  BY FS_EmptySet DEF Init, RowsInv, Apart

\* An event is inserted with a seq beyond all there are.
LEMMA RowsStep == IInv /\ RowsInv /\ [Next]_vars => RowsInv'
<1>. SUFFICES ASSUME IInv, RowsInv, [Next]_vars PROVE RowsInv'
  OBVIOUS
<1>1. CASE rows' = rows
  BY <1>1 DEF RowsInv, Apart
<1>2. ASSUME NEW t \in Txns, Insert(t) PROVE RowsInv'
  <2>. DEFINE x == [seq |-> nextSeq, scope |-> target[t], prev |-> head[t], by |-> t]
  <2>1. rows' = rows \cup {x} /\ x.seq = nextSeq
    BY <1>2 DEF Insert
  <2>2. \A r \in rows : r.seq \in Nat /\ r.seq < nextSeq
    BY DEF IInv, EventTypeOK, ChainInv, Row
  <2>3. nextSeq \in Nat
    BY DEF IInv, EventTypeOK
  <2>. HIDE DEF x
  <2>4. IsFiniteSet(rows')
    BY <2>1, FS_AddElement DEF RowsInv
  <2>5. Apart(rows')
    BY <2>1, <2>2, <2>3 DEF RowsInv, Apart
  <2>. QED  BY <2>4, <2>5 DEF RowsInv
<1>3. ASSUME NEW t \in Txns, Abort(t) PROVE RowsInv'
  <2>1. rows' \in SUBSET rows
    BY <1>3 DEF Abort
  <2>. QED  BY <2>1, FS_Subset DEF RowsInv, Apart
<1>. QED  BY <1>1, <1>2, <1>3 DEF Next, Begin, Call, Lock, ReadHead, Commit, BreakDeadlock, vars

\* A step adds committed events to a scope behind those there are, or none: a commit
\* publishes those of the scopes it has locked, and they lie behind the committed ones.
LEMMA CommittedGrow ==
  ASSUME IInv, [Next]_vars, NEW s \in ChainedScopes
  PROVE  /\ Committed(s) \subseteq Committed(s)'
         /\ \A r \in Committed(s), q \in Committed(s)' \ Committed(s) : r.seq < q.seq
<1>1. \A r \in rows : r.seq \in Nat /\ r.by \in Txns /\ r.scope \in ChainedScopes
  BY DEF IInv, EventTypeOK, Row
<1>2. CASE UNCHANGED vars
  BY <1>2 DEF vars, Committed
<1>3. ASSUME NEW t \in Txns,
             Begin(t) \/ (\E x \in ChainedScopes : Call(t, x)) \/ Lock(t) \/ ReadHead(t)
      PROVE  Committed(s)' = Committed(s)
  BY <1>1, <1>3 DEF IInv, EventTypeOK, Begin, Call, Lock, ReadHead, Committed
<1>4. ASSUME NEW t \in Txns, Insert(t) PROVE Committed(s)' = Committed(s)
  <2>1. state[t] = "running" /\ state' = state
    BY <1>4, ScopeNames DEF IInv, EventTypeOK, ChainInv, Insert
  <2>. QED  BY <1>4, <2>1 DEF Insert, Committed
<1>5. ASSUME NEW t \in Txns, Abort(t) PROVE Committed(s)' = Committed(s)
  BY <1>1, <1>5 DEF IInv, EventTypeOK, Abort, Committed
<1>6. ASSUME NEW t \in Txns, Commit(t)
      PROVE  /\ Committed(s) \subseteq Committed(s)'
             /\ \A r \in Committed(s), q \in Committed(s)' \ Committed(s) : r.seq < q.seq
  <2>1. /\ rows' = rows /\ state[t] = "running"
        /\ \A u \in Txns : state'[u] = IF u = t THEN "committed" ELSE state[u]
    BY <1>6 DEF Commit, IInv, EventTypeOK
  <2>2. Committed(s) \subseteq Committed(s)'
    BY <1>1, <2>1 DEF Committed
  <2>3. ASSUME NEW r \in Committed(s), NEW q \in Committed(s)', q \notin Committed(s) PROVE r.seq < q.seq
    <3>1. q \in rows /\ r \in rows /\ q.scope = s /\ r.scope = s /\ q.by = t /\ r.by # t
      BY <1>1, <2>1, <2>3 DEF Committed
    <3>. QED  BY <2>1, <3>1 DEF IInv, ChainInv
  <2>. QED  BY <2>2, <2>3
<1>7. CASE \E t \in Txns : Commit(t)
  BY <1>6, <1>7
<1>8. CASE \E t \in Txns : Begin(t) \/ (\E x \in ChainedScopes : Call(t, x)) \/ Lock(t) \/ ReadHead(t)
                          \/ Insert(t) \/ Abort(t)
  BY <1>3, <1>4, <1>5, <1>8
<1>. QED  BY <1>2, <1>7, <1>8 DEF Next, BreakDeadlock

LEMMA PartFits ==
  ASSUME NEW V, V \subseteq Row, IsFiniteSet(V), Apart(V), NEW C \in SUBSET V
  PROVE  C \subseteq Row /\ IsFiniteSet(C) /\ Apart(C)
  BY FS_Subset DEF Apart

\* At the start, every history is empty.
LEMMA LogInit == Init => Log!Init
<1>. SUFFICES ASSUME Init PROVE Log!Init
  OBVIOUS
<1>1. \A s \in ChainedScopes : Committed(s) = {}
  BY DEF Init, Committed
<1>2. Cardinality({}) = 0
  BY FS_EmptySet
<1>3. \A s \in ChainedScopes : History(s) = <<>>
  BY <1>1, <1>2 DEF History, InSeqOrder
<1>. QED  BY <1>3 DEF Log!Init

\* Every step extends the log, or leaves it as it is.
LEMMA LogStep ==
  IInv /\ IInv' /\ RowsInv /\ RowsInv' /\ [Next]_vars => Log!Extend
<1>. SUFFICES ASSUME IInv, IInv', RowsInv, RowsInv', [Next]_vars PROVE Log!Extend
  OBVIOUS
<1>1. rows' \subseteq Row /\ IsFiniteSet(rows') /\ Apart(rows')
  BY DEF IInv, EventTypeOK, RowsInv, Apart, Row
<1>2. ASSUME NEW s \in ChainedScopes
      PROVE  History(s)' \in Seq(Row) /\ Log!IsPrefix(History(s), History(s)')
  <2>. DEFINE C == Committed(s)'
  <2>1. C \in SUBSET rows'
    BY DEF Committed
  <2>. HIDE DEF C
  <2>2. C \subseteq Row /\ IsFiniteSet(C) /\ Apart(C)
    BY <1>1, <2>1, PartFits
  <2>3. /\ Committed(s) \subseteq C
        /\ \A r \in Committed(s), q \in C \ Committed(s) : r.seq < q.seq
    BY CommittedGrow DEF C
  <2>4. InSeqOrder(C) \in Seq(Row)
    BY <2>2, OrderedType
  <2>5. Log!IsPrefix(InSeqOrder(Committed(s)), InSeqOrder(C))
    BY <2>2, <2>3, AddedBehind
  <2>6. History(s)' = InSeqOrder(C)
    BY DEF History, C, InSeqOrder, Rank
  <2>. QED  BY <2>4, <2>5, <2>6 DEF History
<1>. QED  BY <1>2 DEF Log!Extend

\* The event table implements the auditor's log: whatever transactions interleave, wait,
\* deadlock or roll back, the history of every scope only grows at its end.
THEOREM ChainImplementsLog == Spec => ImplementsAuditLog
<1>1. Init => Log!Init
  BY LogInit
<1>2. IInv /\ IInv' /\ RowsInv /\ RowsInv' /\ [Next]_vars => [Log!Extend]_[s \in ChainedScopes |-> History(s)]
  BY LogStep
<1>3. Spec => []RowsInv
  BY RowsInit, RowsStep, ChainInductive, PTL DEF Spec
<1>. QED  BY <1>1, <1>2, <1>3, ChainInductive, PTL DEF Spec, ImplementsAuditLog, Log!Spec
=============================================================================
