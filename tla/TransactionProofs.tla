-------------------------- MODULE TransactionProofs --------------------------
(***************************************************************************)
(* Proofs about the handlers' transactions, for any number of sessions and *)
(* any requests: where events are chained, two handlers that remember the  *)
(* same fact do not both store it; an ask is enacted once, however many    *)
(* answers find it open; the versions of a policy are numbered without gap *)
(* or double; and no use of an erased memory brings it back.               *)
(***************************************************************************)
EXTENDS Transactions, FiniteSetTheorems, TLAPS

Past == {"stored", "logged", "committed"}

Types ==
  /\ job = [s \in Sessions |-> job[s]]
  /\ at = [s \in Sessions |-> at[s]]
  /\ seen = [s \in Sessions |-> seen[s]]
  /\ draft = [r \in Existing |-> draft[r]]
  /\ latches \in [Sessions -> SUBSET HashedScopes]
  /\ IsFiniteSet(notes)
  /\ \A s \in Sessions : at[s] = "looked" => job[s].do \in {"remember", "approve"}

\* A scope is locked by one session.
OneLatch == \A s, o \in Sessions : s # o => latches[s] \cap latches[o] = {}

\* A note is in the words of the session that stored it, which has passed the check.
NotesFit ==
  \A n \in notes : /\ n.by \in Sessions /\ at[n.by] \in Past
                   /\ job[n.by].do \in {"remember", "approve"}
                   /\ n = [text |-> About(n.by).text, scope |-> About(n.by).scope, by |-> n.by]

\* From its POLICY_DECISION to its end, remember holds the lock of its scope.
RememberLocks ==
  \A s \in Sessions :
    /\ job[s].do = "remember" /\ About(s).scope \in HashedScopes
    /\ at[s] \in {"decided", "looked", "stored", "logged"}
    => About(s).scope \in latches[s]

Same_(n, s) == n.text = About(s).text /\ n.scope = About(s).scope

\* So when it has looked and found nothing, no other remember has stored its words.
LookedHolds ==
  \A s \in Sessions :
    /\ job[s].do = "remember" /\ About(s).scope \in HashedScopes
    /\ at[s] = "looked" /\ ~(seen[s] > 0)
    => \A n \in notes : Same_(n, s) => job[n.by].do = "approve"

\* No two remembers have stored the same, committed or not.
NoTwoRemembers ==
  \A n, m \in notes :
    n # m /\ n.scope = m.scope /\ n.text = m.text /\ n.scope \in HashedScopes
    => "approve" \in {job[n.by].do, job[m.by].do}

\* An approval holds the row of the ask from its UPDATE to its end.
Deciding == {"answered", "looked", "stored", "logged"}

ApprovalHolds ==
  \A s \in Sessions : job[s].do = "approve" /\ at[s] \in Deciding => draft["ask"].by = s

\* So when it has looked and found nothing, no other approval has stored anything.
ApprovalFirst ==
  \A s \in Sessions :
    job[s].do = "approve" /\ at[s] = "looked" /\ ~(seen[s] > 0)
    => \A n \in notes : job[n.by].do # "approve"

OneApproved ==
  \A n, m \in notes : job[n.by].do = "approve" /\ job[m.by].do = "approve" => n = m

TInv ==
  /\ Types /\ OneLatch /\ NotesFit
  /\ RememberLocks /\ LookedHolds /\ NoTwoRemembers
  /\ ApprovalHolds /\ ApprovalFirst /\ OneApproved

\* It holds at the start, where nobody has done anything.
LEMMA TInit == TxInit => TInv
  <1> SUFFICES ASSUME TxInit PROVE TInv
    OBVIOUS
  <1>1. Types
    BY FS_EmptySet DEF TxInit, Types
  <1>2. OneLatch
    BY DEF TxInit, OneLatch
  <1>3. NotesFit /\ NoTwoRemembers /\ OneApproved
    BY DEF TxInit, NotesFit, NoTwoRemembers, OneApproved
  <1>4. RememberLocks /\ LookedHolds /\ ApprovalHolds /\ ApprovalFirst
    BY DEF TxInit, RememberLocks, LookedHolds, ApprovalHolds, ApprovalFirst, NoJob
  <1> QED BY <1>1, <1>2, <1>3, <1>4 DEF TInv

-----------------------------------------------------------------------------
(* Steps that store nothing.                                               *)

\* s takes the lock of the scope it logs in, if it has one.
Grows(s) ==
  /\ latches' = [latches EXCEPT ![s] = @ \cup ({Logs(s)} \cap HashedScopes)]
  /\ \A o \in Sessions \ {s} : Logs(s) \notin latches[o]

LockKeeps(s) == latches' = latches \/ Grows(s)

\* Appending an event adds at most a lock that nobody else has.
LEMMA AppendGrows ==
  ASSUME TInv, NEW s \in Sessions, AppendEvent(s), Appends(s)
  PROVE  LockKeeps(s)
  <1>1. CASE Logs(s) \in HashedScopes
    BY <1>1 DEF AppendEvent, Grows, Free, HoldsUp, LockKeeps
  <1>2. CASE Logs(s) \notin HashedScopes
    <2>1. {Logs(s)} \cap HashedScopes = {}
      BY <1>2
    <2>2. latches' = [latches EXCEPT ![s] = latches[s]]
      BY <2>1 DEF AppendEvent
    <2> QED BY <2>2 DEF TInv, Types, LockKeeps
  <1> QED BY <1>1, <1>2

\* The locks stay apart, and none is given up.
LEMMA GrowsKeeps ==
  ASSUME TInv, NEW s \in Sessions, LockKeeps(s)
  PROVE  /\ latches' \in [Sessions -> SUBSET HashedScopes]
         /\ OneLatch'
         /\ \A o \in Sessions : latches[o] \subseteq latches'[o]
  BY DEF TInv, Types, OneLatch, Grows, LockKeeps

\* The others keep what they have written.
DraftKeeps(s) ==
  /\ draft' = [r \in Existing |-> draft'[r]]
  /\ \A o \in Sessions \ {s} : draft["ask"].by = o => draft'["ask"].by = o

\* s goes on without storing anything, and gives up neither a lock nor a row.
LEMMA QuietKeeps ==
  ASSUME TInv, NEW s \in Sessions, NEW from, NEW to,
         at[s] = from, at' = [at EXCEPT ![s] = to],
         UNCHANGED <<job, notes>>,
         LockKeeps(s), DraftKeeps(s),
         seen' = [o \in Sessions |-> seen'[o]], \A o \in Sessions \ {s} : seen'[o] = seen[o],
         from \in Past => to \in Past, to # "looked",
         job[s].do = "remember" /\ About(s).scope \in HashedScopes
           /\ to \in {"decided", "looked", "stored", "logged"}
         => About(s).scope \in latches'[s],
         job[s].do = "approve" /\ to \in Deciding => draft'["ask"].by = s
  PROVE  TInv'
  <1>1. /\ latches' \in [Sessions -> SUBSET HashedScopes] /\ OneLatch'
        /\ \A o \in Sessions : latches[o] \subseteq latches'[o]
    BY GrowsKeeps
  <1>2. /\ \A o \in Sessions \ {s} : at'[o] = at[o]
        /\ at'[s] = to /\ at' = [o \in Sessions |-> at'[o]]
    BY DEF TInv, Types
  <1>3. \A o : About(o)' = About(o)
    BY DEF About
  <1>4. Types'
    BY <1>1, <1>2 DEF TInv, Types, DraftKeeps
  <1>5. NotesFit'
    BY <1>2, <1>3 DEF TInv, NotesFit
  <1>6. RememberLocks'
    BY <1>1, <1>2, <1>3 DEF TInv, RememberLocks
  <1>7. LookedHolds'
    BY <1>2, <1>3 DEF TInv, LookedHolds, Same_
  <1>8. NoTwoRemembers' /\ OneApproved'
    BY DEF TInv, NoTwoRemembers, OneApproved
  <1>9. ApprovalHolds' /\ ApprovalFirst'
    BY <1>2 DEF TInv, ApprovalHolds, ApprovalFirst, DraftKeeps
  <1> QED BY <1>1, <1>4, <1>5, <1>6, <1>7, <1>8, <1>9 DEF TInv

\* A write to the row of the memory leaves the row of the ask alone.
LEMMA MemoryKeepsAsk ==
  ASSUME TInv, NEW s \in Sessions, NEW value, Write(s, "memory", value)
  PROVE  DraftKeeps(s) /\ draft'["ask"] = draft["ask"]
  BY DEF Write, TInv, Types, DraftKeeps, Existing

\* To log the decision is to take the lock.
LEMMA DecideKeeps ==
  ASSUME TInv, NEW s \in Sessions, Decide(s)
  PROVE  TInv'
  <1>1. LockKeeps(s)
    BY AppendGrows DEF Decide, Goes, Appends, At
  <1>2. About(s).scope \in HashedScopes => About(s).scope \in latches'[s]
    BY DEF Decide, AppendEvent, Logs, OnMemory, TInv, Types
  <1>3. DraftKeeps(s) /\ UNCHANGED <<job, notes, seen>> /\ seen = [o \in Sessions |-> seen[o]]
    BY DEF Decide, AppendEvent, TInv, Types, DraftKeeps
  <1> QED BY <1>1, <1>2, <1>3, QuietKeeps DEF Decide, Goes, Past, Deciding

\* To answer is to take the row of the ask, which nobody else holds then.
LEMMA AskKeeps ==
  ASSUME TInv, NEW s \in Sessions, ReadAsk(s) \/ Answer(s)
  PROVE  TInv'
  <1>1. CASE ReadAsk(s)
    BY <1>1, QuietKeeps DEF ReadAsk, Goes, Past, Deciding, LockKeeps, DraftKeeps, TInv, Types
  <1>2. CASE Answer(s)
    <2>1. \A o \in Sessions \ {s} : draft["ask"].by # o
      BY <1>2 DEF Answer, Goes, Write, Free, HoldsUp, Updates, At
    <2>2. /\ draft'["ask"].by = s /\ draft' = [r \in Existing |-> draft'[r]]
          /\ UNCHANGED <<job, notes, seen, latches>> /\ seen = [o \in Sessions |-> seen[o]]
      BY <1>2 DEF Answer, Write, TInv, Types, Existing
    <2>3. DraftKeeps(s) /\ LockKeeps(s)
      BY <2>1, <2>2 DEF DraftKeeps, LockKeeps
    <2> QED BY <1>2, <2>2, <2>3, QuietKeeps DEF Answer, Goes, Past
  <1> QED BY <1>1, <1>2

\* Storing a policy touches neither.
LEMMA PolicyKeeps ==
  ASSUME TInv, NEW s \in Sessions, ReadVersion(s) \/ AddVersion(s)
  PROVE  TInv'
  <1>1. /\ LockKeeps(s) /\ DraftKeeps(s) /\ UNCHANGED <<job, notes>>
        /\ job[s].do = "put" /\ at[s] \in {"started", "read"}
        /\ seen' = [o \in Sessions |-> seen'[o]] /\ \A o \in Sessions \ {s} : seen'[o] = seen[o]
    BY DEF ReadVersion, AddVersion, Goes, LockKeeps, DraftKeeps, TInv, Types
  <1>2. \E to \in {"read", "stored", "aborted"} : at' = [at EXCEPT ![s] = to]
    BY DEF ReadVersion, AddVersion, Goes
  <1>3. PICK to \in {"read", "stored", "aborted"} : at' = [at EXCEPT ![s] = to]
    BY <1>2
  <1> QED BY <1>1, <1>3, QuietKeeps DEF Past

\* Nor does what is done to the staged memory, the lock of its events apart.
LEMMA MemoryKeeps ==
  ASSUME TInv, NEW s \in Sessions,
         ReadMemory(s) \/ Strengthen(s) \/ Announce(s) \/ MaybePromote(s) \/ SetStatus(s)
  PROVE  TInv'
  <1>1. /\ job[s].do \in OnMemory /\ at[s] \notin Past
        /\ UNCHANGED <<job, notes, seen>> /\ seen = [o \in Sessions |-> seen[o]]
    BY DEF ReadMemory, Strengthen, Announce, MaybePromote, SetStatus, Goes, Past, OnMemory,
           AppendEvent, Write, TInv, Types
  <1>2. DraftKeeps(s)
    BY MemoryKeepsAsk
       DEF ReadMemory, Strengthen, Announce, MaybePromote, SetStatus, AppendEvent, DraftKeeps, TInv, Types
  <1>3. LockKeeps(s)
    BY AppendGrows
       DEF ReadMemory, Strengthen, Announce, MaybePromote, SetStatus, Write, LockKeeps, Goes, Appends, At
  <1>4. \E to \in {"read", "aborted", "touched", "announced", "stored"} : at' = [at EXCEPT ![s] = to]
    BY DEF ReadMemory, Strengthen, Announce, MaybePromote, SetStatus, Goes
  <1>5. PICK to \in {"read", "aborted", "touched", "announced", "stored"} : at' = [at EXCEPT ![s] = to]
    BY <1>4
  <1> QED BY <1>1, <1>2, <1>3, <1>5, QuietKeeps DEF OnMemory

\* The outcome is logged under what is held already.
LEMMA LogKeeps ==
  ASSUME TInv, NEW s \in Sessions, LogOutcome(s)
  PROVE  TInv'
  <1>1. /\ at[s] = "stored" /\ at' = [at EXCEPT ![s] = "logged"]
        /\ UNCHANGED <<job, notes, seen, draft>> /\ seen = [o \in Sessions |-> seen[o]]
    BY DEF LogOutcome, Goes, AppendEvent, TInv, Types
  <1>2. LockKeeps(s)
    BY <1>1, AppendGrows DEF LogOutcome, LockKeeps, Appends
  <1>3. DraftKeeps(s)
    BY <1>1 DEF DraftKeeps, TInv, Types
  <1>4. job[s].do = "remember" /\ About(s).scope \in HashedScopes => About(s).scope \in latches'[s]
    BY <1>1, <1>2, GrowsKeeps DEF TInv, RememberLocks
  <1>5. job[s].do = "approve" => draft'["ask"].by = s
    BY <1>1 DEF TInv, ApprovalHolds, Deciding
  <1> QED BY <1>1, <1>2, <1>3, <1>4, <1>5, QuietKeeps DEF Past

-----------------------------------------------------------------------------
(* Steps that find, store, commit and roll back.                           *)

\* A session that has not begun has stored nothing.
LEMMA StartKeeps ==
  ASSUME TInv, NEW s \in Sessions, NEW r, Start(s, r)
  PROVE  TInv'
  <1>1. /\ at[s] = "idle" /\ at'[s] = "started" /\ at' = [o \in Sessions |-> at'[o]]
        /\ job' = [o \in Sessions |-> job'[o]]
        /\ \A o \in Sessions \ {s} : at'[o] = at[o] /\ job'[o] = job[o]
        /\ UNCHANGED <<seen, notes, draft, latches>>
    BY DEF Start, Goes, TInv, Types
  <1>2. \A o \in Sessions \ {s} : About(o)' = About(o)
    BY <1>1 DEF About
  <1>3. \A n \in notes : n.by \in Sessions \ {s}
    BY <1>1 DEF TInv, NotesFit, Past
  <1>4. Types' /\ OneLatch'
    BY <1>1 DEF TInv, Types, OneLatch
  <1>5. NotesFit'
    BY <1>1, <1>2, <1>3 DEF TInv, NotesFit
  <1>6. RememberLocks'
    BY <1>1, <1>2 DEF TInv, RememberLocks
  <1>7. LookedHolds'
    BY <1>1, <1>2, <1>3 DEF TInv, LookedHolds, Same_
  <1>8. NoTwoRemembers' /\ OneApproved'
    BY <1>1, <1>3 DEF TInv, NoTwoRemembers, OneApproved
  <1>9. ApprovalHolds' /\ ApprovalFirst'
    BY <1>1, <1>3 DEF TInv, ApprovalHolds, ApprovalFirst, Deciding
  <1> QED BY <1>4, <1>5, <1>6, <1>7, <1>8, <1>9 DEF TInv

\* What the check does not find is not there, or is not committed.
LEMMA LookFinds ==
  ASSUME TInv, NEW s \in Sessions, Look(s), ~(seen'[s] > 0),
         NEW n \in notes, Same_(n, s)
  PROVE  n.by # s /\ at[n.by] \in {"stored", "logged"}
  <1> DEFINE found == {m \in Seen(s, notes) : m.text = About(s).text /\ m.scope = About(s).scope}
  <1>1. IsFiniteSet(found)
    BY FS_Subset DEF TInv, Types, Seen
  <1>2. seen'[s] = Cardinality(found)
    BY DEF Look, TInv, Types
  <1>3. Cardinality(found) \in Nat /\ (Cardinality(found) = 0 <=> found = {})
    BY <1>1, FS_CardinalityType, FS_EmptySet
  <1>4. found = {}
    BY <1>2, <1>3
  <1>5. n \notin Seen(s, notes)
    BY <1>4 DEF Same_
  <1> QED BY <1>5 DEF Seen, Done, TInv, NotesFit, Past

\* Whoever has stored without committing holds the lock, or the row: so nobody has.
LEMMA LookKeeps ==
  ASSUME TInv, NEW s \in Sessions, Look(s)
  PROVE  TInv'
  <1>1. /\ at' = [at EXCEPT ![s] = "looked"] /\ at'[s] = "looked" /\ at' = [o \in Sessions |-> at'[o]]
        /\ \A o \in Sessions \ {s} : at'[o] = at[o] /\ seen'[o] = seen[o]
        /\ seen' = [o \in Sessions |-> seen'[o]]
        /\ UNCHANGED <<job, notes, draft, latches>>
        /\ \/ job[s].do = "remember" /\ at[s] = "decided"
           \/ job[s].do = "approve" /\ at[s] = "answered"
    BY DEF Look, Goes, TInv, Types
  <1>2. \A o : About(o)' = About(o)
    BY <1>1 DEF About
  <1>3. \A o : \A n : Same_(n, o)' <=> Same_(n, o)
    BY <1>2 DEF Same_
  <1>4. Types' /\ OneLatch' /\ NoTwoRemembers' /\ OneApproved'
    BY <1>1 DEF TInv, Types, OneLatch, NoTwoRemembers, OneApproved
  <1>5. NotesFit'
    BY <1>1, <1>2 DEF TInv, NotesFit, Past
  <1>6. RememberLocks'
    BY <1>1, <1>2 DEF TInv, RememberLocks
  <1>7. LookedHolds'
    <2> SUFFICES ASSUME NEW o \in Sessions,
                        job[o].do = "remember", About(o).scope \in HashedScopes,
                        at'[o] = "looked", ~(seen'[o] > 0),
                        NEW n \in notes, Same_(n, o), job[n.by].do # "approve"
                 PROVE  FALSE
      BY <1>1, <1>2, <1>3 DEF LookedHolds
    <2>1. CASE o # s
      BY <2>1, <1>1 DEF TInv, LookedHolds
    <2>2. CASE o = s
      <3>1. n.by # s /\ at[n.by] \in {"stored", "logged"}
        BY <2>2, LookFinds
      <3>2. n.by \in Sessions /\ job[n.by].do = "remember" /\ About(n.by).scope = About(s).scope
        BY <2>2 DEF TInv, NotesFit, Same_
      <3>3. About(s).scope \in latches[n.by] /\ About(s).scope \in latches[s]
        BY <3>1, <3>2, <2>2, <1>1 DEF TInv, RememberLocks
      <3> QED BY <3>1, <3>2, <3>3 DEF TInv, OneLatch
    <2> QED BY <2>1, <2>2
  <1>8. ApprovalHolds'
    BY <1>1 DEF TInv, ApprovalHolds, Deciding
  <1>9. ApprovalFirst'
    <2> SUFFICES ASSUME NEW o \in Sessions, job[o].do = "approve",
                        at'[o] = "looked", ~(seen'[o] > 0),
                        NEW n \in notes, job[n.by].do = "approve"
                 PROVE  FALSE
      BY <1>1 DEF ApprovalFirst
    <2>1. CASE o # s
      BY <2>1, <1>1 DEF TInv, ApprovalFirst
    <2>2. CASE o = s
      <3>1. n.by \in Sessions /\ Same_(n, s)
        BY <2>2 DEF TInv, NotesFit, Same_, About
      <3>2. n.by # s /\ at[n.by] \in {"stored", "logged"}
        BY <2>2, <3>1, LookFinds
      <3>3. draft["ask"].by = n.by /\ draft["ask"].by = s
        BY <3>1, <3>2, <2>2, <1>1 DEF TInv, ApprovalHolds, Deciding
      <3> QED BY <3>2, <3>3
    <2> QED BY <2>1, <2>2
  <1> QED BY <1>4, <1>5, <1>6, <1>7, <1>8, <1>9 DEF TInv

\* Whoever stores has found nothing and holds the lock, or the row of the ask.
LEMMA StoreKeeps ==
  ASSUME TInv, NEW s \in Sessions, Store(s)
  PROVE  TInv'
  <1> DEFINE new == [text |-> About(s).text, scope |-> About(s).scope, by |-> s]
  <1>1. /\ at[s] = "looked" /\ at'[s] = "stored" /\ at' = [o \in Sessions |-> at'[o]]
        /\ \A o \in Sessions \ {s} : at'[o] = at[o]
        /\ UNCHANGED <<job, seen, draft, latches>>
        /\ job[s].do \in {"remember", "approve"}
    BY DEF Store, Goes, TInv, Types
  <1>2. notes' = notes \/ (~(seen[s] > 0) /\ notes' = notes \cup {new})
    BY DEF Store
  <1>3. \A o : About(o)' = About(o)
    BY <1>1 DEF About
  <1>4. IsFiniteSet(notes')
    <2>1. IsFiniteSet(notes)
      BY DEF TInv, Types
    <2>2. IsFiniteSet(notes \cup {new})
      BY <2>1, FS_AddElement
    <2> QED BY <1>2, <2>1, <2>2
  <1>5. Types' /\ OneLatch'
    BY <1>1, <1>4 DEF TInv, Types, OneLatch
  <1>6. NotesFit'
    BY <1>1, <1>2, <1>3 DEF TInv, NotesFit, Past
  <1>7. RememberLocks'
    BY <1>1, <1>3 DEF TInv, RememberLocks
  <1>8. LookedHolds'
    <2> SUFFICES ASSUME NEW o \in Sessions,
                        job[o].do = "remember", About(o).scope \in HashedScopes,
                        at'[o] = "looked", ~(seen[o] > 0),
                        NEW n \in notes', Same_(n, o), job[n.by].do # "approve"
                 PROVE  FALSE
      BY <1>1, <1>3 DEF LookedHolds, Same_
    <2>1. o # s /\ at[o] = "looked"
      BY <1>1
    <2>2. CASE n \in notes
      BY <2>1, <2>2 DEF TInv, LookedHolds
    <2>3. CASE n = new
      <3>1. job[s].do = "remember" /\ About(s).scope = About(o).scope
        BY <2>3, <1>1 DEF Same_
      <3>2. About(o).scope \in latches[s] /\ About(o).scope \in latches[o]
        BY <3>1, <2>1, <1>1 DEF TInv, RememberLocks
      <3> QED BY <3>2, <2>1 DEF TInv, OneLatch
    <2> QED BY <1>2, <2>2, <2>3
  <1>9. NoTwoRemembers'
    <2>1. ASSUME NEW n \in notes, ~(seen[s] > 0), n.scope = new.scope, n.text = new.text,
                 new.scope \in HashedScopes, job[s].do = "remember"
          PROVE  job[n.by].do = "approve"
      BY <2>1, <1>1 DEF TInv, LookedHolds, Same_
    <2> QED BY <1>1, <1>2, <2>1 DEF TInv, NoTwoRemembers
  <1>10. ApprovalHolds'
    BY <1>1 DEF TInv, ApprovalHolds, Deciding
  <1>11. ApprovalFirst'
    <2> SUFFICES ASSUME NEW o \in Sessions, job[o].do = "approve",
                        at'[o] = "looked", ~(seen[o] > 0),
                        NEW n \in notes', job[n.by].do = "approve"
                 PROVE  FALSE
      BY <1>1 DEF ApprovalFirst
    <2>1. o # s /\ at[o] = "looked"
      BY <1>1
    <2>2. CASE n \in notes
      BY <2>1, <2>2 DEF TInv, ApprovalFirst
    <2>3. CASE n = new
      BY <2>1, <2>3, <1>1 DEF TInv, ApprovalHolds, Deciding
    <2> QED BY <1>2, <2>2, <2>3
  <1>12. OneApproved'
    BY <1>1, <1>2 DEF TInv, OneApproved, ApprovalFirst
  <1> QED BY <1>5, <1>6, <1>7, <1>8, <1>9, <1>10, <1>11, <1>12 DEF TInv

\* The end gives up locks and rows, and only an abort takes notes away.
LEMMA EndKeeps ==
  ASSUME TInv, NEW s \in Sessions, CommitAll(s) \/ Rollback(s)
  PROVE  TInv'
  <1>1. /\ at' = [o \in Sessions |-> at'[o]] /\ \A o \in Sessions \ {s} : at'[o] = at[o]
        /\ UNCHANGED <<job, seen>>
        /\ latches' = [latches EXCEPT ![s] = {}]
        /\ \/ at'[s] = "committed" /\ notes' = notes
           \/ at'[s] = "aborted" /\ notes' = {n \in notes : n.by # s}
    BY DEF CommitAll, Rollback, Goes, TInv, Types
  <1>2. \A o : About(o)' = About(o)
    BY <1>1 DEF About
  <1>3. DraftKeeps(s)
    BY DEF CommitAll, Rollback, Undrafted, DraftKeeps, Existing
  <1>4. notes' \subseteq notes /\ IsFiniteSet(notes')
    BY <1>1, FS_Subset DEF TInv, Types
  <1>5. Types' /\ OneLatch'
    BY <1>1, <1>3, <1>4 DEF TInv, Types, OneLatch, DraftKeeps
  <1>6. NotesFit'
    BY <1>1, <1>2 DEF TInv, NotesFit, Past
  <1>7. RememberLocks'
    BY <1>1, <1>2 DEF TInv, Types, RememberLocks
  <1>8. LookedHolds'
    BY <1>1, <1>2, <1>4 DEF TInv, LookedHolds, Same_
  <1>9. NoTwoRemembers' /\ OneApproved'
    BY <1>1, <1>4 DEF TInv, NoTwoRemembers, OneApproved
  <1>10. ApprovalHolds' /\ ApprovalFirst'
    BY <1>1, <1>3, <1>4 DEF TInv, ApprovalHolds, ApprovalFirst, Deciding, DraftKeeps
  <1> QED BY <1>5, <1>6, <1>7, <1>8, <1>9, <1>10 DEF TInv

-----------------------------------------------------------------------------

\* The invariant holds in every state of the handlers' transactions.
THEOREM TransactionsInductive == TxSpec => []TInv
  <1>1. TInv /\ [TxNext]_txVars => TInv'
    <2> SUFFICES ASSUME TInv, [TxNext]_txVars PROVE TInv'
      OBVIOUS
    <2>1. CASE UNCHANGED txVars
      BY <2>1 DEF txVars, TInv, Types, OneLatch, NotesFit, RememberLocks, LookedHolds, Same_,
                  NoTwoRemembers, ApprovalHolds, ApprovalFirst, OneApproved, About
    <2>2. CASE TxNext
      BY <2>2, StartKeeps, DecideKeeps, AskKeeps, PolicyKeeps, MemoryKeeps, LogKeeps,
         LookKeeps, StoreKeeps, EndKeeps
         DEF TxNext, Proceed, EndDeadlock
    <2> QED BY <2>1, <2>2
  <1> QED BY TInit, <1>1, PTL DEF TxSpec

\* However many handlers remember the same fact of a chained scope at once, it is stored
\* once, unless an approved ask is among them.
THEOREM TwinsAlwaysNeedAnAnswer == TxSpec => []TwinsNeedAnAnswer
  <1>1. TInv => TwinsNeedAnAnswer
    BY DEF TInv, NoTwoRemembers, TwinsNeedAnAnswer, Kept
  <1> QED BY TransactionsInductive, <1>1, PTL

\* However many answers find an ask open, what it asks to remember is stored once.
THEOREM AlwaysStoredOnce == TxSpec => []StoredOnce
  <1>1. ASSUME TInv PROVE StoredOnce
    <2> DEFINE approved == {n \in Kept : job[n.by].do = "approve"}
    <2>1. CASE approved = {}
      BY <2>1, FS_EmptySet DEF StoredOnce
    <2>2. CASE approved # {}
      <3>1. PICK n \in approved : TRUE
        BY <2>2
      <3>2. approved = {n}
        BY <3>1, <1>1 DEF TInv, OneApproved, Kept
      <3>3. Cardinality(approved) = 1
        BY <3>2, FS_Singleton
      <3> QED BY <3>3 DEF StoredOnce
    <2> QED BY <2>1, <2>2
  <1> QED BY TransactionsInductive, <1>1, PTL

-----------------------------------------------------------------------------
(* Versions of a policy.                                                   *)

Numbered == {v \in versions : Done(v.by)}

\* A version is stored by a session that puts a policy.
VersionsFit ==
  /\ IsFiniteSet(versions)
  /\ \A v \in versions : /\ v.by \in Sessions /\ job[v.by].do = "put" /\ at[v.by] \in Past
                         /\ v.number \in Nat

NumbersApart == \A v, w \in versions : v.number = w.number => v = w

\* What is not committed yet has the number that follows what is.
NextInLine == \A v \in versions : ~Done(v.by) => v.number = Cardinality(Numbered) + 1

\* What a session has counted may be too little by now, never too much.
CountedPast ==
  \A s \in Sessions : job[s].do = "put" /\ at[s] = "read" => seen[s] \in 0..Cardinality(Numbered)

VInv == VersionsFit /\ NumbersApart /\ NextInLine /\ CountedPast /\ VersionsUnbroken

LEMMA NumberedCounts == VInv => IsFiniteSet(Numbered) /\ Cardinality(Numbered) \in Nat
  <1> SUFFICES ASSUME VInv PROVE IsFiniteSet(Numbered) /\ Cardinality(Numbered) \in Nat
    OBVIOUS
  <1>1. IsFiniteSet(Numbered)
    BY FS_Subset DEF VInv, VersionsFit, Numbered
  <1> QED BY <1>1, FS_CardinalityType

LEMMA VInit == TxInit => VInv
  <1> SUFFICES ASSUME TxInit PROVE VInv
    OBVIOUS
  <1>1. Numbered = {} /\ {v \in versions : Done(v.by)} = {}
    BY DEF TxInit, Numbered
  <1>2. VersionsUnbroken
    BY <1>1, FS_EmptySet DEF TxInit, VersionsUnbroken
  <1> QED BY <1>2, FS_EmptySet DEF TxInit, VInv, VersionsFit, NumbersApart, NextInLine, CountedPast

\* s stores no version, commits none, and counts none.
Aside(s) ==
  /\ versions' = versions
  /\ \A o \in Sessions \ {s} : at'[o] = at[o] /\ job'[o] = job[o] /\ seen'[o] = seen[o]
  /\ at[s] \in Past => at'[s] \in Past /\ job'[s] = job[s]
  /\ Done(s)' <=> Done(s)
  /\ at'[s] = "read" => job'[s].do # "put"

LEMMA AsideKeeps == ASSUME VInv, NEW s \in Sessions, Aside(s) PROVE VInv'
  <1>1. \A v \in versions : v.by \in Sessions /\ (Done(v.by)' <=> Done(v.by))
    BY DEF VInv, VersionsFit, Aside, Done
  <1>2. Numbered' = Numbered /\ {v \in versions' : Done(v.by)'} = {v \in versions : Done(v.by)}
    BY <1>1 DEF Numbered, Aside
  <1>3. VersionsFit'
    BY DEF VInv, VersionsFit, Aside
  <1>4. NumbersApart' /\ NextInLine'
    BY <1>1, <1>2 DEF VInv, NumbersApart, NextInLine, Aside
  <1>5. CountedPast'
    BY <1>2 DEF VInv, CountedPast, Aside
  <1>6. VersionsUnbroken'
    BY <1>2 DEF VInv, VersionsUnbroken, Aside
  <1> QED BY <1>3, <1>4, <1>5, <1>6 DEF VInv

\* What a handler counts is what is committed: it has stored nothing itself.
LEMMA ReadVersionKeeps == ASSUME TInv, VInv, NEW s \in Sessions, ReadVersion(s) PROVE VInv'
  <1>1. /\ \A o \in Sessions \ {s} : at'[o] = at[o] /\ seen'[o] = seen[o]
        /\ at[s] = "started" /\ at'[s] = "read" /\ job' = job /\ versions' = versions
        /\ seen'[s] = Cardinality(Seen(s, versions))
    BY DEF ReadVersion, Goes, TInv, Types
  <1>2. \A v \in versions : v.by \in Sessions /\ v.by # s /\ (Done(v.by)' <=> Done(v.by))
    BY <1>1 DEF VInv, VersionsFit, Done, Past
  <1>3. Numbered' = Numbered /\ Seen(s, versions) = Numbered
        /\ {v \in versions' : Done(v.by)'} = {v \in versions : Done(v.by)}
    BY <1>1, <1>2 DEF Numbered, Seen
  <1>4. VersionsFit' /\ NumbersApart' /\ NextInLine'
    BY <1>1, <1>2, <1>3 DEF VInv, VersionsFit, NumbersApart, NextInLine
  <1>5. Cardinality(Numbered) \in 0..Cardinality(Numbered)
    BY NumberedCounts
  <1>6. CountedPast'
    BY <1>1, <1>3, <1>5 DEF VInv, CountedPast
  <1>7. VersionsUnbroken'
    BY <1>1, <1>3 DEF VInv, VersionsUnbroken
  <1> QED BY <1>4, <1>6, <1>7 DEF VInv

\* A number that is free is the next one: those up to it are taken, by what is committed.
LEMMA AddVersionKeeps == ASSUME TInv, VInv, NEW s \in Sessions, AddVersion(s) PROVE VInv'
  <1>1. CASE Same(s) # {}
    <2>1. Aside(s)
      BY <1>1 DEF AddVersion, Goes, Aside, TInv, Types, Past, Done
    <2> QED BY <2>1, AsideKeeps
  <1>2. CASE Same(s) = {}
    <2> DEFINE new == [number |-> seen[s] + 1, by |-> s]
    <2>1. /\ \A o \in Sessions \ {s} : at'[o] = at[o]
          /\ at[s] = "read" /\ at'[s] = "stored" /\ job' = job /\ seen' = seen
          /\ job[s].do = "put" /\ versions' = versions \cup {new}
      BY <1>2 DEF AddVersion, Goes, TInv, Types
    <2>2. seen[s] \in 0..Cardinality(Numbered) /\ Cardinality(Numbered) \in Nat
      BY <2>1, NumberedCounts DEF VInv, CountedPast
    <2>3. \A v \in versions : v.number # seen[s] + 1
      BY <1>2, <2>1 DEF Same, At
    <2>4. seen[s] + 1 \notin 1..Cardinality(Numbered)
      <3>1. seen[s] + 1 \notin {v.number : v \in {v \in versions : Done(v.by)}}
        BY <2>3
      <3> QED BY <3>1 DEF VInv, VersionsUnbroken, Numbered
    <2>5. seen[s] + 1 = Cardinality(Numbered) + 1
      BY <2>2, <2>4
    <2>6. \A v \in versions : v.by # s /\ v.by \in Sessions /\ (Done(v.by)' <=> Done(v.by))
      BY <2>1 DEF VInv, VersionsFit, Done, Past
    <2>7. ~Done(s)'
      BY <2>1 DEF Done
    <2>8. Numbered' = Numbered /\ {v \in versions' : Done(v.by)'} = {v \in versions : Done(v.by)}
      BY <2>1, <2>6, <2>7 DEF Numbered
    <2>9. IsFiniteSet(versions')
      BY <2>1, FS_AddElement DEF VInv, VersionsFit
    <2>10. VersionsFit'
      BY <2>1, <2>2, <2>6, <2>9 DEF VInv, VersionsFit, Past
    <2>11. NumbersApart'
      BY <2>1, <2>3 DEF VInv, NumbersApart
    <2>12. NextInLine'
      BY <2>1, <2>5, <2>6, <2>8 DEF VInv, NextInLine
    <2>13. CountedPast'
      BY <2>1, <2>8 DEF VInv, CountedPast
    <2>14. VersionsUnbroken'
      BY <2>8 DEF VInv, VersionsUnbroken
    <2> QED BY <2>10, <2>11, <2>12, <2>13, <2>14 DEF VInv
  <1> QED BY <1>1, <1>2

\* With the next number committed, nothing is in line any more.
LEMMA CommitVersionKeeps == ASSUME TInv, VInv, NEW s \in Sessions, CommitAll(s) PROVE VInv'
  <1>1. /\ \A o \in Sessions \ {s} : at'[o] = at[o]
        /\ at[s] = "logged" /\ at'[s] = "committed" /\ UNCHANGED <<job, seen, versions>>
    BY DEF CommitAll, Goes, TInv, Types
  <1>2. CASE \A v \in versions : v.by # s
    <2>1. \A v \in versions : v.by \in Sessions /\ (Done(v.by)' <=> Done(v.by))
      BY <1>1, <1>2 DEF VInv, VersionsFit, Done
    <2>2. Numbered' = Numbered /\ {v \in versions' : Done(v.by)'} = {v \in versions : Done(v.by)}
      BY <1>1, <2>1 DEF Numbered
    <2>3. VersionsFit' /\ NumbersApart' /\ NextInLine'
      BY <1>1, <1>2, <2>1, <2>2 DEF VInv, VersionsFit, NumbersApart, NextInLine
    <2>4. CountedPast' /\ VersionsUnbroken'
      BY <1>1, <2>2 DEF VInv, CountedPast, VersionsUnbroken
    <2> QED BY <2>3, <2>4 DEF VInv
  <1>3. CASE \E v \in versions : v.by = s
    <2>1. PICK x \in versions : x.by = s
      BY <1>3
    <2>2. ~Done(s) /\ Done(s)' /\ \A o \in Sessions \ {s} : Done(o)' <=> Done(o)
      BY <1>1 DEF Done
    <2>3. x.number = Cardinality(Numbered) + 1
      BY <2>1, <2>2 DEF VInv, NextInLine
    <2>4. \A v \in versions : v # x => v.by # s
      BY <2>1, <2>2, <2>3 DEF VInv, NextInLine, NumbersApart
    <2>5. \A v \in versions : v # x => Done(v.by)
      BY <2>1, <2>2, <2>3 DEF VInv, NextInLine, NumbersApart
    <2>6. \A v \in versions : v.by \in Sessions
      BY DEF VInv, VersionsFit
    <2>7. Numbered' = Numbered \cup {x} /\ x \notin Numbered
          /\ {v \in versions' : Done(v.by)'} = Numbered \cup {x}
      BY <1>1, <2>1, <2>2, <2>4, <2>5, <2>6 DEF Numbered
    <2>8. IsFiniteSet(Numbered) /\ Cardinality(Numbered) \in Nat
      BY NumberedCounts
    <2>9. Cardinality(Numbered \cup {x}) = Cardinality(Numbered) + 1
      BY <2>7, <2>8, FS_AddElement
    <2>10. VersionsFit' /\ NumbersApart'
      BY <1>1 DEF VInv, VersionsFit, NumbersApart, Past
    <2>11. NextInLine'
      BY <1>1, <2>1, <2>2, <2>4, <2>5, <2>6 DEF NextInLine
    <2>12. CountedPast'
      BY <1>1, <2>7, <2>8, <2>9 DEF VInv, CountedPast
    <2>13. {v.number : v \in Numbered} = 1..Cardinality(Numbered)
      BY DEF VInv, VersionsUnbroken, Numbered
    <2>14. {v.number : v \in Numbered \cup {x}} = {v.number : v \in Numbered} \cup {x.number}
      OBVIOUS
    <2>15. {v.number : v \in Numbered \cup {x}} = 1..(Cardinality(Numbered) + 1)
      BY <2>3, <2>8, <2>13, <2>14
    <2>16. VersionsUnbroken'
      BY <2>7, <2>9, <2>15 DEF VersionsUnbroken
    <2> QED BY <2>10, <2>11, <2>12, <2>16 DEF VInv
  <1> QED BY <1>2, <1>3

\* A rollback takes away what was in line, and nothing that is committed.
LEMMA RollbackVersionKeeps == ASSUME TInv, VInv, NEW s \in Sessions, Rollback(s) PROVE VInv'
  <1>1. /\ \A o \in Sessions \ {s} : at'[o] = at[o]
        /\ ~Done(s) /\ ~Done(s)' /\ at'[s] = "aborted" /\ UNCHANGED <<job, seen>>
        /\ versions' = {v \in versions : v.by # s}
    BY DEF Rollback, TInv, Types, Final, Done
  <1>2. \A v \in versions : v.by \in Sessions /\ (Done(v.by)' <=> Done(v.by))
    BY <1>1 DEF VInv, VersionsFit, Done
  <1>3. Numbered' = Numbered /\ {v \in versions' : Done(v.by)'} = {v \in versions : Done(v.by)}
    BY <1>1, <1>2 DEF Numbered
  <1>4. IsFiniteSet(versions')
    BY <1>1, FS_Subset DEF VInv, VersionsFit
  <1>5. VersionsFit'
    BY <1>1, <1>4 DEF VInv, VersionsFit
  <1>6. NumbersApart' /\ NextInLine'
    BY <1>1, <1>2, <1>3 DEF VInv, NumbersApart, NextInLine
  <1>7. CountedPast'
    BY <1>1, <1>3 DEF VInv, CountedPast
  <1>8. VersionsUnbroken'
    BY <1>3 DEF VInv, VersionsUnbroken
  <1> QED BY <1>5, <1>6, <1>7, <1>8 DEF VInv

LEMMA VStep == TInv /\ VInv /\ [TxNext]_txVars => VInv'
  <1> SUFFICES ASSUME TInv, VInv, [TxNext]_txVars PROVE VInv'
    OBVIOUS
  <1>1. CASE UNCHANGED txVars
    BY <1>1 DEF txVars, VInv, VersionsFit, NumbersApart, NextInLine, CountedPast, VersionsUnbroken, Numbered, Done
  <1>2. ASSUME NEW s \in Sessions, NEW r, Start(s, r) PROVE VInv'
    <2>1. Aside(s)
      BY <1>2 DEF Start, Goes, Aside, TInv, Types, Past, Done
    <2> QED BY <2>1, AsideKeeps
  <1>3. ASSUME NEW s \in Sessions,
               Decide(s) \/ Look(s) \/ Store(s) \/ ReadAsk(s) \/ Answer(s) \/ LogOutcome(s)
        PROVE  VInv'
    <2>1. Aside(s)
      BY <1>3 DEF Decide, Look, Store, ReadAsk, Answer, LogOutcome, AppendEvent, Write,
                  Goes, Aside, TInv, Types, Past, Done
    <2> QED BY <2>1, AsideKeeps
  <1>4. ASSUME NEW s \in Sessions,
               ReadMemory(s) \/ Strengthen(s) \/ Announce(s) \/ MaybePromote(s) \/ SetStatus(s)
        PROVE  VInv'
    <2>1. Aside(s)
      BY <1>4 DEF ReadMemory, Strengthen, Announce, MaybePromote, SetStatus, AppendEvent, Write,
                  Goes, Aside, TInv, Types, Past, Done, OnMemory
    <2> QED BY <2>1, AsideKeeps
  <1> QED BY <1>1, <1>2, <1>3, <1>4, ReadVersionKeeps, AddVersionKeeps, CommitVersionKeeps, RollbackVersionKeeps
          DEF TxNext, Proceed, EndDeadlock

\* However many handlers put a policy in one slot at once, and whichever of them fail,
\* the versions that are committed are numbered 1, 2, ... without gap or double.
THEOREM VersionsAlwaysUnbroken == TxSpec => []VersionsUnbroken
  <1>1. VInv => VersionsUnbroken
    BY DEF VInv
  <1> QED BY <1>1, TransactionsInductive, VInit, VStep, PTL DEF TxSpec

-----------------------------------------------------------------------------
(* The staged memory.                                                      *)

\* A use and a triage hold the row from their first UPDATE to their end.
RowHeld ==
  \A s \in Sessions :
    /\ job[s].do \in {"use", "triage"} /\ at[s] \in {"touched", "announced", "stored", "logged"}
    => draft["memory"].by = s

\* What is written of the row, by a use or an erasure: the first leaves it as it is, or
\* takes it out of staging; the second tombstones it.
DraftFits ==
  \A s \in Sessions :
    draft["memory"].by = s =>
      /\ job[s].do \in OnMemory \ {"forget"} \/ (job[s].do = "forget" /\ draft["memory"].says = "tombstoned")
      /\ at[s] \notin {"idle", "started"}
      /\ job[s].do = "use" => \/ draft["memory"].says = table["memory"]
                             \/ (table["memory"] = "staged" /\ draft["memory"].says = "active")

MInv == RowHeld /\ DraftFits

LEMMA MInit == TxInit => MInv
  BY SessionAssumption DEF TxInit, MInv, RowHeld, DraftFits, NoDraft, Existing, NoJob

\* s leaves the row as it is.
Leaves(s) ==
  /\ draft'["memory"] = draft["memory"] /\ table' = table
  /\ \A o \in Sessions \ {s} : at'[o] = at[o] /\ job'[o] = job[o]
  /\ at[s] = "idle" \/ job'[s] = job[s]
  /\ at'[s] # "idle"
  /\ at[s] # "idle" => at'[s] # "started"
  /\ job'[s].do \in {"use", "triage"} /\ at'[s] \in {"touched", "announced", "stored", "logged"}
     => at[s] \in {"touched", "announced", "stored", "logged"}

LEMMA LeavesKeeps == ASSUME MInv, NEW s \in Sessions, Leaves(s) PROVE MInv'
  <1>1. RowHeld'
    BY DEF MInv, RowHeld, Leaves, DraftFits
  <1>2. DraftFits'
    BY DEF MInv, DraftFits, Leaves
  <1> QED BY <1>1, <1>2 DEF MInv

\* s writes the row, which nobody else has written.
Rewrites(s, value) ==
  /\ \A o \in Sessions \ {s} : draft["memory"].by # o /\ at'[o] = at[o]
  /\ draft'["memory"] = [by |-> s, says |-> value] /\ table' = table /\ job' = job
  /\ job[s].do \in OnMemory /\ at'[s] \notin {"idle", "started"}
  /\ job[s].do = "forget" => value = "tombstoned"
  /\ job[s].do = "use" => value = table["memory"] \/ (table["memory"] = "staged" /\ value = "active")

LEMMA RewritesKeeps == ASSUME MInv, NEW s \in Sessions, NEW value, Rewrites(s, value) PROVE MInv'
  <1>1. \A o \in Sessions : draft'["memory"].by = o <=> o = s
    BY DEF Rewrites
  <1>2. RowHeld'
    BY <1>1 DEF MInv, RowHeld, Rewrites
  <1>3. DraftFits'
    BY <1>1 DEF DraftFits, Rewrites
  <1> QED BY <1>2, <1>3 DEF MInv

\* An UPDATE waits for whoever has written the row; a second one finds it its own.
LEMMA RowWritten ==
  ASSUME TInv, MInv, NEW s \in Sessions, Strengthen(s) \/ MaybePromote(s) \/ SetStatus(s)
  PROVE  \E value : Rewrites(s, value)
  <1>1. \A o \in Sessions \ {s} : at'[o] = at[o]
    BY DEF Strengthen, MaybePromote, SetStatus, Goes, TInv, Types
  <1>2. /\ job' = job /\ table' = table /\ job[s].do \in OnMemory
        /\ at'[s] \in {"touched", "stored"} /\ Free(s)
    BY DEF Strengthen, MaybePromote, SetStatus, Goes, TInv, Types, Write, OnMemory
  <1>3. \A o \in Sessions \ {s} : draft["memory"].by # o
    <2>1. CASE At(s, {"use", "triage", "nightly"}, "read") \/ At(s, {"forget"}, "announced")
      <3>1. "memory" \in Updates(s)
        BY <2>1 DEF Updates, At
      <3> QED BY <3>1, <1>2 DEF Free, HoldsUp
    <2>2. CASE job[s].do \in {"use", "triage"} /\ at[s] = "announced"
      BY <2>2 DEF MInv, RowHeld
    <2> QED BY <2>1, <2>2 DEF Strengthen, MaybePromote, SetStatus, Goes, At
  <1>4. ASSUME NEW value, Write(s, "memory", value) PROVE draft'["memory"] = [by |-> s, says |-> value]
    BY <1>4 DEF Write, TInv, Types, Existing
  <1>5. CASE Strengthen(s)
    <2>1. Rewrites(s, table["memory"])
      BY <1>1, <1>2, <1>3, <1>4, <1>5 DEF Strengthen, Rewrites
    <2> QED BY <2>1
  <1>6. CASE MaybePromote(s)
    <2>1. Latest(s, "memory") = draft["memory"].says
      BY <1>6 DEF MInv, RowHeld, Latest, MaybePromote, Goes
    <2>2. \/ draft["memory"].says = table["memory"]
          \/ table["memory"] = "staged" /\ draft["memory"].says = "active"
      BY <1>6 DEF MInv, RowHeld, DraftFits, MaybePromote, Goes
    <2>3. PICK due \in BOOLEAN :
            Write(s, "memory", IF due /\ Latest(s, "memory") = "staged" THEN "active" ELSE Latest(s, "memory"))
      BY <1>6 DEF MaybePromote
    <2> DEFINE value == IF due /\ Latest(s, "memory") = "staged" THEN "active" ELSE Latest(s, "memory")
    <2>4. value = table["memory"] \/ (table["memory"] = "staged" /\ value = "active")
      BY <2>1, <2>2
    <2>5. draft'["memory"] = [by |-> s, says |-> value]
      BY <2>3, <1>4
    <2> HIDE DEF value
    <2>6. Rewrites(s, value)
      BY <1>1, <1>2, <1>3, <1>6, <2>4, <2>5 DEF MaybePromote, Rewrites
    <2> QED BY <2>6
  <1>7. CASE SetStatus(s)
    <2>1. PICK value \in {"active", "tombstoned"} :
            Write(s, "memory", value) /\ job[s].do # "use" /\ (job[s].do = "forget" => value = "tombstoned")
      BY <1>7 DEF SetStatus
    <2>2. Rewrites(s, value)
      BY <1>1, <1>2, <1>3, <1>4, <2>1 DEF Rewrites
    <2> QED BY <2>2
  <1> QED BY <1>5, <1>6, <1>7

\* The end of s gives the row up; what others have written of it, they still may.
LEMMA GivenUp ==
  ASSUME TInv, MInv, NEW s \in Sessions, CommitAll(s) \/ Rollback(s)
  PROVE  MInv'
  <1>1. /\ \A o \in Sessions \ {s} : at'[o] = at[o]
        /\ at'[s] \in Final /\ job' = job
        /\ draft'["memory"] = IF draft["memory"].by = s THEN NoDraft ELSE draft["memory"]
        /\ draft["memory"].by # s => table'["memory"] = table["memory"]
    BY DEF CommitAll, Rollback, Undrafted, Latest, Goes, TInv, Types, Final, Existing
  <1>2. draft'["memory"].by # s
    BY <1>1, SessionAssumption
  <1>3. RowHeld'
    BY <1>1 DEF MInv, RowHeld, Final
  <1>4. DraftFits'
    BY <1>1, <1>2, SessionAssumption DEF MInv, DraftFits
  <1> QED BY <1>3, <1>4 DEF MInv

LEMMA MStep == TInv /\ MInv /\ [TxNext]_txVars => MInv'
  <1> SUFFICES ASSUME TInv, MInv, [TxNext]_txVars PROVE MInv'
    OBVIOUS
  <1>1. CASE UNCHANGED txVars
    BY <1>1 DEF txVars, MInv, RowHeld, DraftFits
  <1>2. ASSUME NEW s \in Sessions, NEW r, Start(s, r) PROVE MInv'
    <2>1. Leaves(s)
      BY <1>2 DEF Start, Goes, Leaves, TInv, Types
    <2> QED BY <2>1, LeavesKeeps
  <1>3. ASSUME NEW s \in Sessions,
               Decide(s) \/ Look(s) \/ Store(s) \/ ReadAsk(s) \/ LogOutcome(s) \/ ReadVersion(s) \/ AddVersion(s)
        PROVE  MInv'
    <2>1. Leaves(s)
      BY <1>3 DEF Decide, Look, Store, ReadAsk, LogOutcome, ReadVersion, AddVersion, AppendEvent,
                  Goes, Leaves, TInv, Types
    <2> QED BY <2>1, LeavesKeeps
  <1>4. ASSUME NEW s \in Sessions, Answer(s) \/ ReadMemory(s) \/ Announce(s) PROVE MInv'
    <2>1. Leaves(s)
      BY <1>4 DEF Answer, ReadMemory, Announce, AppendEvent, Write, Goes, Leaves, TInv, Types, Existing, OnMemory
    <2> QED BY <2>1, LeavesKeeps
  <1>5. ASSUME NEW s \in Sessions, Strengthen(s) \/ MaybePromote(s) \/ SetStatus(s) PROVE MInv'
    BY <1>5, RowWritten, RewritesKeeps
  <1> QED BY <1>1, <1>2, <1>3, <1>4, <1>5, GivenUp DEF TxNext, Proceed, EndDeadlock

\* Only who has written the row changes it by committing: an erasure tombstones it, a use
\* leaves a tombstone as it is.
LEMMA CommitRevives ==
  ASSUME TInv, MInv, NEW s \in Sessions, CommitAll(s),
         table["memory"] = "tombstoned", table'["memory"] # "tombstoned"
  PROVE  ~Done(s) /\ Done(s)' /\ job[s].do \in {"triage", "nightly"}
  <1>1. ~Done(s) /\ Done(s)'
    BY DEF CommitAll, Goes, Done, TInv, Types
  <1>2. table'["memory"] = Latest(s, "memory")
    BY DEF CommitAll, Existing
  <1>3. draft["memory"].by = s /\ draft["memory"].says # "tombstoned"
    BY <1>2 DEF Latest
  <1>4. job[s].do \in {"triage", "nightly"}
    BY <1>3 DEF MInv, DraftFits, OnMemory
  <1> QED BY <1>1, <1>4

LEMMA RevivingStep ==
  ASSUME TInv, MInv, [TxNext]_txVars, table["memory"] = "tombstoned", table'["memory"] # "tombstoned"
  PROVE  \E s \in Sessions : ~Done(s) /\ Done(s)' /\ job[s].do \in {"triage", "nightly"}
  <1>1. \E s \in Sessions : CommitAll(s)
    <2>1. table' # table
      OBVIOUS
    <2> QED BY <2>1 DEF txVars, TxNext, Start, Proceed, Decide, Look, Store, ReadAsk, Answer, ReadVersion,
          AddVersion, ReadMemory, Strengthen, Announce, MaybePromote, SetStatus, LogOutcome, Rollback,
          EndDeadlock, AppendEvent, Write
  <1> QED BY <1>1, CommitRevives

\* However uses and erasures of a memory interleave, no use brings it back: only triage
\* and the nightly job may.
THEOREM UsesNeverRevive == TxSpec => UseNeverRevives
  <1>1. TInv /\ MInv /\ [TxNext]_txVars =>
          [table["memory"] = "tombstoned" /\ table'["memory"] # "tombstoned" =>
             \E s \in Sessions : ~Done(s) /\ Done(s)' /\ job[s].do \in {"triage", "nightly"}]_txVars
    BY RevivingStep
  <1> QED BY <1>1, TransactionsInductive, MInit, MStep, PTL DEF TxSpec, UseNeverRevives
=============================================================================
