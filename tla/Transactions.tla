----------------------------- MODULE Transactions -----------------------------
(***************************************************************************)
(* Handlers as transactions, statement by statement: remember, the two     *)
(* answers to an ask to remember, and put_policy; reinforcement, triage,   *)
(* nightly promotion and erasure of a staged memory.  Isolation is READ    *)
(* COMMITTED: a statement sees what is committed when it runs and what its *)
(* own transaction wrote; an UPDATE waits for the row, and then updates    *)
(* the row as it is by then; an INSERT waits for a transaction that holds  *)
(* the same key.  The memory tables have no key on content: that one fact  *)
(* is stored once in a scope is up to the order of the statements.         *)
(***************************************************************************)
EXTENDS Integers, FiniteSets

CONSTANTS
  Sessions,      \* connections, each of which serves one request
  HashedScopes,  \* scopes whose events are chained: to append is to lock
  Requests,      \* what may be asked for
  Asked,         \* text and scope of the open ask to remember
  MemoryScope    \* the scope of the staged memory

OnMemory == {"use", "triage", "nightly", "forget"}

ASSUME RequestAssumption ==
  Requests \subseteq [do : {"approve", "decline", "put"} \cup OnMemory]
                     \cup [do : {"remember"}, text : STRING, scope : STRING]

VARIABLES
  job,       \* the request a session serves
  at,        \* how far it has got
  seen,      \* what its last SELECT found
  notes,     \* memories that sessions insert, committed or not
  table,     \* what is committed of the ask (its answer) and the memory (its status)
  draft,     \* what an open transaction has written of either, with its session
  versions,  \* policies of one slot, committed or not
  latches    \* advisory locks on scopes

txVars == <<job, at, seen, notes, table, draft, versions, latches>>

NoJob == [do |-> "nothing"]
NoDraft == [by |-> "nobody", says |-> "nothing"]
ASSUME SessionAssumption == NoDraft.by \notin Sessions
Final == {"committed", "aborted"}
Existing == {"ask", "memory"}

TxInit ==
  /\ job = [s \in Sessions |-> NoJob]
  /\ at = [s \in Sessions |-> "idle"]
  /\ seen = [s \in Sessions |-> 0]
  /\ notes = {} /\ versions = {}
  /\ table = [ask |-> "open", memory |-> "staged"]
  /\ draft = [r \in Existing |-> NoDraft]
  /\ latches = [s \in Sessions |-> {}]

Done(s) == at[s] = "committed"

\* What a statement of s sees: of a table that grows, and of a row.
Seen(s, rows_) == {r \in rows_ : Done(r.by) \/ r.by = s}

Latest(s, r) == IF draft[r].by = s THEN draft[r].says ELSE table[r]

\* The memory a session stores, and the scope it logs its events in.
About(s) == IF job[s].do = "remember" THEN [text |-> job[s].text, scope |-> job[s].scope] ELSE Asked

Logs(s) == IF job[s].do \in OnMemory THEN MemoryScope ELSE About(s).scope

-----------------------------------------------------------------------------
(* Waiting.                                                                *)

At(s, does, place) == job[s].do \in does /\ at[s] = place

\* The next statement of s appends an event; policies belong to the org, whose events
\* are not chained.
Appends(s) ==
  \/ At(s, {"remember"}, "started")
  \/ At(s, {"use", "triage"}, "touched")
  \/ At(s, {"forget"}, "read")
  \/ at[s] = "stored" /\ job[s].do # "put"

\* The row that the next statement of s updates.
Updates(s) ==
  IF At(s, {"approve", "decline"}, "read") THEN {"ask"}
  ELSE IF At(s, {"use", "triage", "nightly"}, "read") \/ At(s, {"forget"}, "announced") THEN {"memory"}
  ELSE {}

\* Versions with the number that s is about to insert.
Same(s) == IF At(s, {"put"}, "read") THEN {v \in versions : v.number = seen[s] + 1} ELSE {}

\* o has what the next statement of s needs, until o ends.
HoldsUp(o, s) ==
  /\ o # s
  /\ \/ Appends(s) /\ Logs(s) \in latches[o]
     \/ \E r \in Updates(s) : draft[r].by = o
     \/ \E v \in Same(s) : v.by = o /\ ~Done(o)

Free(s) == \A o \in Sessions : ~HoldsUp(o, s)

Goes(s, from, to) == at[s] = from /\ at' = [at EXCEPT ![s] = to]

Start(s, r) ==
  /\ Goes(s, "idle", "started")
  /\ job' = [job EXCEPT ![s] = r]
  /\ UNCHANGED <<seen, notes, table, draft, versions, latches>>

\* Appending an event of a chained scope takes its lock, which the transaction keeps.
AppendEvent(s) ==
  /\ Free(s)
  /\ latches' = [latches EXCEPT ![s] = @ \cup ({Logs(s)} \cap HashedScopes)]
  /\ UNCHANGED <<job, seen, notes, table, draft, versions>>

Write(s, r, value) ==
  /\ Free(s)
  /\ draft' = [draft EXCEPT ![r] = [by |-> s, says |-> value]]
  /\ UNCHANGED <<job, seen, notes, table, versions, latches>>

-----------------------------------------------------------------------------
(* remember: POLICY_DECISION, then the check for a duplicate, then the row. *)

\* Mutant: the decision is logged after everything else.
Decide_Later(s) ==
  /\ job[s].do = "remember"
  /\ Goes(s, "started", "decided")
  /\ UNCHANGED <<job, seen, notes, table, draft, versions, latches>>

Decide(s) ==
  /\ job[s].do = "remember"
  /\ Goes(s, "started", "decided")
  /\ AppendEvent(s)

\* _find_duplicate; an approved ask looks once it is answered.
Look(s) ==
  /\ \/ job[s].do = "remember" /\ Goes(s, "decided", "looked")
     \/ job[s].do = "approve" /\ Goes(s, "answered", "looked")
  /\ seen' = [seen EXCEPT ![s] = Cardinality({n \in Seen(s, notes) :
                n.text = About(s).text /\ n.scope = About(s).scope})]
  /\ UNCHANGED <<job, notes, table, draft, versions, latches>>

\* A duplicate is reinforced; there is no row to add then.
Store(s) ==
  /\ Goes(s, "looked", "stored")
  /\ notes' = IF seen[s] > 0 THEN notes
              ELSE notes \cup {[text |-> About(s).text, scope |-> About(s).scope, by |-> s]}
  /\ UNCHANGED <<job, seen, table, draft, versions, latches>>

-----------------------------------------------------------------------------
(* confirm_pending.                                                        *)

\* An ask that is resolved raises.
ReadAsk(s) ==
  /\ job[s].do \in {"approve", "decline"}
  /\ Goes(s, "started", IF table["ask"] = "open" THEN "read" ELSE "aborted")
  /\ UNCHANGED <<job, seen, notes, table, draft, versions, latches>>

\* Mutant: the UPDATE comes last, so nobody waits for the row.
Answer_Unordered(s) ==
  /\ job[s].do \in {"approve", "decline"}
  /\ Goes(s, "read", IF job[s].do = "approve" THEN "answered" ELSE "stored")
  /\ UNCHANGED <<job, seen, notes, table, draft, versions, latches>>

\* The row is updated by its id, whatever has been answered since it was read.
Answer(s) ==
  /\ job[s].do \in {"approve", "decline"}
  /\ Goes(s, "read", IF job[s].do = "approve" THEN "answered" ELSE "stored")
  /\ Write(s, "ask", job[s].do)

-----------------------------------------------------------------------------
(* put_policy.                                                             *)

ReadVersion(s) ==
  /\ job[s].do = "put"
  /\ Goes(s, "started", "read")
  /\ seen' = [seen EXCEPT ![s] = Cardinality(Seen(s, versions))]
  /\ UNCHANGED <<job, notes, table, draft, versions, latches>>

\* Mutant: nothing but the reader's arithmetic keeps versions apart.
AddVersion_Keyless(s) ==
  /\ job[s].do = "put"
  /\ Goes(s, "read", "stored")
  /\ versions' = versions \cup {[number |-> seen[s] + 1, by |-> s]}
  /\ UNCHANGED <<job, seen, notes, table, draft, latches>>

\* The primary key: wait for whoever holds the number; fail if it is taken.
AddVersion(s) ==
  /\ job[s].do = "put" /\ Free(s)
  /\ \/ /\ Same(s) = {}
        /\ Goes(s, "read", "stored")
        /\ versions' = versions \cup {[number |-> seen[s] + 1, by |-> s]}
     \/ /\ Same(s) # {}
        /\ Goes(s, "read", "aborted")
        /\ UNCHANGED versions
  /\ UNCHANGED <<job, seen, notes, table, draft, latches>>

-----------------------------------------------------------------------------
(* reinforce, review_staged (confirm), promote_staged, forget (tombstone). *)

\* Each refuses a memory in the wrong status; the job passes over it.
ReadMemory(s) ==
  /\ job[s].do \in OnMemory
  /\ LET right == IF job[s].do \in {"triage", "nightly"} THEN {"staged"} ELSE {"staged", "active"}
     IN  Goes(s, "started", IF table["memory"] \in right THEN "read" ELSE "aborted")
  /\ UNCHANGED <<job, seen, notes, table, draft, versions, latches>>

\* The strength goes up: the row is locked from here on.
Strengthen(s) ==
  /\ job[s].do \in {"use", "triage"}
  /\ Goes(s, "read", "touched")
  /\ Write(s, "memory", table["memory"])

\* REINFORCE or CONFIRM; and the POLICY_DECISION and FORGET that precede an erasure.
Announce(s) ==
  /\ \/ job[s].do \in {"use", "triage"} /\ Goes(s, "touched", "announced")
     \/ job[s].do = "forget" /\ Goes(s, "read", "announced")
  /\ AppendEvent(s)

\* Mutant: the micro-run takes the memory as the handler has read it.
MaybePromote_Stale(s) ==
  /\ job[s].do = "use" /\ Goes(s, "announced", "stored")
  /\ Write(s, "memory", "active")

\* _maybe_promote reads the memory again; it may or may not be due.
MaybePromote(s) ==
  /\ job[s].do = "use" /\ Goes(s, "announced", "stored")
  /\ \E due \in BOOLEAN :
       Write(s, "memory", IF due /\ Latest(s, "memory") = "staged" THEN "active"
                          ELSE Latest(s, "memory"))

\* _promote as triage and the nightly job call it, and _tombstone: whatever the status
\* of the row has become since it was read. resolve_contradiction promotes a staged
\* challenger by the same statements as triage.
SetStatus(s) ==
  \/ /\ job[s].do = "triage" /\ Goes(s, "announced", "stored")
     /\ Write(s, "memory", "active")
  \/ /\ job[s].do = "nightly" /\ Goes(s, "read", "stored")
     /\ Write(s, "memory", "active")
  \/ /\ job[s].do = "forget" /\ Goes(s, "announced", "stored")
     /\ Write(s, "memory", "tombstoned")

-----------------------------------------------------------------------------
(* The end of a transaction.                                               *)

\* PROPOSE and CONFIRM, REJECT, PROMOTE_STATUS, TOMBSTONE, or POLICY_CHANGE.
LogOutcome(s) ==
  /\ Goes(s, "stored", "logged")
  /\ IF job[s].do = "put" THEN UNCHANGED <<job, seen, notes, table, draft, versions, latches>>
     ELSE AppendEvent(s)

Undrafted(s) == [r \in Existing |-> IF draft[r].by = s THEN NoDraft ELSE draft[r]]

\* Mutant: advisory locks of the session, not of the transaction.
CommitAll_Latched(s) ==
  /\ Goes(s, "logged", "committed")
  /\ table' = [r \in Existing |-> Latest(s, r)]
  /\ draft' = Undrafted(s)
  /\ UNCHANGED <<job, seen, notes, versions, latches>>

CommitAll(s) ==
  /\ Goes(s, "logged", "committed")
  /\ table' = [r \in Existing |-> Latest(s, r)]
  /\ draft' = Undrafted(s)
  /\ latches' = [latches EXCEPT ![s] = {}]
  /\ UNCHANGED <<job, seen, notes, versions>>

\* A handler that raises, or a connection that is lost.
Rollback(s) ==
  /\ at[s] \notin Final \cup {"idle"}
  /\ at' = [at EXCEPT ![s] = "aborted"]
  /\ notes' = {n \in notes : n.by # s}
  /\ versions' = {v \in versions : v.by # s}
  /\ draft' = Undrafted(s)
  /\ latches' = [latches EXCEPT ![s] = {}]
  /\ UNCHANGED <<job, seen, table>>

\* A use takes the row before the lock of the scope, an erasure the lock before the
\* row: PostgreSQL ends such a circle at one of those in it.
EndDeadlock(s) ==
  /\ \E S \in SUBSET Sessions : s \in S /\ \A u \in S : \E o \in S : HoldsUp(o, u)
  /\ Rollback(s)

Proceed(s) ==
  \/ Decide(s) \/ Look(s) \/ Store(s)
  \/ ReadAsk(s) \/ Answer(s)
  \/ ReadVersion(s) \/ AddVersion(s)
  \/ ReadMemory(s) \/ Strengthen(s) \/ Announce(s) \/ MaybePromote(s) \/ SetStatus(s)
  \/ LogOutcome(s) \/ CommitAll(s)

TxNext ==
  \E s \in Sessions :
    (\E r \in Requests : Start(s, r)) \/ Proceed(s) \/ Rollback(s) \/ EndDeadlock(s)

TxSpec == TxInit /\ [][TxNext]_txVars

\* A handler that need not wait goes on to its end, and the database looks for
\* deadlocks.
TxFairness == \A s \in Sessions : WF_txVars(Proceed(s)) /\ WF_txVars(EndDeadlock(s))

-----------------------------------------------------------------------------
(* Properties.                                                             *)

Kept == {n \in notes : Done(n.by)}

\* In a chained scope one fact is stored once: the lock of the POLICY_DECISION event
\* precedes the check for duplicates, so no remember checks while another may still
\* insert (remember, events.append). Only an approved ask, which checks before it
\* logs anything, may add a second.
TwinsNeedAnAnswer ==
  \A n, m \in Kept :
    n # m /\ n.scope = m.scope /\ n.text = m.text /\ n.scope \in HashedScopes
    => "approve" \in {job[n.by].do, job[m.by].do}

\* An ask answered twice is stored once, although both answers find it open: the
\* second waits for the row, and by then finds the first one's memory (confirm_pending).
StoredOnce == Cardinality({n \in Kept : job[n.by].do = "approve"}) <= 1

\* The versions of a policy are numbered without gap or double, whoever stores them at
\* once and whichever of them fails (put_policy).
VersionsUnbroken ==
  LET stored == {v \in versions : Done(v.by)}
  IN  {v.number : v \in stored} = 1..Cardinality(stored)

\* An erased memory comes back by no use of it, however use and erasure interleave:
\* the micro-run reads the row again, under the lock its own UPDATE took (reinforce,
\* _maybe_promote). Triage and the nightly job, which write what they decided on an
\* earlier reading, do not come under this.
UseNeverRevives ==
  [][table["memory"] = "tombstoned" /\ table'["memory"] # "tombstoned" =>
       \E s \in Sessions : ~Done(s) /\ Done(s)' /\ job[s].do \in {"triage", "nightly"}]_txVars

\* What is erased stays erased (docs/03-lifecycle.md:35: "content gone, marker remains",
\* retrievable "Never"), however the handlers overlap. It does not: the nightly
\* promotion and triage decide on a row as they read it, and write its status by id.
MarkerRemains ==
  [][table["memory"] = "tombstoned" => table'["memory"] = "tombstoned"]_txVars

\* Every request comes to an end: those that wait for each other, for locks and rows
\* that they take in different orders, are told apart by the database.
SessionsEnd == \A s \in Sessions : at[s] = "started" ~> at[s] \in Final
=============================================================================
