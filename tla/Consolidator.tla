---------------------------- MODULE Consolidator ----------------------------
(***************************************************************************)
(* The jobs of the consolidator, each one transaction over the whole       *)
(* store: dedupe, contradiction review, status promotion, reflection and   *)
(* the sweeps.  Time is an environment action that ages the rows.          *)
(***************************************************************************)
EXTENDS WritePath

CONSTANTS
  MinCluster,   \* setting reflection_min_cluster
  IdleAge,      \* age class from which staged_idle_archive_days has passed
  MaxDrafts,    \* bound: drafts of one reflection run
  ReviewAge     \* age class from which contradiction_archive_days has passed

ASSUME JobAssumption ==
  /\ MinCluster \in Nat \ {0} /\ MaxDrafts \in Nat
  /\ IdleAge \in 0..MaxAge /\ ReviewAge \in 0..MaxAge

\* Days pass: the rows up to k, the older ones, enter their next age class.
\* A held item is queued with its challenger, so the row's age is the item's.
Elapse ==
  /\ \E k \in Rows(mem) :
       mem' = [m \in Mem |->
                 IF m \in Rows(mem) /\ m <= k /\ mem[m].age < MaxAge
                 THEN [mem[m] EXCEPT !.age = @ + 1] ELSE mem[m]]
  /\ UNCHANGED <<asks, frozen, drafts>>

-----------------------------------------------------------------------------
(* _consolidated_insert: the successor of a set of inputs.                 *)

\* Mutant: a staged input does not stage the output.
ConsolidatedRow_Active(t, inputs, winner, s, who) ==
  [Unallocated EXCEPT
     !.status = "active", !.entered = "active", !.fact = t[winner].fact, !.scope = s,
     !.trust = MinTrust(t, inputs), !.origin = "consolidated", !.agent = who,
     !.about = UNION {t[m].about : m \in inputs}, !.from = inputs,
     !.evidence = UNION {t[m].evidence : m \in inputs}]

\* Weakest input tier, minimum input trust, the union of the provenance.
ConsolidatedRow(t, inputs, winner, s, who) ==
  LET tier == IF \E m \in inputs : t[m].status = "staged" THEN "staged" ELSE "active"
  IN  [Unallocated EXCEPT
         !.status = tier, !.entered = tier, !.fact = t[winner].fact, !.scope = s,
         !.trust = MinTrust(t, inputs), !.origin = "consolidated", !.agent = who,
         !.about = UNION {t[m].about : m \in inputs}, !.from = inputs,
         !.evidence = UNION {t[m].evidence : m \in inputs}]

-----------------------------------------------------------------------------
(* dedupe.                                                                 *)

Working(t, m) == t[m].status \in {"staged", "active"} /\ t[m].quarantine = 0

\* The duplicates of m within its scope, m included.
Group(t, m) ==
  {k \in Mem : /\ Working(t, k) /\ Working(t, m)
               /\ t[k].scope = t[m].scope /\ t[k].fact = t[m].fact}

\* The oldest row of each group of two or more.
Leaders(t) ==
  {m \in Mem : /\ \E k \in Group(t, m) : k # m
               /\ \A k \in Group(t, m) : m <= k}

\* The successor of the group led by m is inserted in the leaders' order: ids
\* within one run of the job only have to be distinct.
SuccessorOf(n, leaders, m) == n + Cardinality({k \in leaders : k < m})

\* Mutant: predecessors are archived without a link to their successor.
Merged_Unlinked(t, n) ==
  LET leaders == Leaders(t)
  IN  [m \in Mem |->
         IF \E l \in leaders : SuccessorOf(n, leaders, l) = m
         THEN LET l == CHOOSE k \in leaders : SuccessorOf(n, leaders, k) = m
              IN  ConsolidatedRow(t, Group(t, l), l, t[l].scope, Consolidator)
         ELSE IF \E l \in leaders : m \in Group(t, l)
         THEN [t[m] EXCEPT !.status = "deprecated"]
         ELSE t[m]]

\* Mutant: the oldest copy is kept beside the successor.
Merged_KeepsOldest(t, n) ==
  LET leaders == Leaders(t)
  IN  [m \in Mem |->
         IF \E l \in leaders : SuccessorOf(n, leaders, l) = m
         THEN LET l == CHOOSE k \in leaders : SuccessorOf(n, leaders, k) = m
              IN  ConsolidatedRow(t, Group(t, l), l, t[l].scope, Consolidator)
         ELSE IF \E l \in leaders : m \in Group(t, l) \ {l}
         THEN LET l == CHOOSE k \in leaders : m \in Group(t, k)
              IN  [t[m] EXCEPT !.status = "deprecated",
                               !.superBy = SuccessorOf(n, leaders, l)]
         ELSE t[m]]

Merged(t, n) ==
  LET leaders == Leaders(t)
  IN  [m \in Mem |->
         IF \E l \in leaders : SuccessorOf(n, leaders, l) = m
         THEN LET l == CHOOSE k \in leaders : SuccessorOf(n, leaders, k) = m
              IN  ConsolidatedRow(t, Group(t, l), l, t[l].scope, Consolidator)
         ELSE IF \E l \in leaders : m \in Group(t, l)
         THEN LET l == CHOOSE k \in leaders : m \in Group(t, k)
              IN  [t[m] EXCEPT !.status = "deprecated",
                               !.superBy = SuccessorOf(n, leaders, l)]
         ELSE t[m]]

Dedupe ==
  /\ Leaders(mem) # {}
  /\ \E n \in Mem :
       /\ Fresh(mem, n)
       /\ n + Cardinality(Leaders(mem)) - 1 \in Mem
       /\ mem' = Merged(mem, n)
  /\ UNCHANGED <<asks, frozen, drafts>>

-----------------------------------------------------------------------------
(* review_contradictions: past the archive timer the challenger goes, if it *)
(* is still staged, and the item is closed.  Escalation only marks the item *)
(* for the review list.                                                     *)

\* Mutant: an item whose challenger is no longer staged stays open.
ReviewContradictions_StagedOnly ==
  /\ mem' = [m \in Mem |->
               IF mem[m].held # NoMem /\ mem[m].age >= ReviewAge /\ mem[m].status = "staged"
               THEN [mem[m] EXCEPT !.held = NoMem, !.status = "archived"]
               ELSE mem[m]]
  /\ UNCHANGED <<asks, frozen, drafts>>

ReviewContradictions ==
  /\ mem' = [m \in Mem |->
               IF mem[m].held # NoMem /\ mem[m].age >= ReviewAge
               THEN [mem[m] EXCEPT !.held = NoMem,
                                   !.status = IF @ = "staged" THEN "archived" ELSE @]
               ELSE mem[m]]
  /\ UNCHANGED <<asks, frozen, drafts>>

-----------------------------------------------------------------------------
(* promote_staged.                                                         *)

\* One step, as if nothing committed between the SELECT of the staged rows and the
\* UPDATEs. Neither locks nor looks again; what that does to a row that is erased in
\* between is in Transactions (ReadMemory and SetStatus of "nightly").
PromoteStaged ==
  /\ mem' = [m \in Mem |->
               IF PromotionDue(mem, m) THEN [mem[m] EXCEPT !.status = "active"] ELSE mem[m]]
  /\ UNCHANGED <<asks, frozen, drafts>>

-----------------------------------------------------------------------------
(* reflect: clusters of related memories of one scope are distilled into     *)
(* drafts in one transaction; each draft then goes through the write         *)
(* pipeline in a transaction of its own, and may find its sources changed.   *)

\* Mutant: rows under quarantine take part.
Clusters_Quarantined(s) ==
  {S \in SUBSET {m \in Mem : mem[m].status \in {"staged", "active"} /\ mem[m].scope = s} :
     Cardinality(S) >= MinCluster}

Clusters(s) ==
  {S \in SUBSET {m \in Mem : Working(mem, m) /\ mem[m].scope = s} :
     Cardinality(S) >= MinCluster}

Distilled(s, srcs, f) ==
  [fact |-> f, scope |-> s, origin |-> "consolidated", agent |-> Consolidator,
   about |-> UNION {mem[m].about : m \in srcs}, eps |-> {}, srcs |-> srcs]

\* What a reflector may make of the store: its wording is not modelled.
Reflections ==
  UNION {{Distilled(s, srcs, f) : srcs \in Clusters(s), f \in Facts} : s \in Scopes}

Reflect ==
  /\ drafts = {}
  /\ \E run \in [1..MaxDrafts -> Reflections] : drafts' = {run[i] : i \in 1..MaxDrafts}
  /\ UNCHANGED <<mem, asks, frozen>>

\* The verdict on a draft is allow or stage ...
ProposeDraft(w, allow) ==
  /\ w \in drafts
  /\ Remembered(w, allow)
  /\ drafts' = drafts \ {w}

\* ... or deny; the rest of a run that dies is lost the same way.
DropDraft(w) ==
  /\ w \in drafts
  /\ drafts' = drafts \ {w}
  /\ UNCHANGED <<mem, asks, frozen>>

-----------------------------------------------------------------------------
(* sweep.                                                                  *)

\* Mutant: the last day of the idle period never counts.
Idle_OffByOne(row) == row.status = "staged" /\ ~row.used /\ row.age > IdleAge

Idle(row) == row.status = "staged" /\ ~row.used /\ row.age >= IdleAge

\* faded: retention below the threshold; expired: expires_at reached; hard: the
\* category demands deletion at expiry; lapsed: past the history window.
\* A faded row is first proposed for archiving, and archived by a later run.
Swept(row, faded, expired, hard, lapsed) ==
  LET idle    == IF Idle(row) THEN [row EXCEPT !.status = "archived"] ELSE row
      decayed == IF idle.status = "active" /\ faded
                 THEN IF row.proposed THEN [idle EXCEPT !.status = "archived"]
                                      ELSE [idle EXCEPT !.proposed = TRUE]
                 ELSE idle
      ended   == IF IsLive(decayed) /\ expired
                 THEN IF hard THEN [decayed EXCEPT !.status = "tombstoned", !.fact = Blank]
                              ELSE [decayed EXCEPT !.status = "archived"]
                 ELSE decayed
  IN  IF row.status = "deprecated" /\ lapsed THEN [ended EXCEPT !.status = "archived"]
      ELSE ended

Sweep(faded, expired, hard, lapsed) ==
  /\ mem' = [m \in Mem |->
               Swept(mem[m], m \in faded, m \in expired, m \in hard, m \in lapsed)]
  /\ UNCHANGED <<asks, frozen, drafts>>

-----------------------------------------------------------------------------
(* hygiene.                                                                *)

\* A newer classifier found blockers in the live rows of blocked, which get a
\* quarantine item; what a tombstone left behind is wiped. The anomaly flags
\* are review events only.
Hygiene(blocked) ==
  /\ \A m \in blocked : IsLive(mem[m]) /\ mem[m].quarantine < MaxQuarantine
  /\ mem' = [m \in Mem |->
               IF m \in blocked THEN [mem[m] EXCEPT !.quarantine = @ + 1]
               ELSE IF mem[m].status = "tombstoned" THEN [mem[m] EXCEPT !.fact = Blank]
               ELSE mem[m]]
  /\ UNCHANGED <<asks, frozen, drafts>>
=============================================================================
