------------------------------ MODULE Lifecycle ------------------------------
(***************************************************************************)
(* The rules of lifecycle.py: when a contradiction is held, when a staged  *)
(* memory is promoted, what counts as independent evidence.  They read the *)
(* tables and decide; the handlers of the other modules apply them.        *)
(***************************************************************************)
EXTENDS MemoryStore

CONSTANTS
  FloorAge          \* age class from which promote_floor_days has passed

ASSUME FloorAssumption == FloorAge \in 0..MaxAge

\* Mutant: a staged challenger is compared by trust alone.
MustHold_StagedWins(status, trust, old) ==
  old.status = "invariant" \/ (old.status = "active" /\ trust < old.trust)

\* Mutant: invariants are treated like any active memory.
MustHold_InvariantOpen(status, trust, old) ==
  old.status = "active" /\ (status = "staged" \/ trust < old.trust)

\* TRUE when a contradiction waits for review instead of superseding.
MustHold(status, trust, old) ==
  \/ old.status = "invariant"
  \/ old.status = "active" /\ (status = "staged" \/ trust < old.trust)

\* An open contradiction_queue item names m, on either side.
Contested(t, m) ==
  \/ t[m].held # NoMem
  \/ t[m].doubts > 0
  \/ \E c \in Mem : t[c].held = m

Earned(row) ==
  row.reobserved \/ row.useful >= PromoteUseful \/ row.confirmed

\* No source author is a member: the memory waits out the staging floor.
FloorApplies(row) ==
  /\ row.origin = "agent_observed"
  /\ \A e \in row.evidence : Author[e] \notin Members

\* Mutant: the staging floor is not consulted.
PromotionDue_NoFloor(t, m) ==
  t[m].status = "staged" /\ ~Contested(t, m) /\ Earned(t[m])

\* Mutant: the floor never ends for a memory that reached its last day.
PromotionDue_OffByOne(t, m) ==
  /\ t[m].status = "staged"
  /\ ~Contested(t, m)
  /\ Earned(t[m])
  /\ (~t[m].confirmed /\ FloorApplies(t[m])) => t[m].age > FloorAge

PromotionDue(t, m) ==
  /\ t[m].status = "staged"
  /\ ~Contested(t, m)
  /\ Earned(t[m])
  /\ (~t[m].confirmed /\ FloorApplies(t[m])) => t[m].age >= FloorAge

\* Some new episode has an author, or a day, the memory's evidence lacks.
Independent(t, m, eps) ==
  \E e \in eps : \/ \A k \in t[m].evidence : Author[k] # Author[e]
                 \/ \A k \in t[m].evidence : Day[k] # Day[e]

\* The micro-run of status promotion after a reinforcement.
MaybePromote(t, m) == IF PromotionDue(t, m) THEN Promote(t, m) ELSE t
=============================================================================
