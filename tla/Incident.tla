------------------------------ MODULE Incident ------------------------------
(***************************************************************************)
(* Incident response and hard forgetting across the derivation graph:      *)
(* lineage quarantine, its review, and the erasure of a subject.           *)
(***************************************************************************)
EXTENDS Consolidator

\* Rows a source predicate names: by the author of an episode behind them ...
LearnedFrom(t, a) == {m \in Rows(t) : \E e \in t[m].evidence : Author[e] = a}

\* ... or by the agent that wrote them.
WrittenBy(t, a) == {m \in Rows(t) : t[m].agent = a}

\* Mutant: what derives from the seeds is left alone.
Quarantined_SeedsOnly(t, seeds) ==
  [m \in Mem |-> IF m \in seeds /\ t[m].status \in Live \cup {"deprecated"}
                 THEN [t[m] EXCEPT !.quarantine = @ + 1] ELSE t[m]]

\* One open item for every row of the closure that is live or deprecated.
Quarantined(t, seeds) ==
  LET closure == DerivedClosure(t, seeds)
  IN  [m \in Mem |-> IF m \in closure /\ t[m].status \in Live \cup {"deprecated"}
                     THEN [t[m] EXCEPT !.quarantine = @ + 1] ELSE t[m]]

Quarantine(seeds) ==
  /\ \A m \in Mem : mem[m].quarantine < MaxQuarantine
  /\ mem' = Quarantined(mem, seeds)
  /\ UNCHANGED <<asks, frozen, drafts>>

\* resolve_quarantine closes the item of one request.
RestoreItem(m) ==
  /\ mem[m].quarantine > 0
  /\ mem' = [mem EXCEPT ![m].quarantine = @ - 1]
  /\ UNCHANGED <<asks, frozen, drafts>>

TombstoneItem(m) ==
  /\ mem[m].quarantine > 0
  /\ mem' = [Tombstone(mem, m) EXCEPT ![m].quarantine = @ - 1]
  /\ UNCHANGED <<asks, frozen, drafts>>

-----------------------------------------------------------------------------
(* erasure.run.                                                            *)

About(t, u) == {m \in Rows(t) : u \in t[m].about} \cup LearnedFrom(t, u)

\* Mutant: an input that is erased itself still counts.
Survivors_All(t, closure, m) == {s \in t[m].from : t[s].status # "tombstoned"}

\* Inputs of a consolidated row that the erasure does not reach.
Survivors(t, closure, m) == {s \in t[m].from \ closure : t[s].status # "tombstoned"}

\* Live consolidated rows that are generated again from what remains.
Regenerated(t, closure) ==
  {m \in closure : /\ t[m].origin = "consolidated"
                   /\ IsLive(t[m])
                   /\ Survivors(t, closure, m) # {}}

Erased(t, n, closure, winner) ==
  LET again == Regenerated(t, closure)
  IN  [m \in Mem |->
         IF \E r \in again : SuccessorOf(n, again, r) = m
         THEN LET r == CHOOSE k \in again : SuccessorOf(n, again, k) = m
              IN  ConsolidatedRow(t, Survivors(t, closure, r), winner[r], t[r].scope, Person)
         ELSE IF m \in closure
         THEN [t[m] EXCEPT !.status = "tombstoned", !.fact = Blank]
         ELSE t[m]]

\* The strongest survivor gives the content; strength is not modelled, so any may.
EraseSubject(u) ==
  LET closure == DerivedClosure(mem, About(mem, u))
      again   == Regenerated(mem, closure)
  IN  /\ \E n \in 1..MaxMem + 1 :
           /\ Fresh(mem, n)
           /\ n + Cardinality(again) - 1 \in 0..MaxMem
           /\ \E winner \in [again -> Mem] :
                /\ \A r \in again : winner[r] \in Survivors(mem, closure, r)
                /\ mem' = Erased(mem, n, closure, winner)
      /\ UNCHANGED <<asks, frozen, drafts>>
=============================================================================
