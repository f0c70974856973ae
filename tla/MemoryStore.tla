----------------------------- MODULE MemoryStore -----------------------------
(***************************************************************************)
(* The tables every part of the service reads and writes, as one function  *)
(* from memory ids to rows, and the row updates the handlers are built     *)
(* from.  A handler is one database transaction: its updates are composed  *)
(* here as operators from table to table, so that a later step of a        *)
(* handler reads what an earlier one wrote.                                *)
(*                                                                         *)
(* A row joins what the schema keeps in several tables under one           *)
(* memory_id: memories, memory_provenance, memory_derivations, the events  *)
(* the rules count, and the open queue and quarantine items on it.         *)
(***************************************************************************)
EXTENDS Integers, FiniteSets, Sequences

CONSTANTS
  MaxMem,        \* bound: rows ever inserted
  MaxDoubts,     \* bound: open 'wrong' items on one row
  MaxQuarantine, \* bound: open quarantine items on one row
  MaxAge,        \* the oldest age class a row reaches
  Facts,         \* what a memory can say (content up to normalization)
  Blank,         \* the empty content of an erased row
  Scopes,
  Chain,         \* [Scopes -> Seq(Scopes)]: resolve_chain, narrowest first
  Conflicts,     \* pairs of facts the judge calls a contradiction
  Episodes,
  Author,        \* [Episodes -> author]
  Day,           \* [Episodes -> day]
  SourceKind,    \* [Episodes -> source_kind]
  Members,       \* authors who are members of the scopes involved
  Directive,     \* the episode an explicit ask registers for itself
  Agents,
  Users,
  PromoteUseful  \* setting promote_useful_retrievals

VARIABLES
  mem,           \* the rows, joined by memory_id
  asks,          \* pending_actions
  frozen,        \* agents with an unreleased agent_freezes row
  drafts         \* what a reflection run distilled and has not proposed yet

vars == <<mem, asks, frozen, drafts>>

Mem == 1..MaxMem
NoMem == 0

\* Who writes: an agent, the consolidator, or a person with their own hands.
Consolidator == "system:consolidator"
Person == "person"
Writers == Agents \cup {Consolidator, Person}

ASSUME BoundAssumption ==
  /\ MaxMem \in Nat \ {0}
  /\ MaxDoubts \in Nat /\ MaxQuarantine \in Nat /\ MaxAge \in Nat
  /\ PromoteUseful \in Nat \ {0}

ASSUME FactAssumption == Blank \notin Facts /\ Facts # {}

ASSUME ScopeAssumption == Scopes # {}

ASSUME EpisodeAssumption == Directive \in Episodes

Live == {"staged", "active", "invariant"}
Statuses == Live \cup {"none", "deprecated", "archived", "tombstoned"}
Origins ==
  {"explicit_user_ask", "llm_inferred", "agent_observed", "consolidated", "imported"}
TrustLevels == {25, 35, 40, 45, 50, 60, 90}

Row ==
  [status     : Statuses,             \* "none": the id is not allocated yet
   entered    : Statuses,             \* status at insertion
   fact       : Facts \cup {Blank},
   scope      : Scopes,
   trust      : TrustLevels,          \* trust_score in hundredths
   origin     : Origins,
   agent      : Writers,
   about      : SUBSET Users,         \* subject_ids
   closed     : BOOLEAN,              \* invalid_at IS NOT NULL
   superBy    : 0..MaxMem,            \* superseded_by
   from       : SUBSET Mem,           \* memory -> memory derivations
   evidence   : SUBSET Episodes,      \* memory -> episode derivations
   useful     : 0..PromoteUseful,     \* REINFORCE useful events, saturating
   reobserved : BOOLEAN,              \* a REINFORCE re_observation event exists
   confirmed  : BOOLEAN,              \* a CONFIRM event exists
   used       : BOOLEAN,              \* access_count > 0 or any of those events
   proposed   : BOOLEAN,              \* a PROPOSE archive event exists
   held       : 0..MaxMem,            \* open queue item: the row it contradicts
   doubts     : 0..MaxDoubts,         \* open queue items with no challenger
   quarantine : 0..MaxQuarantine,     \* open quarantine items
   age        : 0..MaxAge]            \* class of now - recorded_at

Unallocated ==
  [status |-> "none", entered |-> "none", fact |-> Blank,
   scope |-> CHOOSE s \in Scopes : TRUE, trust |-> 50, origin |-> "imported",
   agent |-> Consolidator, about |-> {}, closed |-> FALSE, superBy |-> NoMem,
   from |-> {}, evidence |-> {}, useful |-> 0, reobserved |-> FALSE,
   confirmed |-> FALSE, used |-> FALSE, proposed |-> FALSE, held |-> NoMem,
   doubts |-> 0, quarantine |-> 0, age |-> 0]

Rows(t) == {m \in Mem : t[m].status # "none"}

\* n is the id the next INSERT receives; ids are handed out in recorded_at order.
Fresh(t, n) == \A m \in Mem : (t[m].status = "none") <=> (m >= n)

IsLive(row) == row.status \in Live

-----------------------------------------------------------------------------
(* Row updates: the private helpers of MemoryService.                      *)

Promote(t, m) == [t EXCEPT ![m].status = "active"]

\* Mutant: a status the schema does not know.
Archive_Rejected(t, m) == [t EXCEPT ![m].status = "rejected"]

Archive(t, m) == [t EXCEPT ![m].status = "archived"]

Tombstone(t, m) == [t EXCEPT ![m].status = "tombstoned", ![m].fact = Blank]

\* A CONFIRM event with its bookkeeping (strength, confidence, last access).
Confirm(t, m) == [t EXCEPT ![m].confirmed = TRUE, ![m].used = TRUE]

\* Mutant: successor and predecessor are swapped.
Supersede_Swapped(t, old, new) ==
  [t EXCEPT ![new].status = "deprecated", ![new].closed = TRUE,
            ![new].superBy = old, ![old].from = @ \cup {new}]

\* Close the validity window of old and link its successor.
Supersede(t, old, new) ==
  [t EXCEPT ![old].status = "deprecated", ![old].closed = TRUE,
            ![old].superBy = new, ![new].from = @ \cup {old}]

\* Everything transitively derived from the seeds, the seeds included: the
\* least set that holds them and is closed under memory_derivations.
DerivedClosure(t, seeds) ==
  LET Closed(S) == seeds \subseteq S
                   /\ \A m \in Mem : t[m].from \cap S # {} => m \in S
  IN  {m \in Mem : \A S \in SUBSET Mem : Closed(S) => m \in S}

=============================================================================
