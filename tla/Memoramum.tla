------------------------------ MODULE Memoramum ------------------------------
(***************************************************************************)
(* The memory service as a whole: callers, reviewers, the consolidator and *)
(* the incident tools over one store.                                      *)
(***************************************************************************)
EXTENDS Asks, Incident

CONSTANTS
  Pins       \* facts an operator may have pinned before the service starts

ASSUME PinAssumption == Pins \subseteq Facts

\* No code path writes status invariant: a pinned row is there from the start.
PinnedRow(f, s) ==
  [Unallocated EXCEPT !.status = "invariant", !.entered = "invariant", !.fact = f,
                      !.scope = s, !.trust = 90, !.origin = "explicit_user_ask"]

EmptyStore == [m \in Mem |-> Unallocated]

Init ==
  /\ \/ mem = EmptyStore
     \/ \E f \in Pins, s \in Scopes : mem = [EmptyStore EXCEPT ![1] = PinnedRow(f, s)]
  /\ asks = [p \in Slot |-> NoAsk]
  /\ frozen = {}
  /\ drafts = {}

\* Procedural drafts default to ask.
ParkDraft(w) == w \in drafts /\ Parked(w) /\ drafts' = drafts \ {w}

-----------------------------------------------------------------------------
(* Who takes which steps.                                                  *)

CallerNext ==
  \/ \E w \in Candidates, allow \in BOOLEAN : Remember(w, allow)
  \/ \E m \in Mem : Deliver(m) \/ ReinforceUseful(m) \/ ReinforceWrong(m)

ReviewerNext ==
  \E m \in Mem : \/ ReviewConfirm(m) \/ ReviewReject(m)
                 \/ ResolveSupersede(m) \/ ResolveKeepBoth(m) \/ ResolveReject(m)
                 \/ ResolveDoubt(m)

MoveNext ==
  \E m \in Mem :
    \/ \E a \in Agents, s \in Scopes : PromoteScope(a, m, s) \/ ParkPromote(a, m, s)
    \/ \E a \in Agents, mode \in Modes : AgentForget(a, m, mode)
    \/ \E a \in Agents \cup {Person}, mode \in Modes : ParkForget(a, m, mode)
    \/ \E mode \in Modes, auditor \in BOOLEAN : UserForget(m, mode, auditor)

AskNext ==
  \/ \E w \in Candidates : ParkRemember(w)
  \/ \E p \in Slot : Decline(p) \/ ApproveRemember(p) \/ ApproveForget(p) \/ ApprovePromote(p)
  \/ \E a \in Agents : Freeze(a) \/ Unfreeze(a)

ReflectNext ==
  \/ Reflect
  \/ \E w \in drafts : \/ \E allow \in BOOLEAN : ProposeDraft(w, allow)
                       \/ DropDraft(w)

\* expires_at, retention and the history window are days and strengths the
\* store does not keep: any row in the right status may be due.
SweepNext ==
  \E faded \in SUBSET {m \in Mem : mem[m].status = "active"},
     expired \in SUBSET {m \in Mem : IsLive(mem[m])},
     lapsed \in SUBSET {m \in Mem : mem[m].status = "deprecated"} :
       \E hard \in SUBSET expired : Sweep(faded, expired, hard, lapsed)

JobNext ==
  \/ Dedupe \/ ReviewContradictions \/ PromoteStaged \/ SweepNext \/ ReflectNext
  \/ \E blocked \in SUBSET {m \in Mem : IsLive(mem[m])} : Hygiene(blocked)

IncidentNext ==
  \/ \E u \in Users : Quarantine(LearnedFrom(mem, u)) \/ EraseSubject(u)
  \/ \E a \in Agents : Quarantine(WrittenBy(mem, a))
  \/ \E m \in Mem : RestoreItem(m) \/ TombstoneItem(m)

Next ==
  \/ CallerNext \/ ReviewerNext \/ MoveNext \/ AskNext
  \/ Elapse \/ JobNext \/ IncidentNext
  \/ \E w \in drafts : ParkDraft(w)

Spec == Init /\ [][Next]_vars

(* The parts of the system the smaller instances run.                      *)

WriteSpec == Init /\ [][CallerNext \/ ReviewerNext \/ Elapse]_vars

MergeNow ==
  \/ \E w \in Candidates : Remember(w, TRUE)
  \/ \E a \in Agents, m \in Mem, s \in Scopes : PromoteScope(a, m, s)
  \/ \E m \in Mem : Hygiene({m})
  \/ Dedupe \/ ReflectNext

MergeSpec == Init /\ [][MergeNow]_vars

SweepNow ==
  \/ CallerNext
  \/ \E m \in Mem : ResolveKeepBoth(m)
  \/ Elapse \/ ReviewContradictions \/ PromoteStaged \/ SweepNext

SweepSpec == Init /\ [][SweepNow]_vars

\* The sweep of a night on which something is idle.
IdleSwept == (\E m \in Mem : Idle(mem[m])) /\ SweepNext

\* Days pass, and the nightly run of the consolidator gets to every job. What else
\* is due for a sweep is up to the rows: expiry is never forced.
FairSweepSpec ==
  /\ SweepSpec
  /\ WF_vars(Elapse)
  /\ WF_vars(ReviewContradictions) /\ WF_vars(PromoteStaged) /\ WF_vars(IdleSwept)

IncidentNow ==
  \/ \E w \in Candidates : Remember(w, TRUE)
  \/ IncidentNext \/ Dedupe \/ ReflectNext

IncidentSpec == Init /\ [][IncidentNow]_vars
=============================================================================
