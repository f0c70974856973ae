-------------------------------- MODULE Asks --------------------------------
(***************************************************************************)
(* Actions that wait for a human: a policy verdict of 'ask' parks the call *)
(* in pending_actions, and confirm_pending enacts or declines it later,    *)
(* when the memory it names may have changed.  With them the calls that    *)
(* can park: scope promotion and forgetting, and the break-glass flag.     *)
(***************************************************************************)
EXTENDS WritePath

CONSTANTS
  MaxAsks,          \* bound: pending_actions rows ever inserted
  TokenizingScopes, \* scopes whose PII policy rewrites content
  Tokenized         \* [Facts -> Facts]: the rewritten content

ASSUME AskBoundAssumption == MaxAsks \in Nat

ASSUME TokenAssumption == Tokenized \in [Facts -> Facts]

Slot == 1..MaxAsks
Modes == {"archive", "tombstone"}

\* One pending_actions row. cand is set for remember, the others for the rest.
Ask ==
  [state  : {"none", "open", "approved", "declined"},
   action : {"remember", "forget", "promote"},
   by     : Writers, cand : Candidate, about : 0..MaxMem,
   source : Scopes, target : Scopes, mode : Modes]

\* p is the slot the next parked call receives.
FreshAsk(p) == \A q \in Slot : (asks[q].state = "none") <=> (q >= p)

NoCandidate ==
  [fact |-> CHOOSE f \in Facts : TRUE, scope |-> CHOOSE s \in Scopes : TRUE,
   origin |-> "imported", agent |-> Consolidator, about |-> {}, eps |-> {}, srcs |-> {}]

NoAsk ==
  [state |-> "none", action |-> "remember", by |-> Consolidator,
   cand |-> NoCandidate, about |-> NoMem, source |-> CHOOSE s \in Scopes : TRUE,
   target |-> CHOOSE s \in Scopes : TRUE, mode |-> "archive"]

Park(ask) == \E p \in Slot : FreshAsk(p) /\ asks' = [asks EXCEPT ![p] = ask]

\* Nobody reads the payload of a settled call again: it is left out.
Settle(p, how) == asks' = [asks EXCEPT ![p] = [NoAsk EXCEPT !.state = how]]

-----------------------------------------------------------------------------
(* remember with verdict ask.                                              *)

Parked(w) ==
  /\ w.agent \notin frozen
  /\ Park([state |-> "open", action |-> "remember", by |-> w.agent, cand |-> w,
           about |-> NoMem, source |-> w.scope, target |-> w.scope, mode |-> "archive"])
  /\ UNCHANGED <<mem, frozen>>

ParkRemember(w) == Parked(w) /\ UNCHANGED drafts

-----------------------------------------------------------------------------
(* promote: move a memory to another scope.                                *)

\* The destination's rewriting of the content; an erased row has none left.
Rewritten(f, s) == IF s \in TokenizingScopes /\ f # Blank THEN Tokenized[f] ELSE f

\* Mutant: the copy enters active whatever the original's tier.
PromotedCopy_Active(t, m, a, s) ==
  [Unallocated EXCEPT
     !.status = "active", !.entered = t[m].status,
     !.fact = Rewritten(t[m].fact, s), !.scope = s, !.trust = t[m].trust,
     !.origin = t[m].origin, !.agent = a, !.about = t[m].about,
     !.from = {m}, !.evidence = t[m].evidence]

\* The promoted form of row m under the new content: no events of its own.
PromotedCopy(t, m, a, s) ==
  [Unallocated EXCEPT
     !.status = t[m].status, !.entered = t[m].status,
     !.fact = Rewritten(t[m].fact, s), !.scope = s, !.trust = t[m].trust,
     !.origin = t[m].origin, !.agent = a, !.about = t[m].about,
     !.from = {m}, !.evidence = t[m].evidence]

\* Content the destination rewrites makes a new row; otherwise the row moves.
EnactPromotion(t, u, m, a, s) ==
  IF Rewritten(t[m].fact, s) = t[m].fact
  THEN u = [t EXCEPT ![m].scope = s]
  ELSE \E n \in Mem : Fresh(t, n) /\ u = [t EXCEPT ![n] = PromotedCopy(t, m, a, s)]

Promotable(m, s) == IsLive(mem[m]) /\ mem[m].scope # s

PromoteScope(a, m, s) ==
  /\ Promotable(m, s)
  /\ a \notin frozen
  /\ EnactPromotion(mem, mem', m, a, s)
  /\ UNCHANGED <<asks, frozen, drafts>>

ParkPromote(a, m, s) ==
  /\ Promotable(m, s)
  /\ a \notin frozen
  /\ Park([state |-> "open", action |-> "promote", by |-> a,
           cand |-> NoCandidate, about |-> m,
           source |-> mem[m].scope, target |-> s, mode |-> "archive"])
  /\ UNCHANGED <<mem, frozen, drafts>>

-----------------------------------------------------------------------------
(* forget.                                                                 *)

EnactForget(t, m, mode) == IF mode = "tombstone" THEN Tombstone(t, m) ELSE Archive(t, m)

\* An agent alone forgets in its own scope, or what it authored and is staged.
OwnAuthority(a, m) ==
  \/ mem[m].scope = a
  \/ mem[m].agent = a /\ mem[m].status = "staged"

AgentForget(a, m, mode) ==
  /\ mem[m].status \notin {"none", "tombstoned"}
  /\ a \notin frozen
  /\ OwnAuthority(a, m)
  /\ mem' = EnactForget(mem, m, mode)
  /\ UNCHANGED <<asks, frozen, drafts>>

\* Anything else waits for a human: an agent beyond its authority, and a person
\* who is no auditor asking to forget an invariant.
ParkForget(a, m, mode) ==
  /\ mem[m].status \notin {"none", "tombstoned"}
  /\ a \notin frozen
  /\ IF a = Person THEN mem[m].status = "invariant" ELSE ~OwnAuthority(a, m)
  /\ Park([state |-> "open", action |-> "forget", by |-> a,
           cand |-> NoCandidate, about |-> m,
           source |-> mem[m].scope, target |-> mem[m].scope, mode |-> mode])
  /\ UNCHANGED <<mem, frozen, drafts>>

\* A user's own forget; an invariant needs an auditor. The owner of a subject
\* scope always tombstones, which \E mode covers.
UserForget(m, mode, auditor) ==
  /\ mem[m].status \notin {"none", "tombstoned"}
  /\ mem[m].status = "invariant" => auditor
  /\ mem' = EnactForget(mem, m, mode)
  /\ UNCHANGED <<asks, frozen, drafts>>

-----------------------------------------------------------------------------
(* confirm_pending.                                                        *)

Decline(p) ==
  /\ asks[p].state = "open"
  /\ Settle(p, "declined")
  /\ UNCHANGED <<mem, frozen, drafts>>

ApproveRemember(p) ==
  /\ asks[p].state = "open" /\ asks[p].action = "remember"
  /\ Settle(p, "approved")
  /\ EnactWrite(asks[p].cand, FALSE, TRUE)
  /\ UNCHANGED <<frozen, drafts>>

\* The memory must still be where it was; its status is not looked at.
StillThere(p) == /\ asks[p].about \in Rows(mem)
                 /\ mem[asks[p].about].scope = asks[p].source

ApproveForget(p) ==
  LET m == asks[p].about
  IN  /\ asks[p].state = "open" /\ asks[p].action = "forget"
      /\ StillThere(p)
      /\ Settle(p, "approved")
      /\ mem' = EnactForget(Confirm(mem, m), m, asks[p].mode)
      /\ UNCHANGED <<frozen, drafts>>

ApprovePromote(p) ==
  LET m == asks[p].about
  IN  /\ asks[p].state = "open" /\ asks[p].action = "promote"
      /\ StillThere(p)
      /\ Settle(p, "approved")
      /\ EnactPromotion(Confirm(mem, m), mem', m, asks[p].by, asks[p].target)
      /\ UNCHANGED <<frozen, drafts>>

-----------------------------------------------------------------------------
(* set_agent_freeze.                                                       *)

Freeze(a) ==
  /\ a \notin frozen
  /\ frozen' = frozen \cup {a}
  /\ UNCHANGED <<mem, asks, drafts>>

Unfreeze(a) ==
  /\ a \in frozen
  /\ frozen' = frozen \ {a}
  /\ UNCHANGED <<mem, asks, drafts>>
=============================================================================
