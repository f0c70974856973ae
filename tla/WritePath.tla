------------------------------ MODULE WritePath ------------------------------
(***************************************************************************)
(* The write path of MemoryService: remember and the enactment behind it,  *)
(* reads, reinforcement, staged triage and contradiction review.  Access   *)
(* checks and the policy verdict are decided elsewhere: an action here is  *)
(* a call that passed them, with the verdict as a parameter.               *)
(***************************************************************************)
EXTENDS Lifecycle, FiniteSetsExt

CONSTANTS
  Candidates      \* what callers may ask to remember

\* A candidate: the arguments of remember after classification and routing.
Candidate ==
  [fact : Facts, scope : Scopes, origin : Origins, agent : Writers,
   about : SUBSET Users, eps : SUBSET Episodes, srcs : SUBSET Mem]

ASSUME CandidateAssumption == Candidates \subseteq Candidate

ASSUME ChainAssumption == Chain \in [Scopes -> Seq(Scopes)]

ChainSet(s) == Range(Chain[s])

\* A target that the chain of the flow lacks is put in front of it.
ASSUME TargetAssumption == \A s \in Scopes : s \in ChainSet(s)

\* Position of r in the chain of s: smaller is narrower.
Depth(s, r) == CHOOSE i \in DOMAIN Chain[s] : Chain[s][i] = r

EntryStatus(origin) ==
  IF origin \in {"explicit_user_ask", "consolidated"} THEN "active" ELSE "staged"

\* The ask is the episode when an explicit ask names none.
EvidenceOf(w) ==
  IF w.origin = "explicit_user_ask" /\ w.eps = {} THEN {Directive} ELSE w.eps

MinTrust(t, S) == Min({t[m].trust : m \in S})

\* Trust of an agent-written memory, from the weakest of its episodes.
EpisodeTrust(eps) ==
  IF eps = {} THEN 50
  ELSE IF \E e \in eps : SourceKind[e] \in {"web_fetch", "tool_output", "forwarded"} THEN 25
  ELSE IF \E e \in eps : SourceKind[e] = "dev_observation" THEN 45
  ELSE IF \E e \in eps : Author[e] \notin Members THEN 35
  ELSE 60

DeriveTrust(t, w) ==
  CASE w.origin = "explicit_user_ask" -> 90
    [] w.origin = "consolidated"      -> IF w.srcs = {} THEN 50 ELSE MinTrust(t, w.srcs)
    [] w.origin = "imported"          -> 40
    [] OTHER                          -> EpisodeTrust(EvidenceOf(w))

\* Mutant: staged copies are not looked for.
Duplicates_Active(t, w) ==
  {m \in Mem : /\ t[m].status \in {"active", "invariant"}
               /\ t[m].fact = w.fact
               /\ t[m].scope \in ChainSet(w.scope)}

\* Live rows of the chain with the candidate's content, whatever their
\* validity or quarantine; the narrowest scope wins.
Duplicates(t, w) ==
  LET copies == {m \in Mem : /\ IsLive(t[m])
                             /\ t[m].fact = w.fact
                             /\ t[m].scope \in ChainSet(w.scope)}
  IN  {m \in copies : \A k \in copies :
         Depth(w.scope, t[m].scope) <= Depth(w.scope, t[k].scope)}

\* What retrieval.search hands out for a chain: live, validity open, not quarantined.
Recallable(t, m) == IsLive(t[m]) /\ ~t[m].closed /\ t[m].quarantine = 0

\* Neighbors the judge may report as contradicted.
Contradicting(t, w) ==
  {m \in Mem \ w.srcs : /\ Recallable(t, m)
                        /\ t[m].scope \in ChainSet(w.scope)
                        /\ <<w.fact, t[m].fact>> \in Conflicts}

EnteredStatus(t, w, allow) ==
  IF ~allow \/ (w.origin = "consolidated" /\ \E s \in w.srcs : t[s].status = "staged")
  THEN "staged" ELSE EntryStatus(w.origin)

NewRow(t, w, status) ==
  [Unallocated EXCEPT
     !.status = status, !.entered = status, !.fact = w.fact, !.scope = w.scope,
     !.trust = DeriveTrust(t, w), !.origin = w.origin, !.agent = w.agent,
     !.about = w.about, !.from = w.srcs,
     !.evidence = EvidenceOf(w) \cup UNION {t[s].evidence : s \in w.srcs}]

-----------------------------------------------------------------------------
(* _reobserve: the write became a reinforcement of d.                      *)

\* Mutant: independence of the evidence is not checked.
Reobserved_AnyEvidence(t, d, w) ==
  LET confirm == w.origin = "explicit_user_ask"
  IN  MaybePromote([t EXCEPT ![d].evidence = @ \cup EvidenceOf(w), ![d].used = TRUE,
                             ![d].confirmed = @ \/ confirm,
                             ![d].reobserved = @ \/ ~confirm], d)

Reobserved(t, d, w) ==
  LET confirm == w.origin = "explicit_user_ask"
  IN  IF ~confirm /\ ~Independent(t, d, w.eps) THEN t
      ELSE MaybePromote([t EXCEPT ![d].evidence = @ \cup EvidenceOf(w), ![d].used = TRUE,
                                  ![d].confirmed = @ \/ confirm,
                                  ![d].reobserved = @ \/ ~confirm], d)

(* _enact_write past the duplicate check: row n is inserted, and the       *)
(* contradicted row old (NoMem: none) is superseded or held against.       *)

Enacted(t, n, w, allow, old, confirmed) ==
  LET status   == EnteredStatus(t, w, allow)
      inserted == [t EXCEPT ![n] = NewRow(t, w, status)]
      hold     == old # NoMem /\ MustHold(status, inserted[n].trust, t[old])
      linked   == IF old = NoMem THEN inserted
                  ELSE IF hold THEN [inserted EXCEPT ![n].held = old]
                  ELSE Supersede(inserted, old, n)
  IN  IF ~confirmed THEN linked
      ELSE IF status = "staged" /\ ~hold THEN Promote(Confirm(linked, n), n)
      ELSE Confirm(linked, n)

\* The sources must exist. The judge may miss a contradiction or be unavailable:
\* NoMem is always possible.
EnactWrite(w, allow, confirmed) ==
  /\ w.srcs \subseteq Rows(mem)
  /\ \/ \E d \in Duplicates(mem, w) : mem' = Reobserved(mem, d, w)
     \/ /\ Duplicates(mem, w) = {}
        /\ \E n \in Mem, old \in Contradicting(mem, w) \cup {NoMem} :
             /\ Fresh(mem, n)
             /\ mem' = Enacted(mem, n, w, allow, old, confirmed)

-----------------------------------------------------------------------------
(* Operations.                                                             *)

\* remember with verdict allow (TRUE) or stage (FALSE); a denied call changes
\* nothing here.
Remembered(w, allow) ==
  /\ w.agent \notin frozen
  /\ EnactWrite(w, allow, FALSE)
  /\ UNCHANGED <<asks, frozen>>

Remember(w, allow) == Remembered(w, allow) /\ UNCHANGED drafts

\* recall and context_block hand rows out; _deliver counts the access.
Deliver(m) ==
  /\ Recallable(mem, m)
  /\ mem' = [mem EXCEPT ![m].used = TRUE]
  /\ UNCHANGED <<asks, frozen, drafts>>

ReinforceUseful(m) ==
  /\ IsLive(mem[m])
  /\ LET used == [mem EXCEPT ![m].useful = IF @ < PromoteUseful THEN @ + 1 ELSE @,
                             ![m].used = TRUE]
     IN  mem' = MaybePromote(used, m)
  /\ UNCHANGED <<asks, frozen, drafts>>

ReinforceWrong(m) ==
  /\ IsLive(mem[m])
  /\ mem[m].doubts < MaxDoubts
  /\ mem' = [mem EXCEPT ![m].doubts = @ + 1, ![m].used = TRUE]
  /\ UNCHANGED <<asks, frozen, drafts>>

\* Mutant: a held challenger can be confirmed in triage.
ReviewConfirm_Held(m) ==
  /\ mem[m].status = "staged"
  /\ mem' = Promote(Confirm(mem, m), m)
  /\ UNCHANGED <<asks, frozen, drafts>>

\* One step, as if nothing committed between reading the row and its promotion by id;
\* statement by statement this is "triage" in Transactions.
ReviewConfirm(m) ==
  /\ mem[m].status = "staged"
  /\ mem[m].held = NoMem
  /\ mem' = Promote(Confirm(mem, m), m)
  /\ UNCHANGED <<asks, frozen, drafts>>

ReviewReject(m) ==
  /\ mem[m].status = "staged"
  /\ mem' = [Archive(mem, m) EXCEPT ![m].held = NoMem]
  /\ UNCHANGED <<asks, frozen, drafts>>

\* Mutant: the item stays open.
Accept_ItemOpen(t, c) ==
  LET confirmed == Confirm(t, c)
  IN  IF t[c].status = "staged" THEN Promote(confirmed, c) ELSE confirmed

\* Mutant: the challenger is promoted whatever became of it.
Accept_Any(t, c) == [Promote(Confirm(t, c), c) EXCEPT ![c].held = NoMem]

\* The human accepts challenger c: confirmed, promoted if staged, item closed.
Accept(t, c) ==
  LET confirmed == Confirm(t, c)
  IN  [(IF t[c].status = "staged" THEN Promote(confirmed, c) ELSE confirmed)
         EXCEPT ![c].held = NoMem]

ResolveSupersede(c) ==
  /\ mem[c].held # NoMem
  /\ mem' = Supersede(Accept(mem, c), mem[c].held, c)
  /\ UNCHANGED <<asks, frozen, drafts>>

ResolveKeepBoth(c) ==
  /\ mem[c].held # NoMem
  /\ mem' = LET old == mem[c].held
            IN  [Accept(mem, c) EXCEPT ![old].closed = TRUE, ![old].confirmed = TRUE,
                                       ![old].used = TRUE]
  /\ UNCHANGED <<asks, frozen, drafts>>

ResolveReject(c) ==
  /\ mem[c].held # NoMem
  /\ LET kept == IF mem[c].status = "staged" THEN Archive(mem, c) ELSE mem
     IN  mem' = [kept EXCEPT ![c].held = NoMem]
  /\ UNCHANGED <<asks, frozen, drafts>>

\* An item without challenger can only be rejected.
ResolveDoubt(m) ==
  /\ mem[m].doubts > 0
  /\ mem' = [mem EXCEPT ![m].doubts = @ - 1]
  /\ UNCHANGED <<asks, frozen, drafts>>
=============================================================================
