----------------------------- MODULE PolicyStore -----------------------------
(***************************************************************************)
(* The stored policies and the break-glass flags, and the operations that  *)
(* administer them: put_policy, set_agent_freeze.  A document is kept as   *)
(* the layer it parses to; of its versions only the latest is in force.    *)
(***************************************************************************)
EXTENDS Access, Policy, SequencesExt

CONSTANT Documents     \* the documents somebody may store

\* parse_document, of a strategy: a known decision, route, period and floor.
Sensible(s) ==
  /\ s.decision \in Decisions /\ s.route \in Routes
  /\ s.ttl \in 0..Forever /\ s.floor \in Ranks

\* parse_document, of a layer: what it says of procedures and promotions only tightens.
WellFormed(l) ==
  /\ l.strategies \in Seq(Range(l.strategies))
  /\ \A s \in Range(l.strategies) : Sensible(s)
  /\ l.procedural \in {"none", "ask", "deny"}
  /\ \A x \in Crossings : l.promotion[x] \in {"none", "ask", "deny"}
  /\ \A o \in l.retention : o.ttl \in 0..Forever

\* What is malformed is not stored.
ASSUME DocumentAssumption == \A d \in Documents : WellFormed(d)

VARIABLES
  book,      \* policies: the document in force for each layer and what it applies to
  frozen     \* agent_freezes not released

rulesVars == <<accessVars, book, frozen>>

InForce(name, applies) == {d \in book : d.name = name /\ d.applies = applies}

\* What is stored for a slot, or else what the service ships with.
Slot(name, applies, fallback) ==
  IF InForce(name, applies) # {} THEN SetToSeq(InForce(name, applies)) ELSE fallback

\* Mutant: the preferences of who speaks, not of whom it is about.
Layers_NoSubjects(agent, surface, subjects) ==
  Slot("org", Org, <<BuiltinOrgLayer>>)
  \o (IF surface = NoSurface THEN <<>>
      ELSE Slot("surface", surface, IF surface = "ide" THEN <<BuiltinIdeLayer>> ELSE <<>>))
  \o Slot("agent", agent, <<>>)

\* _layers: org, surface, agent, and one layer for every user it is about.
Layers(agent, surface, subjects) ==
  Slot("org", Org, <<BuiltinOrgLayer>>)
  \o (IF surface = NoSurface THEN <<>>
      ELSE Slot("surface", surface, IF surface = "ide" THEN <<BuiltinIdeLayer>> ELSE <<>>))
  \o Slot("agent", agent, <<>>)
  \o SetToSeq(UNION {InForce("user_pref", u) : u \in subjects \cap Users})

\* Users set their own preferences; all else is the org's to set.
PutPolicy(p, d) ==
  /\ \/ d.name = "user_pref" /\ p.kind = "user" /\ p.actor = d.applies
     \/ IsOrgAdmin(p)
  /\ book' = (book \ InForce(d.name, d.applies)) \cup {d}
  /\ UNCHANGED <<accessVars, frozen>>

SetFreeze(p, a, on) ==
  /\ IsOrgAdmin(p)
  /\ frozen' = IF on THEN frozen \cup {a} ELSE frozen \ {a}
  /\ UNCHANGED <<accessVars, book>>
=============================================================================
