------------------------------- MODULE Policy -------------------------------
(***************************************************************************)
(* policy.py: what the layers of learning policy decide about one write,   *)
(* one promotion and one read.  A layer is what a stored document parses   *)
(* to; a stack of layers is a sequence, broadest first.  Everything here   *)
(* is a function of its arguments: the service decides which layers and    *)
(* which candidate it evaluates, and when.                                 *)
(***************************************************************************)
EXTENDS Integers, FiniteSetsExt, Functions

CONSTANTS
  Forever,         \* a retention period longer than any a document can name
  DefaultFloor     \* setting default_trust_floor, in hundredths

ASSUME ForeverAssumption == Forever \in Nat

ASSUME DefaultFloorAssumption == DefaultFloor \in 0..100

-----------------------------------------------------------------------------
(* Decisions and their order.                                              *)

Decisions == {"allow", "stage", "ask", "deny"}

Strictness == [deny |-> 3, ask |-> 2, stage |-> 1, allow |-> 0]

Stricter(a, b) == IF Strictness[a] >= Strictness[b] THEN a ELSE b

Strictest(D) == CHOOSE d \in D : \A e \in D : Strictness[e] <= Strictness[d]

-----------------------------------------------------------------------------
(* Strategies and layers.                                                  *)

Routes == {"source", "subject", "module", "agent"}

\* sensitivity_rank: public, internal, confidential, restricted.
Ranks == 0..3

Crossings == {"narrowing", "subject", "module", "module_project", "shared"}

\* A strategy that matches everything, has no opinion on where the write lands, how
\* long it is kept or how sensitive it is.
AnyStrategy ==
  [decision |-> "allow", kinds |-> {}, categories |-> {}, origins |-> {},
   participantsOnly |-> FALSE, surfaces |-> {}, classes |-> {},
   route |-> "source", ttl |-> Forever, floor |-> 0]

\* Empty sets match any candidate.
Matches(s, c) ==
  /\ s.kinds = {} \/ c.kind \in s.kinds
  /\ s.origins = {} \/ c.origin \in s.origins
  /\ s.categories = {} \/ s.categories \cap c.categories # {}
  /\ s.participantsOnly => c.subjects # {} /\ c.subjects \subseteq c.participants
  /\ s.surfaces = {} \/ c.surface \in s.surfaces
  /\ s.classes = {} \/ c.class \in s.classes

\* A layer without rules of its own.
EmptyLayer ==
  [name |-> "org", applies |-> "org", strategies |-> <<>>, procedural |-> "none",
   promotion |-> [x \in Crossings |-> "none"], retention |-> {},
   staged |-> TRUE, trust |-> {}, ceiling |-> 3, denied |-> {}]

-----------------------------------------------------------------------------
(* Write evaluation.                                                       *)

Matching(l, c) == {i \in DOMAIN l.strategies : Matches(l.strategies[i], c)}

\* The first match of a layer decides for it.
Deciding(l, c) == l.strategies[Min(Matching(l, c))]

LayerDecision(l, c) ==
  LET decision == Deciding(l, c).decision
  IN  IF l.procedural # "none" /\ c.kind = "procedural"
      THEN Stricter(decision, l.procedural) ELSE decision

\* The layers that have something to say about c.
Speaking(layers, c) == {l \in Range(layers) : Matching(l, c) # {}}

\* Layers combine strictest-wins; what no layer matches is denied.
Decision(layers, c) ==
  LET heard == {LayerDecision(l, c) : l \in Speaking(layers, c)}
  IN  IF heard = {} THEN "deny" ELSE Strictest(heard)

\* Positions of the strategies that match, and of those that route elsewhere.
Matched(layers, c) ==
  UNION {{i} \X Matching(layers[i], c) : i \in DOMAIN layers}

StrategyAt(layers, p) == layers[p[1]].strategies[p[2]]

Routing(layers, c) == {p \in Matched(layers, c) : StrategyAt(layers, p).route # "source"}

Before(p, q) == p[1] < q[1] \/ (p[1] = q[1] /\ p[2] <= q[2])

\* Routing is its own axis: the first match that routes elsewhere, whichever decided.
Route(layers, c) ==
  LET routing == Routing(layers, c)
  IN  IF routing = {} THEN "source"
      ELSE StrategyAt(layers, CHOOSE p \in routing : \A q \in routing : Before(p, q)).route

\* The shortest period of the strategies that decide for a layer or route.
Ttl(layers, c) ==
  Min({Forever} \cup {Deciding(l, c).ttl : l \in Speaking(layers, c)}
                \cup {StrategyAt(layers, p).ttl : p \in Routing(layers, c)})

\* The strongest floor of all that match.
SensitivityFloor(layers, c) ==
  Max({0} \cup {StrategyAt(layers, p).floor : p \in Matched(layers, c)})

\* retention_override: the shortest period of the overrides that match; an override
\* is a set of categories with a period.
RetentionOverride(layers, categories) ==
  Min({Forever} \cup
      {o.ttl : o \in {o \in UNION {l.retention : l \in Range(layers)} :
                        o.categories \cap categories # {}}})

-----------------------------------------------------------------------------
(* Promotion gates.                                                        *)

\* Nothing leaves a private or external scope; a narrower home needs no ceremony;
\* everything else is asked, or denied by a layer.
PromotionGate(layers, crossing, class) ==
  IF class \in {"private", "shared_external"} THEN "deny"
  ELSE IF crossing = "narrowing" THEN "allow"
  ELSE Strictest(({"ask"} \cup {l.promotion[crossing] : l \in Range(layers)}) \ {"none"})

Confirmer(crossing) ==
  CASE crossing = "subject"        -> "subject"
    [] crossing = "module"         -> "module_owner"
    [] crossing = "module_project" -> "maintainer"
    [] OTHER                       -> "scope_member"

-----------------------------------------------------------------------------
(* Read policy: the gates of the layers' read sections.                    *)

\* The strictest of each; the setting is the trust floor only where no layer sets one.
ReadPolicy(layers) ==
  LET floors == UNION {l.trust : l \in Range(layers)}
  IN  [staged  |-> \A l \in Range(layers) : l.staged,
       trust   |-> IF floors = {} THEN DefaultFloor ELSE Max(floors),
       ceiling |-> Min({3} \cup {l.ceiling : l \in Range(layers)}),
       denied  |-> UNION {l.denied : l \in Range(layers)}]

\* What retrieval hands out under gates g.
Passes(g, row) ==
  /\ row.staged => g.staged
  /\ row.trust >= g.trust
  /\ row.sensitivity <= g.ceiling
  /\ row.categories \cap g.denied = {}

-----------------------------------------------------------------------------
(* The layers that ship with the service.                                  *)

Origin(o, d) == [AnyStrategy EXCEPT !.origins = {o}, !.decision = d]

BuiltinOrgLayer ==
  [EmptyLayer EXCEPT !.strategies =
     <<[AnyStrategy EXCEPT !.decision = "deny", !.categories = {"credentials", "secrets"}],
       Origin("explicit_user_ask", "allow"),
       Origin("llm_inferred", "stage"),
       Origin("agent_observed", "stage"),
       [Origin("consolidated", "ask") EXCEPT !.kinds = {"procedural"}],
       Origin("consolidated", "allow"),
       Origin("imported", "stage")>>]

BuiltinIdeLayer ==
  [EmptyLayer EXCEPT
     !.name = "surface", !.applies = "ide",
     !.strategies =
       <<[AnyStrategy EXCEPT !.decision = "stage", !.categories = {"codebase_convention"},
                             !.route = "module"],
         [AnyStrategy EXCEPT !.decision = "stage", !.categories = {"task_tactic"},
                             !.route = "agent"]>>]
=============================================================================
