------------------------------ MODULE Governance ------------------------------
(***************************************************************************)
(* The governed write: remember, promote and the answers to what they ask, *)
(* under scopes, relations, policies and freezes that change in between.   *)
(* A memory here is what policy and access decide about; its life after it *)
(* is stored is modelled in MemoryStore and the modules above that.        *)
(*                                                                         *)
(* An action is a request served in one transaction; a request that raises *)
(* or is denied changes nothing, but for a scope provisioned on the way to *)
(* a denial.                                                               *)
(***************************************************************************)
EXTENDS PolicyStore

CONSTANTS
  MaxMem, MaxAsks,    \* bounds: rows, open asks
  FirstScopes, FirstTuples, \* the scopes and tuples there are at first
  Calls,              \* writes: principal, flow, item
  Promotions,         \* promotions: principal, flow, target
  Grants,             \* tuples enrollment and membership sync add and remove
  PathSets            \* what a module may be mapped to: module, set of globs

ASSUME GovernanceBounds == MaxMem \in Nat /\ MaxAsks \in Nat

\* The tables hold scopes and tuples.
ASSUME TableAssumption ==
  FirstScopes \subseteq Scopes /\ FirstTuples \subseteq Tuples /\ Grants \subseteq Tuples

\* The kind of a principal is part of its name; persons and subjects are users, and a
\* flow names a project there is, or none.
IsPrincipal(p) ==
  /\ p.actor \in Users \cup Agents \cup {Service} /\ p.user \in Users \cup {NoUser}
  /\ p.actor \in Agents <=> p.kind = "agent"

IsItem(item) ==
  item.persons \subseteq Users /\ item.subjects \subseteq Users /\ item.sensitivity \in Ranks

ASSUME CallerAssumption ==
  /\ \A call \in Calls : /\ IsPrincipal(call.p) /\ IsItem(call.item)
                         /\ call.flow.project \in Scopes \cup {NoScope}
  /\ \A request \in Promotions : IsPrincipal(request.p)
  /\ \A map \in PathSets : map.globs \subseteq Globs

VARIABLES
  mem,     \* [Mem -> row or NoRow]
  asks     \* open pending actions, at most one in a slot

govVars == <<rulesVars, mem, asks>>

Mem == 1..MaxMem
Slots == 1..MaxAsks
NoRow == [scope |-> NoScope]
NoAsk == [action |-> "none"]
Nowhere == 0

Stored == {m \in Mem : mem[m] # NoRow}
Open == {a \in Slots : asks[a] # NoAsk}

Init ==
  /\ known = FirstScopes /\ rel = FirstTuples /\ globs = {}
  /\ book = {} /\ frozen = {}
  /\ mem = [m \in Mem |-> NoRow]
  /\ asks = [a \in Slots |-> NoAsk]

-----------------------------------------------------------------------------
(* Classification.                                                         *)

\* What the scan finds joins what the agent claimed.
Categories(item) ==
  item.claimed \cup (IF "credential" \in item.entities THEN {"credentials"} ELSE {})

Candidate(item, flow, surface, class) ==
  [kind |-> item.kind, origin |-> item.origin, categories |-> Categories(item),
   subjects |-> item.subjects, participants |-> flow.participants,
   surface |-> surface, class |-> class]

\* Secrets and government ids are never stored.
Blocked(item) == item.entities \cap {"credential", "gov_id"} # {}

\* Mutant: whoever could read along is named.
Clear_Readers(names, user, target) ==
  {n \in Users : n = user \/ SubjectScope[n] = target \/ UserCanSee(n, target)}

\* Mentions stay in clear for the speaker, for the subject, and where the person could
\* read along; all other names become tokens of the target scope.
Clear(names, user, target) ==
  {n \in names : n = user \/ SubjectScope[n] = target \/ UserCanSee(n, target)}

-----------------------------------------------------------------------------
(* Where a write lands.                                                    *)

Project(flow) == IF flow.project # NoScope THEN flow.project ELSE FlowProject(flow.container)

\* One touched module is the target; several or none leave it to the project.
ModuleTargets(flow) ==
  IF Project(flow) = NoScope THEN {flow.container}
  ELSE {IF Cardinality(M) = 1 THEN CHOOSE s \in M : TRUE ELSE Project(flow) :
          M \in ModulesTouched(Project(flow), flow.paths)}

Targets(p, flow, item, route) ==
  CASE route = "subject" /\ Cardinality(item.subjects) = 1 -> {SubjectScope[u] : u \in item.subjects}
    [] route = "module"                                    -> ModuleTargets(flow)
    [] route = "agent" /\ p.kind = "agent"                 -> {p.actor}
    [] OTHER                                               -> {flow.container}

\* Subject scopes and notebooks come to exist when a write is first routed there.
Provision(target) ==
  /\ known' = known \cup {target}
  /\ rel' = IF target \in known THEN rel
            ELSE rel \cup {<<target, "owner", u>> : u \in {u \in Users : SubjectScope[u] = target}}

-----------------------------------------------------------------------------
(* remember.                                                               *)

\* Mutant: a freeze stops what would be stored, not what would be asked.
Verdict_FreezeStores(p, layers, c) ==
  LET decision == Decision(layers, c)
  IN  IF p.actor \in frozen /\ decision # "ask" THEN "deny" ELSE decision

\* A frozen agent writes nothing, whatever the layers say.
Verdict(p, layers, c) == IF p.actor \in frozen THEN "deny" ELSE Decision(layers, c)

\* Where duplicates are looked for: what the flow may read, and the target.
Chain(p, flow, target) ==
  {target} \cup
  UNION {{s \in ChainCandidates(p, flow, M) : Readable(p, s)} :
           M \in (IF Project(flow) = NoScope THEN {{}} ELSE ModulesTouched(Project(flow), flow.paths))}

Park(ask) ==
  \E a \in Slots \ Open :
    /\ \A b \in Slots \ Open : a <= b
    /\ asks' = [asks EXCEPT ![a] = ask]

Insert(row) ==
  \E m \in Mem \ Stored :
    /\ \A n \in Mem \ Stored : m <= n
    /\ mem' = [mem EXCEPT ![m] = row]

\* _enact_write: what is known already is reinforced, all else becomes a row. The
\* episode made for an explicit ask must be readable by the one who writes it.
EnactWrite(p, flow, item, target, staged, ttl, floor) ==
  LET clear == Clear(item.persons, EffectiveUser(p), target)'
      known_already ==
        \E m \in Stored : /\ mem[m].scope \in Chain(p, flow, target)'
                          /\ mem[m].item.text = item.text /\ mem[m].clear = clear
      kept == RetentionOverride(Layers(p.actor, flow.surface, item.subjects), Categories(item))
  IN  /\ item.origin = "explicit_user_ask" => Readable(p, target)'
      /\ IF known_already THEN UNCHANGED mem
         ELSE Insert([scope |-> target, by |-> p.actor, for |-> p.user, item |-> item,
                      clear |-> clear, staged |-> staged, ttl |-> Min({ttl, kept}),
                      sensitivity |-> Max({item.sensitivity, floor}), from |-> Nowhere])

Remember(p, flow, item) ==
  LET layers  == Layers(p.actor, flow.surface, item.subjects)
      c       == Candidate(item, flow, flow.surface, Class[flow.container])
      verdict == Verdict(p, layers, c)
      route   == IF verdict = "deny" THEN "source" ELSE Route(layers, c)
  IN  /\ flow.container \in known
      /\ UNCHANGED <<globs, book, frozen>>
      /\ \E target \in Targets(p, flow, item, route) :
           /\ Provision(target)
           /\ CASE verdict = "deny" \/ ~Writable(p, target)' \/ Blocked(item) ->
                     UNCHANGED <<mem, asks>>
                [] verdict = "ask" /\ Writable(p, target)' /\ ~Blocked(item) ->
                     /\ Park([action |-> "remember", p |-> p, flow |-> flow, item |-> item,
                              source |-> flow.container, target |-> target,
                              confirmer |-> "flow_user", ttl |-> Ttl(layers, c),
                              floor |-> SensitivityFloor(layers, c)])
                     /\ UNCHANGED mem
                [] OTHER ->
                     /\ EnactWrite(p, flow, item, target,
                                   verdict = "stage" \/ item.origin \notin {"explicit_user_ask", "consolidated"},
                                   Ttl(layers, c), SensitivityFloor(layers, c))
                     /\ UNCHANGED asks

-----------------------------------------------------------------------------
(* promote.                                                                *)

Crossing(source, target) ==
  CASE Family[target] = "subject"                               -> "subject"
    [] Family[target] = "module"                                -> "module"
    [] Family[target] \notin {"subject", "module"} /\ Family[source] = "module"
         /\ target \in Ancestors(source)                        -> "module_project"
    [] OTHER -> IF source \in Ancestors(target) THEN "narrowing" ELSE "shared"

\* Promotion never stages again: what may be learned at the target may live there.
Unstaged(decision) == IF decision = "stage" THEN "allow" ELSE decision

PromotionVerdict(p, flow, row, target) ==
  LET surface == IF flow.surface # NoSurface THEN flow.surface ELSE Surface[row.scope]
      layers  == Layers(p.actor, surface, row.item.subjects)
      c       == Candidate(row.item, flow, Surface[target], Class[target])
      gate    == PromotionGate(layers, Crossing(row.scope, target), Class[row.scope])
  IN  IF ~Writable(p, target) \/ p.actor \in frozen THEN "deny"
      ELSE Stricter(gate, Unstaged(Decision(layers, c)))

\* Mutant: the pipeline does not run again for the destination.
EnactPromotion_Unscanned(p, m, target) == mem' = [mem EXCEPT ![m].scope = target]

\* The memory moves; if the target demands other words, a copy in those is made and
\* the original stays.
EnactPromotion(p, m, target) ==
  LET row   == mem[m]
      clear == Clear(row.clear, NoUser, target)
  IN  IF clear = row.clear
      THEN mem' = [mem EXCEPT ![m].scope = target]
      ELSE Insert([row EXCEPT !.scope = target, !.clear = clear, !.by = p.actor,
                              !.for = p.user, !.from = m])

Promote(p, flow, m, target) ==
  /\ m \in Stored /\ target \in known /\ target # mem[m].scope
  /\ Readable(p, mem[m].scope) \/ IsAuditor(p)
  /\ \/ /\ PromotionVerdict(p, flow, mem[m], target) = "ask"
        /\ Park([action |-> "promote", p |-> p, mem |-> m, source |-> mem[m].scope,
                 target |-> target,
                 confirmer |-> Confirmer(Crossing(mem[m].scope, target))])
        /\ UNCHANGED mem
     \/ /\ PromotionVerdict(p, flow, mem[m], target) = "allow"
        /\ EnactPromotion(p, m, target)
        /\ UNCHANGED asks
  /\ UNCHANGED rulesVars

-----------------------------------------------------------------------------
(* Answers.                                                                *)

\* _require_confirmer.
MayConfirm(u, ask) ==
  LET owners == {t[3] : t \in {t \in rel : t[1] = ask.target /\ t[2] = "owner"}}
  IN  CASE ask.confirmer = "flow_user" /\ ask.p.user # NoUser -> u = ask.p.user
        [] ask.confirmer \in {"module_owner", "maintainer"} -> Holds({ask.target}, ask.confirmer, u)
        [] ask.confirmer = "subject" -> IF owners = {} THEN SubjectScope[u] = ask.target
                                        ELSE u \in owners
        [] OTHER -> UserCanSee(u, ask.source)

\* Mutant: enrollment is what it was when the question was asked.
ApproveWrite_Unchecked(u, a) ==
  \E ask \in {asks[a]} :
      /\ ask.action = "remember" /\ MayConfirm(u, ask)
      /\ asks' = [asks EXCEPT ![a] = NoAsk]
      /\ UNCHANGED rulesVars
      /\ EnactWrite(ask.p, ask.flow, ask.item, ask.target, FALSE, ask.ttl, ask.floor)

\* Enrollment, names and retention are decided again; the layers' verdict and a freeze
\* of the agent are not. The flow that is kept names no paths and no participants.
ApproveWrite(u, a) ==
  \E ask \in {asks[a]} :
    LET flow == [ask.flow EXCEPT !.paths = {}, !.participants = {}, !.project = NoScope]
    IN
      /\ ask.action = "remember" /\ MayConfirm(u, ask)
      /\ Writable(ask.p, ask.target)
      /\ asks' = [asks EXCEPT ![a] = NoAsk]
      /\ UNCHANGED rulesVars
      /\ EnactWrite(ask.p, flow, ask.item, ask.target, FALSE, ask.ttl, ask.floor)

\* Mutant: the memory is promoted from wherever it is by now.
ApprovePromotion_Anywhere(u, a) ==
  LET ask == asks[a]
  IN  /\ ask.action = "promote" /\ MayConfirm(u, ask)
      /\ Writable(ask.p, ask.target)
      /\ asks' = [asks EXCEPT ![a] = NoAsk]
      /\ UNCHANGED rulesVars
      /\ EnactPromotion(ask.p, ask.mem, ask.target)

\* The answer is about a memory that is still where it was.
ApprovePromotion(u, a) ==
  LET ask == asks[a]
  IN  /\ ask.action = "promote" /\ MayConfirm(u, ask)
      /\ mem[ask.mem].scope = ask.source
      /\ Writable(ask.p, ask.target)
      /\ asks' = [asks EXCEPT ![a] = NoAsk]
      /\ UNCHANGED rulesVars
      /\ EnactPromotion(ask.p, ask.mem, ask.target)

Decline(u, a) ==
  /\ MayConfirm(u, asks[a])
  /\ asks' = [asks EXCEPT ![a] = NoAsk]
  /\ UNCHANGED <<rulesVars, mem>>

-----------------------------------------------------------------------------

\* Requests of agents and users.
Serve ==
  \/ \E call \in Calls : Remember(call.p, call.flow, call.item)
  \/ \E request \in Promotions, m \in Mem : Promote(request.p, request.flow, m, request.target)
  \/ \E u \in Users, a \in Open : ApproveWrite(u, a) \/ ApprovePromotion(u, a) \/ Decline(u, a)

\* Administration, by an org admin, a user or a sync.
Administer ==
  /\ \/ \E s \in Scopes : CreateScope(s) /\ UNCHANGED <<book, frozen>>
     \/ \E t \in Grants, remove \in BOOLEAN : SetRelation(t, remove) /\ UNCHANGED <<book, frozen>>
     \/ \E u \in Users, map \in PathSets :
          SetModulePaths(AsUser(u), map.module, map.globs) /\ UNCHANGED <<book, frozen>>
     \/ \E u \in Users, d \in Documents : PutPolicy(AsUser(u), d)
     \/ \E u \in Users, a \in Agents, on \in BOOLEAN : SetFreeze(AsUser(u), a, on)
  /\ UNCHANGED <<mem, asks>>

Next == Serve \/ Administer

Spec == Init /\ [][Next]_govVars

-----------------------------------------------------------------------------
(* Properties.                                                             *)

Principals == {call.p : call \in Calls} \cup {request.p : request \in Promotions}
Items == {call.item : call \in Calls}
Flows == {call.flow : call \in Calls}

RowOK(row) ==
  /\ row.scope \in Scopes /\ row.item \in Items /\ row.by \in Users \cup Agents \cup {Service}
  /\ row.for \in Users \cup {NoUser} /\ row.clear \subseteq row.item.persons
  /\ row.staged \in BOOLEAN /\ row.sensitivity \in Ranks
  /\ row.ttl \in 0..Forever /\ row.from \in Mem \cup {Nowhere}

AskOK(ask) ==
  /\ ask.p \in Principals /\ ask.source \in Scopes /\ ask.target \in Scopes
  /\ \/ ask.action = "promote" /\ ask.mem \in Stored
     \/ ask.action = "remember" /\ ask.item \in Items /\ ask.ttl \in 0..Forever

\* The types of the tables, and that an ask to promote names a memory there is.
GovernanceTypeOK ==
  /\ known \subseteq Scopes /\ rel \subseteq Tuples /\ globs \subseteq Scopes \X Globs
  /\ frozen \subseteq Agents
  /\ DOMAIN mem = Mem /\ \A m \in Stored : RowOK(mem[m])
  /\ DOMAIN asks = Slots /\ \A a \in Open : AskOK(asks[a])

Confined == {"private", "shared_external"}

\* Nothing leaves a private or an external scope (the org floors of promotion_gate):
\* what is in one neither moves nor is copied, not even by the answer to a question
\* that was asked when it was elsewhere (confirm_pending).
PrivateStays ==
  [][\A m \in Stored : Class[mem[m].scope] \in Confined =>
       /\ mem'[m] = mem[m]
       /\ \A n \in Mem \ Stored : n \in Stored' => mem'[n].from # m]_govVars

\* Rows and open questions of an agent, and of those that are about a person.
Footprint(a) ==
  Cardinality({m \in Stored : mem[m].by = a}) + Cardinality({k \in Open : asks[k].p.actor = a})

AskedAbout(k) ==
  IF asks[k].action = "remember" THEN asks[k].item.subjects ELSE mem[asks[k].mem].item.subjects

Traces(u) ==
  Cardinality({m \in Stored : u \in mem[m].item.subjects})
  + Cardinality({k \in Open : u \in AskedAbout(k)})

OptedOut == {u \in Users : \E d \in InForce("user_pref", u) :
               /\ d.strategies # <<>>
               /\ d.strategies[1] = [AnyStrategy EXCEPT !.decision = "deny"]}

\* While an agent is frozen, what it has written and what it asks to write do not grow;
\* nor does what is kept and asked about a person who wants nothing kept (break-glass
\* and user preferences in remember and promote). An open question may still become
\* its row: approval looks at neither veto again.
VetoesHold ==
  [][/\ \A a \in frozen \cap frozen' : Footprint(a)' <= Footprint(a)
     /\ \A u \in OptedOut \cap OptedOut' : Traces(u)' <= Traces(u)]_govVars

MayHavePut(m) ==
  LET row == mem[m]
  IN  row.by \in Agents =>
        \/ row.scope = row.by
        \/ /\ \E s \in Ancestors(row.scope) : <<s, "writer_agent", row.by>> \in rel
           /\ row.for = NoUser \/ UserCanSee(row.for, row.scope)

\* What comes to be stored for an agent is stored where it is enrolled as a writer at
\* that moment, and where the user it acts for may look; or in its own notebook. It
\* does not matter when it asked (remember, confirm_pending).
EnrolledOnly ==
  [][\A m \in Mem \ Stored : m \in Stored' => MayHavePut(m)']_govVars

Speaker(m) == IF mem[m].from = Nowhere THEN {mem[m].for, mem[m].by} ELSE {}

NamesInSight(m, exempt) ==
  \A n \in mem[m].clear \ exempt :
    SubjectScope[n] = mem[m].scope \/ UserCanSee(n, mem[m].scope)

\* A name stands in clear in a memory only if its bearer could read the scope when the
\* memory came there, is its subject, or spoke the words themself; and the speaker's
\* exemption ends when the memory is promoted (pii.run, _enact_promotion).
NamesNeedSight ==
  [][\A m \in Mem : mem'[m] # mem[m] =>
       IF m \in Stored THEN NamesInSight(m, {})' ELSE NamesInSight(m, Speaker(m))']_govVars
=============================================================================
