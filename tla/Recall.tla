-------------------------------- MODULE Recall --------------------------------
(***************************************************************************)
(* The read path, statement by statement: recall and context_block resolve *)
(* the scopes a principal may read, hold them to the staleness of the      *)
(* membership sync, read the gates and hand out what passes.  Each         *)
(* statement sees what is committed when it runs, so everything may change *)
(* between two of them; now() is when the transaction began.               *)
(*                                                                         *)
(* Membership of a synced surface comes from outside: a cycle takes a      *)
(* snapshot, applies the differences one transaction at a time and then    *)
(* records the sync.  Time passes in ticks.                                *)
(***************************************************************************)
EXTENDS Governance

CONSTANTS
  Synced,       \* the surfaces whose membership is synced
  SyncScopes,   \* the private scopes on them that have members of their own
  Reads,        \* the reads: principal, flow
  Bound,        \* setting membership_staleness_bound_seconds
  CycleTime,    \* external: a sync that takes longer is given up
  ReadTime      \* bound: a read that takes longer is given up

ASSUME TimeAssumption == Bound \in Nat /\ CycleTime \in Nat /\ ReadTime \in Nat

\* Who is a member of a synced scope is for the sync to say, and for nobody else.
ASSUME SyncAssumption ==
  /\ NoSurface \notin Synced
  /\ \A s \in SyncScopes : s \in Scopes /\ Class[s] = "private" /\ Family[s] # "agent"
  /\ \A u \in Users : SubjectScope[u] \notin SyncScopes
  /\ \A t \in FirstTuples : t[1] \in SyncScopes => t[2] # "owner"
  /\ \A t \in Grants : t[1] \in SyncScopes => t[2] \notin {"member", "owner"}

\* Agents and users read; the service itself is held to no membership.
ASSUME ReaderAssumption == \A r \in Reads : r.p.kind # "system"

VARIABLES
  real,      \* external: who is in which scope on the surface
  gone,      \* history: ticks since somebody left a scope for good
  cycle,     \* external: the sync that runs, with its snapshot
  synced,    \* membership_sync: ticks since the last sync of a surface, or Never
  req,       \* the read that runs
  barred     \* history: what the principal could at no time of the read see

syncVars == <<real, gone, cycle, synced>>
recallVars == <<govVars, syncVars, req, barred>>

Never == -1
Cap == Bound + CycleTime + ReadTime + 1   \* ages above it are not told apart
Pairs == SyncScopes \X Users
Idle == [phase |-> "idle"]
Nothing == [scopes |-> {}, mems |-> {}]
NoCycle == [surface |-> NoSurface]
NoGates == [staged |-> FALSE]     \* the gates have not been read

Later(age) == IF age = Never \/ age = Cap THEN age ELSE age + 1

SyncedRelation == {t \in rel : t[1] \in SyncScopes /\ t[2] = "member"}

RecallInit ==
  /\ Init
  /\ real = {<<t[1], t[3]>> : t \in SyncedRelation}
  /\ gone = [x \in Pairs |-> IF x \in real THEN 0 ELSE Cap]
  /\ cycle = NoCycle
  /\ synced \in [Synced -> {Never, 0}]
  /\ req = Idle /\ barred = Nothing

-----------------------------------------------------------------------------
(* The surface and its sync.                                               *)

Leave(s, u) ==
  /\ <<s, u>> \in real
  /\ real' = real \ {<<s, u>>}
  /\ UNCHANGED <<gone, cycle, synced, req, govVars>>

Return(s, u) ==
  /\ <<s, u>> \notin real
  /\ real' = real \cup {<<s, u>>}
  /\ gone' = [gone EXCEPT ![<<s, u>>] = 0]
  /\ UNCHANGED <<cycle, synced, req, govVars>>

On(surface, S) == {x \in S : Surface[x[1]] = surface}

Snapshot(surface) ==
  /\ cycle = NoCycle
  /\ cycle' = [surface |-> surface, snap |-> On(surface, real), age |-> 0]
  /\ UNCHANGED <<real, gone, synced, req, govVars>>

\* What the snapshot and the tuples differ in.
Differences ==
  {x \in On(cycle.surface, Pairs) : (x \in cycle.snap) # (<<x[1], "member", x[2]>> \in rel)}

ApplyOne ==
  /\ cycle # NoCycle
  /\ \E x \in Differences : SetRelation(<<x[1], "member", x[2]>>, x \notin cycle.snap)
  /\ UNCHANGED <<book, frozen, mem, asks, syncVars, req>>

\* record_membership_sync, after a completed cycle.
Heartbeat ==
  /\ cycle # NoCycle /\ Differences = {}
  /\ synced' = [synced EXCEPT ![cycle.surface] = 0]
  /\ req' = IF req = Idle THEN req
            ELSE [req EXCEPT !.overtaken = @ \cup {cycle.surface}]
  /\ cycle' = NoCycle
  /\ UNCHANGED <<real, gone, govVars>>

GiveUp ==
  /\ cycle # NoCycle
  /\ cycle' = NoCycle
  /\ UNCHANGED <<real, gone, synced, req, govVars>>

Tick ==
  /\ cycle # NoCycle => cycle.age < CycleTime
  /\ req # Idle => req.time < ReadTime
  /\ cycle' = IF cycle = NoCycle THEN cycle ELSE [cycle EXCEPT !.age = @ + 1]
  /\ req' = IF req = Idle THEN req ELSE [req EXCEPT !.time = @ + 1]
  /\ synced' = [s \in Synced |-> Later(synced[s])]
  /\ gone' = [x \in Pairs |-> IF x \in real THEN 0 ELSE Later(gone[x])]
  /\ UNCHANGED <<real, govVars>>

-----------------------------------------------------------------------------
(* The read.                                                               *)

\* Two questions decide whether a scope is readable, each a statement of its own.
Questions == {"enrolled", "sees"}

Answer(p, s, q) ==
  CASE Family[s] = "agent" -> OwnNotebook(p, s)
    [] Family[s] # "agent" /\ q = "enrolled" -> Enrolled(p, s, "reader_agent")
    [] OTHER -> Sees(p, s)

\* Mutant: the chain of the last read is good enough for the next.
Begin_Cached(p, flow) ==
  /\ req.phase \in {"idle", "served"}
  /\ flow.container \in known
  /\ \E M \in IF Project(flow) = NoScope THEN {{}} ELSE ModulesTouched(Project(flow), flow.paths) :
       LET cached == req.phase = "served"
           chain  == IF cached THEN req.chain ELSE ChainCandidates(p, flow, M)
       IN  req' = [phase |-> "resolving", p |-> p, flow |-> flow, chain |-> chain,
                   open |-> IF cached THEN {} ELSE chain \X Questions,
                   time |-> 0, overtaken |-> {}, gates |-> NoGates, served |-> {}]
  /\ UNCHANGED <<govVars, syncVars>>

\* resolve_chain: where the flow would look.
Begin(p, flow) ==
  /\ req.phase \in {"idle", "served"}
  /\ flow.container \in known
  /\ \E M \in IF Project(flow) = NoScope THEN {{}} ELSE ModulesTouched(Project(flow), flow.paths) :
       LET chain == ChainCandidates(p, flow, M)
       IN  req' = [phase |-> "resolving", p |-> p, flow |-> flow, chain |-> chain,
                   open |-> chain \X Questions, time |-> 0, overtaken |-> {},
                   gates |-> NoGates, served |-> {}]
  /\ UNCHANGED <<govVars, syncVars>>

\* readable, for one scope; what it does not find readable is left out.
Check(s, q) ==
  /\ req.phase = "resolving" /\ <<s, q>> \in req.open
  /\ req' = IF Answer(req.p, s, q)
            THEN [req EXCEPT !.open = @ \ {<<s, q>>}]
            ELSE [req EXCEPT !.chain = @ \ {s}, !.open = @ \ ({s} \X Questions)]
  /\ UNCHANGED <<govVars, syncVars>>

\* The sync of the flow's surface is stale: older than the bound when the read began.
Stale(surface) ==
  surface \in Synced /\ synced[surface] # Never /\ synced[surface] - req.time > Bound

\* Mutant: staleness is noted in the event, and nothing more.
CheckStaleness_Noted ==
  /\ req.phase = "resolving" /\ req.open = {}
  /\ req' = [req EXCEPT !.phase = "dated"]
  /\ UNCHANGED <<govVars, syncVars>>

\* _degraded_read: beyond the bound, private scopes of synced surfaces are left out.
CheckStaleness ==
  /\ req.phase = "resolving" /\ req.open = {}
  /\ req' = [req EXCEPT !.phase = "dated",
                        !.chain = IF Stale(req.flow.surface) THEN @ \ SyncedPrivate(@) ELSE @]
  /\ UNCHANGED <<govVars, syncVars>>

Gates(p, flow) == ReadPolicy(Layers(p.actor, flow.surface, {}))

ReadGates ==
  /\ req.phase = "dated"
  /\ req' = [req EXCEPT !.phase = "ruled", !.gates = Gates(req.p, req.flow)]
  /\ UNCHANGED <<govVars, syncVars>>

\* What retrieval sees of a row.
View(m) ==
  [staged |-> mem[m].staged, trust |-> mem[m].item.trust,
   sensitivity |-> mem[m].sensitivity, categories |-> Categories(mem[m].item)]

\* search and _deliver.
Deliver ==
  /\ req.phase = "ruled"
  /\ req' = [req EXCEPT !.phase = "served",
                        !.served = {<<m, mem[m].scope>> :
                                      m \in {m \in Stored : /\ mem[m].scope \in req.chain
                                                            /\ Passes(req.gates, View(m))}}]
  /\ UNCHANGED <<govVars, syncVars>>

\* The read is over, was given up, or failed.
Finish ==
  /\ req.phase # "idle"
  /\ req' = Idle
  /\ UNCHANGED <<govVars, syncVars>>

-----------------------------------------------------------------------------

Outside ==
  \/ \E x \in Pairs : Leave(x[1], x[2]) \/ Return(x[1], x[2])
  \/ \E s \in Synced : Snapshot(s)
  \/ ApplyOne \/ Heartbeat \/ GiveUp \/ Tick

Reading ==
  \/ \E r \in Reads : Begin(r.p, r.flow)
  \/ \E s \in Scopes, q \in Questions : Check(s, q)
  \/ CheckStaleness \/ ReadGates \/ Deliver \/ Finish

\* What the reader cannot see now: scopes by question, and memories by gate.
Unseen ==
  IF req = Idle THEN Nothing
  ELSE [scopes |-> {x \in req.chain \X Questions : ~Answer(req.p, x[1], x[2])},
        mems   |-> LET gates == Gates(req.p, req.flow)
                   IN  {m \in Stored : ~Passes(gates, View(m))}]

Begins == req.phase \in {"idle", "served"} /\ req'.phase = "resolving"

\* What is barred when a read begins stays so until it is seen once.
Note ==
  barred' = IF Begins THEN Unseen'
            ELSE [scopes |-> barred.scopes \cap Unseen'.scopes,
                  mems   |-> barred.mems \cap Unseen'.mems]

RecallNext ==
  /\ \/ Outside
     \/ Reading
     \/ Next /\ UNCHANGED <<syncVars, req>>
  /\ Note

RecallSpec == RecallInit /\ [][RecallNext]_recallVars

-----------------------------------------------------------------------------
(* Properties.                                                             *)

\* What is handed out was, at some time since the read began, in a scope the agent was
\* enrolled in, in a scope its user could see, and within the gates (resolve_chain,
\* _degraded_read, search): no revocation that came before the read is outlived.
Entitled ==
  req.phase = "served" =>
    \A x \in req.served : /\ x[1] \notin barred.mems
                           /\ ({x[2]} \X Questions) \cap barred.scopes = {}

\* Who has left a private scope on the surface reads nothing of it once the bound on
\* the sync and the time a sync takes have passed; but for a read that a sync overtakes
\* between its check of the membership and its check of the age (_degraded_read).
StaleBounded ==
  req.phase = "served" =>
    \A x \in req.served :
      LET pair    == <<x[2], EffectiveUser(req.p)>>
          surface == req.flow.surface
      IN  /\ pair \in Pairs /\ Surface[x[2]] = surface
          /\ surface \in Synced \ req.overtaken /\ synced[surface] # Never
          => gone[pair] - req.time <= Bound + CycleTime

\* "Beyond the bound, private-trust-class scopes fail closed" (doc 07, section 5).
FailsClosed ==
  req.phase = "served" =>
    \A x \in SyncedPrivate({y[2] : y \in req.served}) :
      Surface[x] \in Synced \ req.overtaken => ~Stale(Surface[x])
=============================================================================
