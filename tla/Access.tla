------------------------------- MODULE Access -------------------------------
(***************************************************************************)
(* scopes.py: the scope tree, the relation tuples, and who may read and    *)
(* write where.  Access is decided from the tuples as they are when it is  *)
(* asked for; nothing is cached.  With it the operations that administer   *)
(* the tables it reads: scopes, scope_relations, module_paths.             *)
(***************************************************************************)
EXTENDS Integers, FiniteSetsExt, Functions, Sequences

CONSTANTS
  Scopes,       \* every scope that may come to exist
  Parent,       \* [Scopes -> Scopes \cup {NoScope}]
  Family,       \* [Scopes -> family]
  Class,        \* [Scopes -> trust_class]
  Surface,      \* [Scopes -> surface, or NoSurface]
  NoScope, NoSurface,
  Org,          \* setting org_scope_id
  Users, Agents,
  Service,      \* CONSOLIDATOR, whom reflection writes as
  NoUser,
  SubjectScope, \* [Users -> Scopes]: subject_scope_id
  Paths,        \* repository paths a flow may touch
  Globs,        \* patterns an administrator may map to a module
  Fits,         \* pairs of a path and a glob it matches
  GlobLength    \* [Globs -> length]

VARIABLES
  known,        \* the scopes that exist
  rel,          \* scope_relations: tuples of scope, relation, principal
  globs         \* module_paths: pairs of a module scope and a glob

accessVars == <<known, rel, globs>>

ASSUME TreeAssumption ==
  /\ Org \in Scopes /\ NoScope \notin Scopes
  /\ Parent \in [Scopes -> Scopes \cup {NoScope}]
  /\ SubjectScope \in [Users -> Scopes]
  /\ NoUser \notin Users
  /\ Agents \subseteq Scopes     \* the notebook of an agent goes by its name

Relations ==
  {"member", "owner", "reader_agent", "writer_agent", "auditor", "module_owner", "maintainer"}

Tuples == Scopes \X Relations \X (Users \cup Agents)

\* Who calls: the actor, and the user an agent acts for.
Principal(kind, actor, user) == [kind |-> kind, actor |-> actor, user |-> user]

AsUser(u) == Principal("user", u, NoUser)

EffectiveUser(p) == IF p.user # NoUser THEN p.user
                    ELSE IF p.kind = "user" THEN p.actor ELSE NoUser

-----------------------------------------------------------------------------
(* The tree.                                                               *)

\* The scope and its ancestors, narrowest first.
Path[s \in Scopes] == IF Parent[s] = NoScope THEN <<s>> ELSE <<s>> \o Path[Parent[s]]

\* The walk upward begins with the scope and ends: a scope is created below one that
\* exists, and none is its own ancestor.
ASSUME WalkAssumption ==
  \A s \in Scopes : Path[s] \in Seq(Scopes) /\ Path[s] # <<>> /\ Path[s][1] = s

Up == [s \in Scopes |-> Path[s]]

Ancestors(s) == Range(Up[s])

\* The nearest container right below a surface.
FlowProject(container) ==
  LET up == Up[container]
      homes == {i \in DOMAIN up : /\ Family[up[i]] = "container"
                                  /\ Parent[up[i]] # NoScope
                                  /\ Family[Parent[up[i]]] = "surface"}
  IN  IF homes = {} THEN NoScope ELSE up[Min(homes)]

\* The modules of a project whose globs match a path best. Which of several equally
\* long matches is found first is up to the database.
BestModules(project, path) ==
  LET hits == {g \in globs : /\ Family[g[1]] = "module"
                             /\ project \in Ancestors(g[1])
                             /\ <<path, g[2]>> \in Fits}
  IN  {g[1] : g \in {g \in hits : \A h \in hits : GlobLength[h[2]] <= GlobLength[g[2]]}}

\* The sets of modules a flow may be found to touch; unmatched paths belong to none.
ModulesTouched(project, paths) ==
  LET hit == {p \in paths : BestModules(project, p) # {}}
  IN  {Range(best) : best \in {f \in [hit -> Scopes] :
                                 \A p \in hit : f[p] \in BestModules(project, p)}}

-----------------------------------------------------------------------------
(* Who sees what.                                                          *)

Holds(S, relation, who) == \E s \in S : <<s, relation, who>> \in rel

\* Those with a tuple that makes them part of s.
Insiders(s) == {t[3] : t \in {t \in rel : t[1] = s /\ t[2] \in {"member", "owner"}}}

\* The nearest scope upward that has members governs; a private one without any
\* fails closed.
UserCanSee(u, s) ==
  LET up    == Up[s]
      stops == {i \in DOMAIN up : Insiders(up[i]) # {} \/ Class[up[i]] = "private"}
  IN  stops # {} /\ u \in Insiders(up[Min(stops)])

IsOrgAdmin(p) == <<Org, "owner", p.actor>> \in rel

IsAuditor(p) == <<Org, "auditor", p.actor>> \in rel

\* The agent's own notebook is its to read and write, and nobody else's.
OwnNotebook(p, s) == s = p.actor

\* Agents need enrollment in the scope or above it; and whoever they work for must see
\* it. The service itself needs neither.
Enrolled(p, s, relation) == p.kind = "agent" => Holds(Ancestors(s), relation, p.actor)

Sees(p, s) ==
  LET u == EffectiveUser(p)
  IN  p.kind = "system" \/ u = NoUser \/ UserCanSee(u, s)

Readable(p, s) ==
  /\ s \in known
  /\ IF Family[s] = "agent" THEN OwnNotebook(p, s)
     ELSE Enrolled(p, s, "reader_agent") /\ Sees(p, s)

\* Only the subject writes in a subject scope in person.
Writable(p, s) ==
  /\ s \in known
  /\ IF Family[s] = "agent" THEN OwnNotebook(p, s)
     ELSE IF p.kind = "user" /\ Family[s] = "subject" THEN <<s, "owner", p.actor>> \in rel
     ELSE Enrolled(p, s, "writer_agent") /\ Sees(p, s)

\* Where a flow looks before access is checked: the container and what lies above it
\* but for surfaces, the touched modules and their project, scopes of other surfaces
\* the agent is enrolled in by name, the participants' subject scopes and the agent's
\* own. Their order only ranks, and is left out.
ChainCandidates(p, flow, modules) ==
  LET project == IF flow.project # NoScope THEN flow.project ELSE FlowProject(flow.container)
      above   == {s \in Ancestors(flow.container) : Family[s] # "surface"}
      touched == IF project # NoScope /\ flow.paths # {} THEN modules \cup {project} ELSE {}
      distant == {s \in known : /\ <<s, "reader_agent", p.actor>> \in rel
                                /\ Family[s] = "container" /\ Class[s] # "private"
                                /\ Surface[s] \notin {NoSurface, flow.surface}}
      people  == flow.participants \cup ({EffectiveUser(p)} \ {NoUser})
  IN  above \cup touched
      \cup (IF p.kind = "agent" THEN distant \cup ({p.actor} \cap known) ELSE {})
      \cup ({SubjectScope[u] : u \in people} \cap known)

\* Scopes whose visibility rests on a sync of the surface, and which fail closed.
SyncedPrivate(S) == {s \in S : Class[s] = "private" /\ Surface[s] # NoSurface}

-----------------------------------------------------------------------------
(* Administration.                                                         *)

CreateScope(s) ==
  /\ s \notin known
  /\ Parent[s] \in known \cup {NoScope}
  /\ known' = known \cup {s}
  /\ UNCHANGED <<rel, globs>>

\* set_relation: adding what is there and removing what is not change nothing.
SetRelation(t, remove) ==
  /\ t[1] \in known
  /\ rel' = IF remove THEN rel \ {t} ELSE rel \cup {t}
  /\ UNCHANGED <<known, globs>>

\* The stored set is the whole boundary of the module.
SetModulePaths(p, m, G) ==
  /\ p.kind = "system" \/ IsOrgAdmin(p)
  /\ m \in known /\ Family[m] = "module"
  /\ globs' = {g \in globs : g[1] # m} \cup ({m} \X G)
  /\ UNCHANGED <<known, rel>>
=============================================================================
