----------------------------- MODULE MCGovernance -----------------------------
(***************************************************************************)
(* An instance of Governance: a channel with a private conversation in it, *)
(* a repository with a module, and two people one agent works for.         *)
(***************************************************************************)
EXTENDS Governance

CONSTANT MaxEdits    \* bound: administrative changes

VARIABLE edits

MCParent ==
  [org |-> "none", slack |-> "org", channel |-> "slack", dm |-> "channel",
   gitlab |-> "org", repo |-> "gitlab", module |-> "repo",
   about_dana |-> "org", about_sam |-> "org", sage |-> "org"]

MCScopes == DOMAIN MCParent

MCFamily ==
  [org |-> "org", slack |-> "surface", channel |-> "container", dm |-> "container",
   gitlab |-> "surface", repo |-> "container", module |-> "module",
   about_dana |-> "subject", about_sam |-> "subject", sage |-> "agent"]

MCClass == [s \in MCScopes |-> IF s = "dm" THEN "private" ELSE "internal_public"]

MCSurface ==
  [s \in MCScopes |-> CASE s \in {"slack", "channel", "dm"}     -> "slack"
                        [] s \in {"gitlab", "repo", "module"}  -> "gitlab"
                        [] OTHER                               -> "no surface"]

MCSubjectScope == [u \in {"dana", "sam"} |-> IF u = "dana" THEN "about_dana" ELSE "about_sam"]

\* Subject scopes and the notebook are provisioned when they are first needed.
MCFirstScopes == MCScopes \ {"about_dana", "about_sam", "sage", "module"}

MCFirstTuples ==
  {<<"org", "owner", "sam">>, <<"org", "reader_agent", "sage">>,
   <<"org", "writer_agent", "sage">>, <<"channel", "member", "dana">>,
   <<"dm", "member", "dana">>, <<"repo", "member", "dana">>, <<"repo", "maintainer", "dana">>}

MCFits == {<<"pay.py", "pay*">>}
MCGlobLength == [g \in {"pay*"} |-> 4]

Sage == Principal("agent", "sage", NoUser)
SageFor(u) == Principal("agent", "sage", u)

ChannelFlow == [container |-> "channel", surface |-> "slack", project |-> NoScope,
                paths |-> {}, participants |-> {"dana"}]
SessionFlow == [container |-> "repo", surface |-> "ide", project |-> NoScope,
                paths |-> {"pay.py"}, participants |-> {}]

Said(text, origin, claimed, subjects, persons) ==
  [text |-> text, kind |-> "semantic", origin |-> origin, claimed |-> claimed,
   entities |-> {}, subjects |-> subjects, persons |-> persons,
   sensitivity |-> 1, trust |-> 50]

\* What dana says of herself and of sam, a convention and a tactic the agent
\* noticed, and a secret.
Deadline == Said("deadline", "explicit_user_ask", {}, {}, {"sam"})
Habit == Said("habit", "explicit_user_ask", {}, {"dana"}, {"dana"})
Convention == Said("convention", "agent_observed", {"codebase_convention"}, {}, {})
Tactic == Said("tactic", "agent_observed", {"task_tactic"}, {}, {})
Secret == [Habit EXCEPT !.entities = {"credential"}]

\* And what reflection makes of what was said in the channel.
ReflectionFlow == [ChannelFlow EXCEPT !.participants = {}]
Digest == [Said("digest", "consolidated", {}, {}, {"dana"}) EXCEPT !.kind = "procedural"]

Call(p, flow, item) == [p |-> p, flow |-> flow, item |-> item]

MCCalls ==
  {Call(SageFor("dana"), ChannelFlow, Deadline), Call(SageFor("dana"), ChannelFlow, Habit),
   Call(Sage, SessionFlow, Convention), Call(Sage, SessionFlow, Tactic),
   Call(AsUser("dana"), ChannelFlow, Secret),
   Call(Principal("system", Service, NoUser), ReflectionFlow, Digest)}

MCPromotions ==
  [p : {SageFor("dana")}, flow : {ChannelFlow}, target : {"dm", "about_dana", "org"}]
  \cup [p : {Sage}, flow : {SessionFlow}, target : {"module", "repo"}]

\* sam joins and leaves the channel; the agent loses its enrollment.
MCGrants == {<<"channel", "member", "sam">>, <<"org", "writer_agent", "sage">>}

MCPathSets == {[module |-> "module", globs |-> {"pay*"}]}

\* The org asks before anything is kept, about a person under the person; dana would
\* rather not have anything kept about her.
AskFirst ==
  [EmptyLayer EXCEPT !.strategies =
     <<[AnyStrategy EXCEPT !.decision = "ask", !.participantsOnly = TRUE,
                           !.route = "subject", !.ttl = 2],
       [AnyStrategy EXCEPT !.decision = "ask"]>>]
OptOut ==
  [EmptyLayer EXCEPT !.name = "user_pref", !.applies = "dana",
     !.strategies = <<[AnyStrategy EXCEPT !.decision = "deny"]>>]
MCDocuments == {AskFirst, OptOut}

MCInit == Init /\ edits = 0

MCNext ==
  \/ Serve /\ UNCHANGED edits
  \/ edits < MaxEdits /\ Administer /\ edits' = edits + 1

MCSpec == MCInit /\ [][MCNext]_<<govVars, edits>>
=============================================================================
