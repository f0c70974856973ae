----------------------------- MODULE MCMemoramum -----------------------------
(***************************************************************************)
(* The instances of the memory service TLC explores.                       *)
(***************************************************************************)
EXTENDS Properties

\* A channel inside a workspace.
MCScopes == {"channel", "workspace"}
MCChain == [s \in MCScopes |-> IF s = "channel" THEN <<"channel", "workspace">>
                               ELSE <<"workspace">>]
MCChannel == {"channel"}
MCChannelChain == [s \in MCChannel |-> <<"channel">>]

\* Two statements that cannot both hold, and one that fits with both.
MCConflicts == {<<"daily", "weekly">>, <<"weekly", "daily">>}
MCTokenized ==
  [f \in Facts |-> IF f = "weekly" /\ "masked" \in Facts THEN "masked" ELSE f]

\* dana is a member; mallory is not. ask: the episode of a user directive.
MCEpisodes == {"ask", "dana1", "dana2", "mallory1"}
MCAuthor == [e \in MCEpisodes |-> IF e = "mallory1" THEN "mallory" ELSE "dana"]
MCDay == [e \in MCEpisodes |-> IF e = "dana2" THEN 2 ELSE 1]
MCSourceKind == [e \in MCEpisodes |-> IF e = "ask" THEN "user_directive" ELSE "message"]

Says(f, s, origin, eps) ==
  [fact |-> f, scope |-> s, origin |-> origin, agent |-> "sage", about |-> {},
   eps |-> eps, srcs |-> {}]

\* An ask and observations that collide.
MCTwoSidedWrites ==
  {Says("daily", "channel", "explicit_user_ask", {}),
   Says("weekly", "channel", "agent_observed", {"mallory1"}),
   Says("weekly", "channel", "agent_observed", {"dana1"}),
   Says("daily", "channel", "agent_observed", {"dana1"})}

\* These, and an ask in the workspace.
MCTwoScopeWrites == MCTwoSidedWrites \cup {Says("weekly", "workspace", "explicit_user_ask", {})}

\* Copies of one fact arrive by two scopes, one of them staged; a third conflicts.
MCMergeWrites ==
  {Says("daily", "workspace", "explicit_user_ask", {}),
   Says("daily", "channel", "agent_observed", {"mallory1"}),
   Says("weekly", "channel", "agent_observed", {"dana1"})}

\* mallory's words, dana's words about mallory's fact, an ask about mallory.
MCIncidentWrites ==
  {Says("daily", "channel", "agent_observed", {"mallory1"}),
   Says("weekly", "channel", "agent_observed", {"dana1"}),
   [Says("weekly", "channel", "explicit_user_ask", {}) EXCEPT !.about = {"mallory"}]}

\* One observation, against a pinned fact if there is one, for all parts of the system.
MCWholeWrites == {Says("weekly", "channel", "agent_observed", {"mallory1"})}
=============================================================================
