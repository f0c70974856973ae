------------------------------- MODULE MCRecall -------------------------------
(***************************************************************************)
(* Instances of Recall: a private channel, and a private repository that   *)
(* is read from a session on another surface.                              *)
(***************************************************************************)
EXTENDS Recall

CONSTANT MaxEdits    \* bound: administrative changes

VARIABLE edits

MCParent ==
  [org |-> "none", slack |-> "org", dm |-> "slack", gitlab |-> "org", den |-> "gitlab",
   ide |-> "org", session |-> "ide", about_dana |-> "org", sage |-> "org"]

MCScopes == DOMAIN MCParent

\* Nobody has written about dana yet, and the agent no notes.
MCFirstScopes == MCScopes \ {"about_dana", "sage"}

MCFamily ==
  [org |-> "org", slack |-> "surface", dm |-> "container", gitlab |-> "surface",
   den |-> "container", ide |-> "surface", session |-> "container", about_dana |-> "subject",
   sage |-> "agent"]

MCClass == [s \in MCScopes |-> IF s \in {"dm", "den"} THEN "private" ELSE "internal_public"]

MCSurface ==
  [s \in MCScopes |-> CASE s \in {"slack", "dm"}     -> "slack"
                        [] s \in {"gitlab", "den"}  -> "gitlab"
                        [] s \in {"ide", "session"} -> "ide"
                        [] OTHER                    -> "no surface"]

MCSubjectScope == [u \in {"dana"} |-> "about_dana"]

MCFirstTuples ==
  {<<"org", "reader_agent", "sage">>, <<"org", "writer_agent", "sage">>,
   <<"dm", "member", "dana">>, <<"den", "member", "dana">>, <<"org", "owner", "dana">>,
   <<"session", "member", "dana">>}

SageForDana == Principal("agent", "sage", "dana")

DmFlow == [container |-> "dm", surface |-> "slack", project |-> NoScope,
           paths |-> {}, participants |-> {}]
DenFlow == [container |-> "den", surface |-> "gitlab", project |-> NoScope,
            paths |-> {}, participants |-> {}]
SessionFlow == [container |-> "session", surface |-> "ide", project |-> "den",
                paths |-> {"pay.py"}, participants |-> {}]

Plan == [text |-> "plan", kind |-> "semantic", origin |-> "explicit_user_ask",
         claimed |-> {}, entities |-> {}, subjects |-> {}, persons |-> {},
         sensitivity |-> 1, trust |-> 50]

MCDmCalls == {[p |-> SageForDana, flow |-> DmFlow, item |-> Plan]}
MCDenCalls == {[p |-> SageForDana, flow |-> DenFlow, item |-> Plan]}

MCDmReads == {[p |-> SageForDana, flow |-> DmFlow]}
MCSessionReads == {[p |-> SageForDana, flow |-> SessionFlow]}

MCNoPromotions == {}
MCNoGrants == {}
MCGrants == {<<"org", "reader_agent", "sage">>}

MCFits == {}
MCGlobLength == [g \in {} |-> 0]

\* The surface hides what is not public.
PublicOnly == [EmptyLayer EXCEPT !.name = "surface", !.applies = "slack", !.ceiling = 0]
MCDocuments == {PublicOnly}

MCInit == RecallInit /\ edits = 0

\* Of all administration, what a read depends on.
Edit ==
  \/ \E t \in Grants, remove \in BOOLEAN : SetRelation(t, remove) /\ UNCHANGED <<book, frozen>>
  \/ \E u \in Users, d \in Documents : PutPolicy(AsUser(u), d)

MCNext ==
  /\ \/ (Outside \/ Reading) /\ UNCHANGED edits
     \/ Serve /\ UNCHANGED <<syncVars, req, edits>>
     \/ /\ edits < MaxEdits /\ edits' = edits + 1
        /\ Edit /\ UNCHANGED <<mem, asks, syncVars, req>>
  /\ Note

MCSpec == MCInit /\ [][MCNext]_<<recallVars, edits>>
=============================================================================
