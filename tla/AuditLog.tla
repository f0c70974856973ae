------------------------------- MODULE AuditLog -------------------------------
(***************************************************************************)
(* What an auditor who anchors head hashes relies on: every hash-chained   *)
(* scope has one history, and all that ever happens to it is that further  *)
(* events are added behind its end.                                        *)
(***************************************************************************)
EXTENDS SequencesExt

CONSTANTS
  ChainedScopes,  \* scopes of the hash-chained families
  Event

VARIABLE history  \* [ChainedScopes -> Seq(Event)]

Init == history = [s \in ChainedScopes |-> <<>>]

\* One unit of work adds its events, to one scope or to several, at once.
Extend ==
  /\ history' \in [ChainedScopes -> Seq(Event)]
  /\ \A s \in ChainedScopes : IsPrefix(history[s], history'[s])

Spec == Init /\ [][Extend]_history
=============================================================================
