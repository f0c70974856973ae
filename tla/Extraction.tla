------------------------------ MODULE Extraction ------------------------------
(***************************************************************************)
(* Background extraction: ingesters register episodes, each in its own     *)
(* transaction, while workers read a scope's episodes past its watermark,  *)
(* propose what they tell through MemoryService.remember, and only then    *)
(* save the watermark.  Every read, every remember and every save is a     *)
(* transaction of its own, so workers, ingesters and erasures meet between *)
(* any two of them.                                                        *)
(*                                                                         *)
(* now() is the start of a transaction: an episode is stamped when its     *)
(* registration begins and seen when it commits.  Whether a scope is due   *)
(* depends on occurred_at, which clients supply; here any scope with       *)
(* unprocessed episodes may be due.                                        *)
(*                                                                         *)
(* Every episode here holds one candidate; with extractor = 'none' none    *)
(* does, nothing is proposed, and the watermark passes all the same.       *)
(***************************************************************************)
EXTENDS Integers, FiniteSetsExt

CONSTANTS
  Episodes,     \* episodes with content, each registered at most once
  Scopes,
  ScopeOf,      \* [Episodes -> Scopes]
  Ingesters,    \* each registers one episode at a time
  Workers,
  Admitted,     \* episodes whose fact the policy lets in, staged or active
  MaxCrashes,   \* bound: workers killed, or stopped by an exception of remember
  MaxTurns      \* bound: scopes that gain or lose their writer agent

ASSUME ScopesKnown == ScopeOf \in [Episodes -> Scopes]
ASSUME ExtractionBounds == MaxCrashes \in Nat /\ MaxTurns \in Nat

VARIABLES
  clock,     \* the database's time
  ep,        \* ep[e]: the row of e
  stamp,     \* stamp[e]: episodes.recorded_at
  opened,    \* opened[i]: the episode i is registering, or Nothing
  mark,      \* mark[s]: extraction_state.processed_through, or NeverRun
  writers,   \* scopes in whose chain some agent is a writer
  todo,      \* todo[w]: scopes the run of w found due and has not finished
  at,        \* at[w]: the scope w works on, or Nothing
  batch,     \* batch[w]: the episodes w has read, content included
  left,      \* left[w]: those of them w has still to propose
  learned,   \* episodes a live memory is derived from
  handled,   \* history: episodes proposed, or passed over for want of a writer
  spilled,   \* history: episodes that a worker had still to propose when they were erased
  crashes, turns

worker == <<todo, at, batch, left>>
vars == <<clock, ep, stamp, opened, mark, writers, worker, learned, handled, spilled, crashes, turns>>

Nothing == "nothing"
NeverRun == 0
ASSUME NamesFree == Nothing \notin Scopes \cup Episodes

Init ==
  /\ clock = 1
  /\ ep = [e \in Episodes |-> "unborn"]
  /\ stamp = [e \in Episodes |-> 0]
  /\ opened = [i \in Ingesters |-> Nothing]
  /\ mark = [s \in Scopes |-> NeverRun]
  /\ writers = Scopes
  /\ todo = [w \in Workers |-> {}]
  /\ at = [w \in Workers |-> Nothing]
  /\ batch = [w \in Workers |-> {}]
  /\ left = [w \in Workers |-> {}]
  /\ learned = {} /\ handled = {} /\ spilled = {}
  /\ crashes = 0 /\ turns = 0

-----------------------------------------------------------------------------
(* Episodes: register_episode, erasure, enrollment.                        *)

Register(i, e) ==
  /\ opened[i] = Nothing /\ ep[e] = "unborn"
  /\ opened' = [opened EXCEPT ![i] = e]
  /\ ep' = [ep EXCEPT ![e] = "open"]
  /\ stamp' = [stamp EXCEPT ![e] = clock]
  /\ clock' = clock + 1
  /\ UNCHANGED <<mark, writers, worker, learned, handled, spilled, crashes, turns>>

EndRegister(i, outcome) ==
  /\ opened[i] # Nothing
  /\ ep' = [ep EXCEPT ![opened[i]] = outcome]
  /\ opened' = [opened EXCEPT ![i] = Nothing]
  /\ UNCHANGED <<clock, stamp, mark, writers, worker, learned, handled, spilled, crashes, turns>>

\* Mutant: the closure starts from memories about the author, not from the episodes.
Erase_EpisodeOnly(e) ==
  /\ ep[e] = "stored"
  /\ ep' = [ep EXCEPT ![e] = "erased"]
  /\ spilled' = IF e \in Admitted /\ \E w \in Workers : e \in left[w] THEN spilled \cup {e}
                ELSE spilled
  /\ UNCHANGED <<clock, stamp, opened, mark, writers, worker, learned, handled, crashes, turns>>

\* The episode's author is erased: its content goes, and so do the memories
\* derived from it.
Erase(e) ==
  /\ ep[e] = "stored"
  /\ ep' = [ep EXCEPT ![e] = "erased"]
  /\ learned' = learned \ {e}
  /\ spilled' = IF e \in Admitted /\ \E w \in Workers : e \in left[w] THEN spilled \cup {e}
                ELSE spilled
  /\ UNCHANGED <<clock, stamp, opened, mark, writers, worker, handled, crashes, turns>>

Enroll(s) ==
  /\ turns < MaxTurns
  /\ turns' = turns + 1
  /\ writers' = IF s \in writers THEN writers \ {s} ELSE writers \cup {s}
  /\ UNCHANGED <<clock, ep, stamp, opened, mark, worker, learned, handled, spilled, crashes>>

-----------------------------------------------------------------------------
(* ExtractionWorker.run.                                                   *)

\* Mutant: the watermark is inclusive.
Unprocessed_Inclusive(s) == {e \in Episodes : ScopeOf[e] = s /\ ep[e] = "stored" /\ stamp[e] >= mark[s]}

Unprocessed(s) == {e \in Episodes : ScopeOf[e] = s /\ ep[e] = "stored" /\ stamp[e] > mark[s]}

Backlog == {s \in Scopes : Unprocessed(s) # {}}

Idle(w) == todo[w] = {} /\ at[w] = Nothing

\* due_scopes: D is the part of the backlog at its lull or past the cap.
StartRun(w, D) ==
  /\ Idle(w) /\ D # {} /\ D \subseteq Backlog
  /\ todo' = [todo EXCEPT ![w] = D]
  /\ UNCHANGED <<clock, ep, stamp, opened, mark, writers, at, batch, left, learned, handled, spilled, crashes, turns>>

\* Mutant: only the newest episode of the lull is read.
ReadBatch_Newest(w, s) ==
  LET seen == {e \in Unprocessed(s) : \A f \in Unprocessed(s) : stamp[f] <= stamp[e]} IN
  /\ s \in todo[w] /\ at[w] = Nothing
  /\ at' = [at EXCEPT ![w] = s]
  /\ batch' = [batch EXCEPT ![w] = seen]
  /\ left' = [left EXCEPT ![w] = IF s \in writers THEN seen ELSE {}]
  /\ handled' = IF s \in writers THEN handled ELSE handled \cup seen
  /\ UNCHANGED <<clock, ep, stamp, opened, mark, writers, todo, learned, spilled, crashes, turns>>

\* _run_scope reads the episodes anew, and the agent it is to act as.  Without an
\* agent nothing is proposed, and these episodes are not owed a retry.
ReadBatch(w, s) ==
  /\ s \in todo[w] /\ at[w] = Nothing
  /\ at' = [at EXCEPT ![w] = s]
  /\ batch' = [batch EXCEPT ![w] = Unprocessed(s)]
  /\ left' = [left EXCEPT ![w] = IF s \in writers THEN Unprocessed(s) ELSE {}]
  /\ handled' = IF s \in writers THEN handled ELSE handled \cup Unprocessed(s)
  /\ UNCHANGED <<clock, ep, stamp, opened, mark, writers, todo, learned, spilled, crashes, turns>>

\* remember commits: the policy lets the fact in, or it is denied or waits for a user.
Propose(w, e) ==
  /\ e \in left[w]
  /\ left' = [left EXCEPT ![w] = @ \ {e}]
  /\ handled' = handled \cup {e}
  /\ learned' = learned \cup ({e} \cap Admitted)
  /\ UNCHANGED <<clock, ep, stamp, opened, mark, writers, todo, at, batch, spilled, crashes, turns>>

\* Mutant: the batch of one scope is carried over to the next.
Save_KeepsBatch(w) ==
  /\ at[w] # Nothing /\ left[w] = {} /\ batch[w] # {}
  /\ mark' = [mark EXCEPT ![at[w]] = Max({stamp[e] : e \in batch[w]})]
  /\ todo' = [todo EXCEPT ![w] = @ \ {at[w]}]
  /\ at' = [at EXCEPT ![w] = Nothing]
  /\ UNCHANGED <<clock, ep, stamp, opened, writers, batch, left, learned, handled, spilled, crashes, turns>>

\* Mutant: the watermark is saved without waiting for the proposals.
Save_Early(w) ==
  /\ at[w] # Nothing /\ batch[w] # {}
  /\ mark' = [mark EXCEPT ![at[w]] = Max({stamp[e] : e \in batch[w]})]
  /\ todo' = [todo EXCEPT ![w] = @ \ {at[w]}]
  /\ at' = [at EXCEPT ![w] = Nothing]
  /\ batch' = [batch EXCEPT ![w] = {}]
  /\ UNCHANGED <<clock, ep, stamp, opened, writers, left, learned, handled, spilled, crashes, turns>>

\* The watermark is set, not raised: a slower worker may move it back.
Save(w) ==
  /\ at[w] # Nothing /\ left[w] = {} /\ batch[w] # {}
  /\ mark' = [mark EXCEPT ![at[w]] = Max({stamp[e] : e \in batch[w]})]
  /\ todo' = [todo EXCEPT ![w] = @ \ {at[w]}]
  /\ at' = [at EXCEPT ![w] = Nothing]
  /\ batch' = [batch EXCEPT ![w] = {}]
  /\ UNCHANGED <<clock, ep, stamp, opened, writers, left, learned, handled, spilled, crashes, turns>>

Stopped(w) ==
  /\ todo' = [todo EXCEPT ![w] = {}]
  /\ at' = [at EXCEPT ![w] = Nothing]
  /\ batch' = [batch EXCEPT ![w] = {}]
  /\ left' = [left EXCEPT ![w] = {}]

\* The scope was due, but another worker has processed it, or its episodes were
\* erased: max() of nothing raises ValueError, which ends the run.
EmptyBatch(w) ==
  /\ at[w] # Nothing /\ batch[w] = {}
  /\ Stopped(w)
  /\ UNCHANGED <<clock, ep, stamp, opened, mark, writers, learned, handled, spilled, crashes, turns>>

Crash(w) ==
  /\ ~Idle(w) /\ crashes < MaxCrashes
  /\ crashes' = crashes + 1
  /\ Stopped(w)
  /\ UNCHANGED <<clock, ep, stamp, opened, mark, writers, learned, handled, spilled, turns>>

-----------------------------------------------------------------------------

Next ==
  \/ \E i \in Ingesters, e \in Episodes : Register(i, e)
  \/ \E i \in Ingesters, outcome \in {"stored", "rolled back"} : EndRegister(i, outcome)
  \/ \E e \in Episodes : Erase(e)
  \/ \E s \in Scopes : Enroll(s)
  \/ \E w \in Workers :
       \/ \E D \in SUBSET Scopes : StartRun(w, D)
       \/ \E s \in Scopes : ReadBatch(w, s)
       \/ \E e \in Episodes : Propose(w, e)
       \/ Save(w) \/ EmptyBatch(w) \/ Crash(w)

Spec == Init /\ [][Next]_vars

\* The job is scheduled, a run goes on until it ends or dies, and past the cap every
\* scope of the backlog is due.
FairSpec ==
  /\ Spec
  /\ \A w \in Workers :
       /\ WF_vars(StartRun(w, Backlog))
       /\ WF_vars(\E s \in Scopes : ReadBatch(w, s))
       /\ WF_vars(\E e \in Episodes : Propose(w, e))
       /\ WF_vars(Save(w)) /\ WF_vars(EmptyBatch(w))

-----------------------------------------------------------------------------
(* Properties.                                                             *)

ExtractionTypeOK ==
  /\ ep \in [Episodes -> {"unborn", "open", "stored", "rolled back", "erased"}]
  /\ clock \in Nat /\ stamp \in [Episodes -> Nat] /\ mark \in [Scopes -> Nat]
  /\ opened \in [Ingesters -> Episodes \cup {Nothing}]
  /\ writers \subseteq Scopes /\ learned \subseteq Episodes /\ handled \subseteq Episodes
  /\ spilled \subseteq Episodes
  /\ todo \in [Workers -> SUBSET Scopes]
  /\ at \in [Workers -> Scopes \cup {Nothing}]
  /\ batch \in [Workers -> SUBSET Episodes] /\ left \in [Workers -> SUBSET Episodes]
  /\ \A w \in Workers : left[w] \subseteq batch[w] /\ (at[w] = Nothing => batch[w] = {})
  /\ crashes \in 0..MaxCrashes /\ turns \in 0..MaxTurns

\* The episodes of a scope arrive one after the other.
OneAtATime ==
  \A i, j \in Ingesters :
    opened[i] # Nothing /\ opened[j] # Nothing /\ ScopeOf[opened[i]] = ScopeOf[opened[j]] => i = j

\* Where they do, none that is there when the watermark passes it goes unread: whatever workers overlap, die between the
\* proposals and the save, or move the watermark back.
NothingLost ==
  \A e \in Episodes : ep[e] = "stored" /\ stamp[e] <= mark[ScopeOf[e]] => e \in handled

\* No episode waits for ever (module docstring: "never wait past the cap"): it is
\* proposed, unless it is erased or no agent may write in its scope.
NeverWaits == \A e \in Episodes : ep[e] = "stored" ~> (e \in handled \/ ep[e] = "erased")

\* Extraction comes to rest: once episodes stop coming, the backlog is empty for good
\* and nothing is proposed again (test_debounce_and_cap: "idempotent").
ComesToRest == <>[](Backlog = {} /\ \A w \in Workers : Idle(w))

\* What an erased author said is learned after the erasure only by a worker that had
\* read it before and was still at work (_run_scope keeps the content it has read): the
\* erasure reaches what is learned, and nobody reads the episode again.
ErasureSpills == \A e \in learned : ep[e] = "erased" => e \in spilled
=============================================================================
