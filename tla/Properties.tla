------------------------------ MODULE Properties ------------------------------
(***************************************************************************)
(* What the memory service promises, whichever of its parts are running.   *)
(***************************************************************************)
EXTENDS Memoramum

\* Every row, parked call and freeze flag is well formed.
TypeOK ==
  /\ mem \in [Mem -> Row]
  /\ asks \in [Slot -> Ask]
  /\ frozen \subseteq Agents
  /\ drafts \subseteq Candidate

-----------------------------------------------------------------------------
(* Invariants.                                                             *)

\* Lineage runs one way: a memory derives from older rows only, is superseded by
\* a newer row only, and contradicts an older row only. So no chain of successors
\* and no derivation walk (derived_closure) can come back to where it started.
Lineage ==
  \A m \in Mem :
    /\ \A k \in mem[m].from : k < m
    /\ mem[m].superBy # NoMem => m < mem[m].superBy
    /\ mem[m].held < m

\* History always leads somewhere: a memory that came to be deprecated names its
\* successor. With Lineage, following superseded_by from it ends at a memory that
\* was not superseded.
HistoryResolves ==
  \A m \in Mem : (mem[m].status = "deprecated" /\ mem[m].entered # "deprecated")
                 => mem[m].superBy # NoMem

\* An open contradiction is still open on the memory side too: the contradicted
\* row has not been superseded by its challenger, nor became a source of it.
ContestOpen ==
  \A c \in Mem : LET old == mem[c].held
                 IN  old # NoMem => mem[old].superBy # c /\ old \notin mem[c].from

\* What entered staged is not active while a contradiction is held against it:
\* no reinforcement, triage, approved ask or nightly job gets it there.
HeldWaits ==
  \A c \in Mem : (mem[c].held # NoMem /\ mem[c].entered = "staged")
                 => mem[c].status # "active"

\* Nothing that entered staged is active without an independent re-observation,
\* enough useful retrievals, or a confirmation by a human.
ActiveIsEarned ==
  \A m \in Mem : (mem[m].entered = "staged" /\ mem[m].status = "active") => Earned(mem[m])

\* A memory that entered staged and counts as re-observed rests on episodes of two
\* authors or two days, where every observation names an episode.
TwoVoices ==
  \A m \in Mem : (mem[m].entered = "staged" /\ mem[m].reobserved)
    => \E e, k \in mem[m].evidence : Author[e] # Author[k] \/ Day[e] # Day[k]

\* One live copy of a fact per scope: when handlers run one after another, the
\* duplicate check of the write path suffices as long as no memory is moved between
\* scopes. Handlers that overlap are the subject of Transactions!TwinsNeedAnAnswer.
NoTwins ==
  \A m, k \in Mem : (/\ IsLive(mem[m]) /\ IsLive(mem[k])
                     /\ mem[m].fact = mem[k].fact
                     /\ mem[m].scope = mem[k].scope) => m = k

\* What the proofs carry from step to step: a row alone shows that it is sound, so
\* the inductive invariant says it of every row.
SoundRow(m, row) ==
  /\ \A k \in row.from : k < m
  /\ row.superBy # NoMem => m < row.superBy
  /\ row.held < m
  /\ (row.status = "deprecated" /\ row.entered # "deprecated") => row.superBy # NoMem
  /\ (row.held # NoMem /\ row.entered = "staged") => row.status # "active"
  /\ (row.entered = "staged" /\ row.status = "active") => Earned(row)

Sound(t) == t \in [Mem -> Row] /\ \A m \in Mem : SoundRow(m, t[m])

IInv == TypeOK /\ Sound(mem)

-----------------------------------------------------------------------------
(* Action properties.                                                      *)

\* Staged or less trusted input cannot displace an active memory: when one is
\* deprecated, its successor says the same, or is active and no less trusted, or
\* a human resolved the contradiction in the successor's favor.
NoAssassination ==
  [][\A m \in Mem :
       (mem[m].status = "active" /\ mem'[m].status = "deprecated")
       => LET new == mem'[m].superBy
          IN  \/ mem'[new].fact = mem[m].fact
              \/ mem'[new].status = "active" /\ mem'[new].trust >= mem[m].trust
              \/ mem[new].held = m]_vars

\* A pinned memory gives way to a successor only when a human resolves an open
\* contradiction with it.
PinsStand ==
  [][\A m \in Mem :
       (mem[m].status = "invariant" /\ mem'[m].status = "deprecated")
       => mem[mem'[m].superBy].held = m]_vars

\* An observation of an outsider is not active before the staging floor has
\* passed, whichever reinforcement it gets, unless a human confirmed it.
FloorHeld ==
  [][\A m \in Mem :
       (/\ mem[m].status = "staged" /\ mem'[m].status = "active"
        /\ FloorApplies(mem'[m]) /\ ~mem'[m].confirmed)
       => mem'[m].age >= FloorAge]_vars

\* No sequence of calls brings an erased row back to life: asks parked before the
\* erasure, contradictions that were open, and later jobs find it and leave it dead.
\* This is about handlers that run one after another. An erasure that commits while
\* a promotion is under way is undone: Transactions!MarkerRemains.
DeadStays ==
  [][\A m \in Mem :
       (mem[m].status # "none" /\ mem[m].fact = Blank /\ ~IsLive(mem[m]))
       => ~IsLive(mem'[m])]_vars

Born(m) == mem[m].status = "none" /\ mem'[m].status # "none"

\* Consolidation does not launder: an unconfirmed consolidated memory is no more
\* trusted than any input, and staged as soon as one input is.
WeakestInput ==
  [][\A n \in Mem :
       (Born(n) /\ mem'[n].origin = "consolidated" /\ ~mem'[n].confirmed)
       => \A s \in mem'[n].from :
            (mem'[s].superBy # n \/ mem'[s].fact = mem'[n].fact)
            => /\ mem'[n].trust <= mem[s].trust
               /\ mem[s].status = "staged" => mem'[n].status = "staged"]_vars

\* The consolidator's merges and reflections read nothing under quarantine.
QuarantineNotRead ==
  [][/\ Dedupe => \A n \in Mem : Born(n) => \A s \in mem'[n].from : mem[s].quarantine = 0
     /\ \A w \in drafts' \ drafts : \A s \in w.srcs : mem[s].quarantine = 0]_vars

\* One run of dedupe settles: no scope is left with two copies it would merge.
DedupeSettles == [][Dedupe => (Leaders(mem) = {})']_vars

\* After a lineage quarantine nothing learned from the author is handed out,
\* however many derivations away.
Contained(u) ==
  \A m \in DerivedClosure(mem, LearnedFrom(mem, u)) : ~Recallable(mem, m)

QuarantineReaches ==
  [][\A u \in Users : Quarantine(LearnedFrom(mem, u)) => Contained(u)']_vars

\* After an erasure no live memory is about the subject, rests on an episode of
\* theirs or derives from an erased row, and nothing erased keeps its content.
Forgotten(u) ==
  /\ About(mem, u) \cap {m \in Mem : IsLive(mem[m])} = {}
  /\ \A m \in DerivedClosure(mem, About(mem, u)) : mem[m].fact = Blank

ErasureReaches == [][\A u \in Users : EraseSubject(u) => Forgotten(u)']_vars

-----------------------------------------------------------------------------
(* Liveness, when days pass and the nightly jobs run.                      *)

\* No contradiction is held for ever: a human or the archive timer closes it.
HeldCloses == \A c \in Mem : mem[c].held # NoMem ~> mem[c].held = NoMem

\* A staged memory nobody ever uses does not stay staged.
StagedSettles ==
  \A m \in Mem : mem[m].status = "staged" ~> mem[m].status # "staged" \/ mem[m].used

\* A staged memory that has earned promotion leaves staging, or is contested.
EarnedRises ==
  \A m \in Mem :
    (mem[m].status = "staged" /\ Earned(mem[m]))
    ~> (mem[m].status # "staged" \/ Contested(mem, m))
=============================================================================
