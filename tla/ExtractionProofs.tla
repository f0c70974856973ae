--------------------------- MODULE ExtractionProofs ---------------------------
(***************************************************************************)
(* Proofs about background extraction, for any number of workers, of       *)
(* ingesters, of scopes and of episodes: the watermark never passes an     *)
(* episode unread while the episodes of a scope arrive in turn, and what   *)
(* an erased author said is learned only by a worker that had read it.     *)
(***************************************************************************)
EXTENDS Extraction, WellFoundedInduction, TLAPS

\* An episode is seen by readers once its registration has committed.
Seen(e) == ep[e] \in {"stored", "erased"}

\* The open episodes are those some ingester is registering, one ingester each.
OpenedOnce ==
  /\ \A i \in Ingesters : opened[i] # Nothing => ep[opened[i]] = "open"
  /\ \A i, j \in Ingesters : opened[i] # Nothing /\ opened[i] = opened[j] => i = j
  /\ \A e \in Episodes : ep[e] = "open" => \E i \in Ingesters : opened[i] = e

StampsPast ==
  1 <= clock /\ \A e \in Episodes : ep[e] # "unborn" => 1 <= stamp[e] /\ stamp[e] < clock

\* A worker's batch is of the scope it works on, and was there to be read.
BatchSeen == \A w \in Workers : \A e \in batch[w] : at[w] = ScopeOf[e] /\ Seen(e)

LearnedSeen == \A e \in learned : Seen(e)

\* An episode erased under a worker that has still to propose it counts as spilled.
LeftSpills ==
  \A w \in Workers : \A e \in left[w] : e \in Admitted /\ ep[e] = "erased" => e \in spilled

EInv ==
  /\ ExtractionTypeOK /\ OpenedOnce /\ StampsPast
  /\ BatchSeen /\ LearnedSeen /\ LeftSpills /\ ErasureSpills

\* What readers see of a scope is older than what is being registered in it.
InOrder ==
  \A e, f \in Episodes :
    Seen(e) /\ ep[f] = "open" /\ ScopeOf[e] = ScopeOf[f] => stamp[e] < stamp[f]

\* A watermark is the stamp of an episode of its scope.
MarkReached ==
  \A s \in Scopes :
    mark[s] = NeverRun \/ \E e \in Episodes : Seen(e) /\ ScopeOf[e] = s /\ stamp[e] = mark[s]

\* What a worker's save would pass has been proposed, or is still to be.
BatchCovers ==
  \A w \in Workers : \A g \in batch[w], e \in Episodes :
    ep[e] = "stored" /\ ScopeOf[e] = at[w] /\ stamp[e] <= stamp[g] => e \in handled \cup left[w]

WInv == InOrder /\ MarkReached /\ BatchCovers /\ NothingLost

-----------------------------------------------------------------------------

\* A set of naturals with a member has a least one.
LEMMA LeastNat ==
  ASSUME NEW T \in SUBSET Nat, T # {}
  PROVE  \E x \in T : \A y \in T : x <= y
<1>1. PICK x \in T : \A y \in T : ~(<<y, x>> \in OpToRel(<, Nat))
  BY NatLessThanWellFounded, WFMin
<1>2. \A y \in T : ~(y < x)
  BY <1>1 DEF OpToRel
<1>. QED  BY <1>2

\* A bounded set of naturals has a greatest member, which Max chooses.
LEMMA MaxIsGreatest ==
  ASSUME NEW T \in SUBSET Nat, T # {}, NEW b \in Nat, \A x \in T : x <= b
  PROVE  Max(T) \in T /\ \A y \in T : y <= Max(T)
<1>. DEFINE D == {n \in Nat : b - n \in T}
<1>1. D # {}
  <2>1. PICK x \in T : TRUE
    OBVIOUS
  <2>2. b - x \in Nat /\ b - (b - x) = x
    OBVIOUS
  <2>. QED  BY <2>1, <2>2
<1>2. PICK n \in D : \A m \in D : n <= m
  <2>. HIDE DEF D
  <2>1. D \in SUBSET Nat
    BY DEF D
  <2>. QED  BY <1>1, <2>1, LeastNat
<1>3. ASSUME NEW y \in T PROVE b - n >= y
  <2>1. b - y \in Nat /\ b - (b - y) = y
    OBVIOUS
  <2>2. b - y \in D
    BY <2>1
  <2>. QED  BY <1>2, <2>1, <2>2
<1>4. \E x \in T : \A y \in T : x >= y
  BY <1>2, <1>3
<1>. QED  BY <1>4 DEF Max

\* The stamp a worker saves is of an episode of its batch, and the last of them.
LEMMA SavedStamp ==
  ASSUME EInv, NEW w \in Workers, batch[w] # {}
  PROVE  LET m == Max({stamp[e] : e \in batch[w]}) IN
         /\ \E g \in batch[w] : stamp[g] = m
         /\ m \in Nat
<1>. DEFINE T == {stamp[e] : e \in batch[w]}
<1>0. batch[w] \subseteq Episodes /\ clock \in Nat /\ \A e \in Episodes : stamp[e] \in Nat
  BY DEF EInv, ExtractionTypeOK
<1>1. T \in SUBSET Nat /\ T # {} /\ clock \in Nat
  BY <1>0
<1>2. \A x \in T : x <= clock
  BY <1>0 DEF EInv, StampsPast, BatchSeen, Seen
<1>. HIDE DEF T
<1>3. Max(T) \in T
  BY <1>1, <1>2, MaxIsGreatest
<1>. QED  BY <1>1, <1>3 DEF T

-----------------------------------------------------------------------------

LEMMA EInit == Init => EInv
<1>. SUFFICES ASSUME Init PROVE EInv
  OBVIOUS
<1>1. ExtractionTypeOK
  BY ExtractionBounds, NamesFree DEF Init, ExtractionTypeOK, NeverRun
<1>. QED
  BY <1>1, NamesFree DEF Init, EInv, OpenedOnce, StampsPast, BatchSeen, LearnedSeen, LeftSpills, ErasureSpills

LEMMA RegisterStep ==
  ASSUME EInv, NEW i \in Ingesters, NEW e \in Episodes, Register(i, e) PROVE EInv'
<1>. USE DEF EInv, worker
<1>0. /\ ep' = [ep EXCEPT ![e] = "open"] /\ ep[e] = "unborn"
      /\ opened' = [opened EXCEPT ![i] = e] /\ opened[i] = Nothing /\ e # Nothing
      /\ stamp' = [stamp EXCEPT ![e] = clock] /\ clock' = clock + 1
  BY NamesFree DEF Register
<1>1. ExtractionTypeOK'
  <2>1. ep' \in [Episodes -> {"unborn", "open", "stored", "rolled back", "erased"}]
    BY <1>0 DEF ExtractionTypeOK
  <2>2. opened' \in [Ingesters -> Episodes \cup {Nothing}]
    BY <1>0 DEF ExtractionTypeOK
  <2>3. clock' \in Nat /\ stamp' \in [Episodes -> Nat]
    <3>1. clock \in Nat /\ stamp \in [Episodes -> Nat]
      BY DEF ExtractionTypeOK
    <3>. QED  BY <1>0, <3>1
  <2>. QED  BY <2>1, <2>2, <2>3 DEF Register, ExtractionTypeOK
<1>2. OpenedOnce'
  <2>1. \A j \in Ingesters : opened'[j] = IF j = i THEN e ELSE opened[j]
    BY <1>0 DEF ExtractionTypeOK
  <2>2. \A f \in Episodes : ep'[f] = IF f = e THEN "open" ELSE ep[f]
    BY <1>0 DEF ExtractionTypeOK
  <2>3. \A j \in Ingesters : opened[j] # Nothing => opened[j] \in Episodes /\ opened[j] # e
    BY <1>0 DEF ExtractionTypeOK, OpenedOnce
  <2>4. \A f \in Episodes : ep'[f] = "open" => \E j \in Ingesters : opened'[j] = f
    BY <1>0, <2>1, <2>2, <2>3, NamesFree DEF OpenedOnce
  <2>. QED  BY <1>0, <2>1, <2>2, <2>3, <2>4 DEF OpenedOnce
<1>3. StampsPast'
  <2>1. \A f \in Episodes : /\ ep'[f] = IF f = e THEN "open" ELSE ep[f]
                            /\ stamp'[f] = IF f = e THEN clock ELSE stamp[f]
                            /\ stamp[f] \in Nat
    BY <1>0 DEF ExtractionTypeOK
  <2>2. clock \in Nat /\ 1 <= clock
    BY DEF ExtractionTypeOK, StampsPast
  <2>. QED  BY <1>0, <2>1, <2>2 DEF StampsPast
<1>4. \A f \in Episodes : Seen(f) => Seen(f)' /\ ep'[f] = ep[f]
  BY DEF Register, ExtractionTypeOK, Seen
<1>5. BatchSeen' /\ LearnedSeen'
  BY <1>4 DEF Register, ExtractionTypeOK, BatchSeen, LearnedSeen
<1>6. LeftSpills' /\ ErasureSpills'
  BY <1>4 DEF Register, ExtractionTypeOK, BatchSeen, LearnedSeen, LeftSpills, ErasureSpills
<1>. QED  BY <1>1, <1>2, <1>3, <1>5, <1>6

LEMMA EndRegisterStep ==
  ASSUME EInv, NEW i \in Ingesters, NEW outcome \in {"stored", "rolled back"}, EndRegister(i, outcome)
  PROVE  EInv'
<1>. USE DEF EInv, worker
<1>1. ExtractionTypeOK'
  BY DEF EndRegister, ExtractionTypeOK
<1>2. OpenedOnce'
  <2>1. \A j \in Ingesters : opened'[j] = IF j = i THEN Nothing ELSE opened[j]
    BY DEF EndRegister, ExtractionTypeOK
  <2>2. \A f \in Episodes : ep'[f] = IF f = opened[i] THEN outcome ELSE ep[f]
    BY DEF EndRegister, ExtractionTypeOK
  <2>3. opened[i] # Nothing /\ \A j \in Ingesters : opened[j] # Nothing => opened[j] \in Episodes
    BY DEF EndRegister, ExtractionTypeOK
  <2>. QED  BY <2>1, <2>2, <2>3 DEF OpenedOnce
<1>3. StampsPast'
  BY DEF EndRegister, ExtractionTypeOK, OpenedOnce, StampsPast
<1>4. \A f \in Episodes : Seen(f) => Seen(f)' /\ ep'[f] = ep[f]
  BY DEF EndRegister, ExtractionTypeOK, OpenedOnce, Seen
<1>5. BatchSeen' /\ LearnedSeen'
  BY <1>4 DEF EndRegister, ExtractionTypeOK, BatchSeen, LearnedSeen
<1>6. LeftSpills' /\ ErasureSpills'
  BY <1>4 DEF EndRegister, ExtractionTypeOK, BatchSeen, LearnedSeen, LeftSpills, ErasureSpills
<1>. QED  BY <1>1, <1>2, <1>3, <1>5, <1>6

LEMMA EraseStep == ASSUME EInv, NEW e \in Episodes, Erase(e) PROVE EInv'
<1>. USE DEF EInv, worker
<1>1. ExtractionTypeOK'
  BY DEF Erase, ExtractionTypeOK
<1>2. OpenedOnce' /\ StampsPast'
  BY DEF Erase, ExtractionTypeOK, OpenedOnce, StampsPast
<1>3. \A f \in Episodes : Seen(f) => Seen(f)'
  BY DEF Erase, ExtractionTypeOK, Seen
<1>4. BatchSeen' /\ LearnedSeen'
  BY <1>3 DEF Erase, ExtractionTypeOK, BatchSeen, LearnedSeen
<1>5. \A f \in Episodes : f # e => ep'[f] = ep[f]
  BY DEF Erase, ExtractionTypeOK
<1>6. LeftSpills'
  BY <1>5 DEF Erase, ExtractionTypeOK, LeftSpills
<1>7. ErasureSpills'
  BY <1>5 DEF Erase, ExtractionTypeOK, ErasureSpills
<1>. QED  BY <1>1, <1>2, <1>4, <1>6, <1>7

LEMMA EnrollStep == ASSUME EInv, NEW s \in Scopes, Enroll(s) PROVE EInv'
<1>. USE DEF EInv, worker
<1>1. ExtractionTypeOK'
  <2>1. turns' \in 0..MaxTurns
    <3>1. turns \in 0..MaxTurns /\ turns < MaxTurns /\ turns' = turns + 1
      BY DEF Enroll, ExtractionTypeOK
    <3>. QED  BY <3>1, ExtractionBounds
  <2>2. writers' \subseteq Scopes
    BY DEF Enroll, ExtractionTypeOK
  <2>. QED  BY <2>1, <2>2 DEF Enroll, ExtractionTypeOK
<1>. QED
  BY <1>1 DEF Enroll, OpenedOnce, StampsPast, BatchSeen, LearnedSeen, LeftSpills, ErasureSpills, Seen

\* A worker's step changes no episode; what it keeps of its batch, it had; what it
\* learns, it had still to propose.
Works ==
  /\ clock' = clock /\ ep' = ep /\ stamp' = stamp /\ opened' = opened /\ spilled' = spilled
  /\ \A v \in Workers : \A e \in left'[v] : e \in left[v]
  /\ \A v \in Workers : batch'[v] # {} => batch'[v] = batch[v] /\ at'[v] = at[v]
  /\ \A e \in learned' : e \in learned \/ (e \in Admitted /\ \E v \in Workers : e \in left[v])

LEMMA WorkerStep == EInv /\ ExtractionTypeOK' /\ Works => EInv'
<1>. SUFFICES ASSUME EInv, ExtractionTypeOK', Works PROVE EInv'
  OBVIOUS
<1>. USE DEF EInv
<1>1. OpenedOnce' /\ StampsPast'
  BY DEF Works, OpenedOnce, StampsPast
<1>2. BatchSeen'
  <2>. SUFFICES ASSUME NEW v \in Workers, NEW e \in batch'[v] PROVE at'[v] = ScopeOf[e] /\ Seen(e)'
    BY DEF BatchSeen
  <2>1. batch'[v] = batch[v] /\ at'[v] = at[v] /\ ep' = ep
    BY DEF Works
  <2>. QED  BY <2>1 DEF BatchSeen, Seen
<1>3. \A v \in Workers : \A e \in left[v] : Seen(e)
  BY DEF ExtractionTypeOK, BatchSeen
<1>4. LearnedSeen'
  BY <1>3 DEF Works, LearnedSeen, Seen
<1>5. LeftSpills'
  BY DEF Works, LeftSpills
<1>6. ErasureSpills'
  BY DEF Works, LeftSpills, ErasureSpills
<1>. QED  BY <1>1, <1>2, <1>4, <1>5, <1>6

LEMMA StartRunStep == ASSUME EInv, NEW w \in Workers, NEW D \in SUBSET Scopes, StartRun(w, D) PROVE EInv'
<1>1. ExtractionTypeOK'
  BY DEF EInv, StartRun, Idle, ExtractionTypeOK
<1>2. Works
  BY DEF StartRun, Works
<1>. QED  BY <1>1, <1>2, WorkerStep

LEMMA ReadBatchStep == ASSUME EInv, NEW w \in Workers, NEW s \in Scopes, ReadBatch(w, s) PROVE EInv'
<1>. USE DEF EInv
<1>0. Unprocessed(s) \subseteq Episodes /\ \A e \in Unprocessed(s) : ScopeOf[e] = s /\ ep[e] = "stored"
  BY DEF Unprocessed
<1>1. ExtractionTypeOK'
  BY <1>0, NamesFree DEF ReadBatch, ExtractionTypeOK
<1>2. OpenedOnce' /\ StampsPast' /\ LearnedSeen' /\ ErasureSpills'
  BY DEF ReadBatch, OpenedOnce, StampsPast, LearnedSeen, ErasureSpills, Seen
<1>3. BatchSeen'
  BY <1>0 DEF ReadBatch, ExtractionTypeOK, BatchSeen, Seen
<1>4. \A v \in Workers : v # w => left'[v] = left[v]
  BY DEF ReadBatch, ExtractionTypeOK
<1>5. left'[w] \subseteq Unprocessed(s)
  BY DEF ReadBatch, ExtractionTypeOK
<1>6. LeftSpills'
  BY <1>0, <1>4, <1>5 DEF ReadBatch, LeftSpills
<1>. QED  BY <1>1, <1>2, <1>3, <1>6

LEMMA ProposeStep == ASSUME EInv, NEW w \in Workers, NEW e \in Episodes, Propose(w, e) PROVE EInv'
<1>1. ExtractionTypeOK'
  BY DEF EInv, Propose, ExtractionTypeOK
<1>2. \A v \in Workers : \A f \in left'[v] : f \in left[v]
  BY DEF EInv, Propose, ExtractionTypeOK
<1>3. e \in left[w] /\ learned' = learned \cup ({e} \cap Admitted)
  BY DEF Propose
<1>4. \A f \in learned' : f \in learned \/ (f \in Admitted /\ \E v \in Workers : f \in left[v])
  BY <1>3
<1>5. Works
  BY <1>2, <1>4 DEF Propose, Works
<1>. QED  BY <1>1, <1>5, WorkerStep

LEMMA SaveStep == ASSUME EInv, NEW w \in Workers, Save(w) PROVE EInv'
<1>0. Max({stamp[e] : e \in batch[w]}) \in Nat
  BY SavedStamp DEF Save
<1>1. ExtractionTypeOK'
  BY <1>0 DEF EInv, Save, ExtractionTypeOK
<1>2. \A v \in Workers : batch'[v] # {} => batch'[v] = batch[v] /\ at'[v] = at[v]
  BY DEF EInv, Save, ExtractionTypeOK
<1>3. Works
  BY <1>2 DEF Save, Works
<1>. QED  BY <1>1, <1>3, WorkerStep

LEMMA StopStep ==
  ASSUME EInv, NEW w \in Workers, Stopped(w), crashes' \in 0..MaxCrashes,
         UNCHANGED <<clock, ep, stamp, opened, mark, writers, learned, handled, spilled, turns>>
  PROVE  EInv'
<1>1. ExtractionTypeOK'
  BY DEF EInv, Stopped, ExtractionTypeOK
<1>2. \A v \in Workers : \A e \in left'[v] : e \in left[v]
  BY DEF EInv, Stopped, ExtractionTypeOK
<1>3. \A v \in Workers : batch'[v] # {} => batch'[v] = batch[v] /\ at'[v] = at[v]
  BY DEF EInv, Stopped, ExtractionTypeOK
<1>4. Works
  BY <1>2, <1>3 DEF Works
<1>. QED  BY <1>1, <1>4, WorkerStep

LEMMA EStep == EInv /\ [Next]_vars => EInv'
<1>. SUFFICES ASSUME EInv, [Next]_vars PROVE EInv'
  OBVIOUS
<1>1. ASSUME NEW i \in Ingesters, NEW e \in Episodes, Register(i, e) PROVE EInv'
  BY <1>1, RegisterStep
<1>2. ASSUME NEW i \in Ingesters, NEW outcome \in {"stored", "rolled back"}, EndRegister(i, outcome)
      PROVE  EInv'
  BY <1>2, EndRegisterStep
<1>3. ASSUME NEW e \in Episodes, Erase(e) PROVE EInv'
  BY <1>3, EraseStep
<1>4. ASSUME NEW s \in Scopes, Enroll(s) PROVE EInv'
  BY <1>4, EnrollStep
<1>5. ASSUME NEW w \in Workers, NEW D \in SUBSET Scopes, StartRun(w, D) PROVE EInv'
  BY <1>5, StartRunStep
<1>6. ASSUME NEW w \in Workers, NEW s \in Scopes, ReadBatch(w, s) PROVE EInv'
  BY <1>6, ReadBatchStep
<1>7. ASSUME NEW w \in Workers, NEW e \in Episodes, Propose(w, e) PROVE EInv'
  BY <1>7, ProposeStep
<1>8. ASSUME NEW w \in Workers, Save(w) PROVE EInv'
  BY <1>8, SaveStep
<1>9. ASSUME NEW w \in Workers, EmptyBatch(w) PROVE EInv'
  <2>1. crashes' \in 0..MaxCrashes
    BY <1>9 DEF EmptyBatch, EInv, ExtractionTypeOK
  <2>. QED  BY <1>9, <2>1, StopStep DEF EmptyBatch
<1>10. ASSUME NEW w \in Workers, Crash(w) PROVE EInv'
  <2>1. crashes' \in 0..MaxCrashes
    <3>1. crashes \in 0..MaxCrashes /\ crashes < MaxCrashes /\ crashes' = crashes + 1
      BY <1>10 DEF Crash, EInv, ExtractionTypeOK
    <3>. QED  BY <3>1, ExtractionBounds
  <2>. QED  BY <1>10, <2>1, StopStep DEF Crash
<1>11. CASE UNCHANGED vars
  BY <1>11 DEF vars, worker, EInv, ExtractionTypeOK, OpenedOnce, StampsPast, BatchSeen, LearnedSeen, LeftSpills, ErasureSpills, Seen
<1>. QED  BY <1>1, <1>2, <1>3, <1>4, <1>5, <1>6, <1>7, <1>8, <1>9, <1>10, <1>11 DEF Next

\* The tables hold what they should: in particular whatever a worker has left to
\* propose is among what it has read.
THEOREM ExtractionTypes == Spec => []ExtractionTypeOK
<1>1. EInv => ExtractionTypeOK
  BY DEF EInv
<1>. QED  BY <1>1, EInit, EStep, PTL DEF Spec

\* Nobody learns what an erased author said, but a worker that had read it before.
THEOREM ErasureReachesLearning == Spec => []ErasureSpills
<1>1. EInv => ErasureSpills
  BY DEF EInv
<1>. QED  BY <1>1, EInit, EStep, PTL DEF Spec

-----------------------------------------------------------------------------
(* The watermark.                                                          *)

LEMMA WInit == Init => WInv
<1>. SUFFICES ASSUME Init PROVE WInv
  OBVIOUS
<1>. QED  BY DEF Init, WInv, InOrder, MarkReached, BatchCovers, NothingLost, Seen

LEMMA RegisterPasses ==
  ASSUME EInv, WInv, NEW i \in Ingesters, NEW e \in Episodes, Register(i, e) PROVE WInv'
<1>1. /\ \A f \in Episodes : /\ ep'[f] = IF f = e THEN "open" ELSE ep[f]
                             /\ stamp'[f] = IF f = e THEN clock ELSE stamp[f]
      /\ ep[e] = "unborn"
      /\ mark' = mark /\ batch' = batch /\ at' = at /\ left' = left /\ handled' = handled
  BY DEF EInv, Register, worker, ExtractionTypeOK
<1>2. \A w \in Workers : batch[w] \subseteq Episodes /\ \A g \in batch[w] : g # e
  BY <1>1 DEF EInv, ExtractionTypeOK, BatchSeen, Seen
<1>3. \A f \in Episodes : Seen(f)' => Seen(f) /\ f # e /\ stamp[f] < clock
  BY <1>1 DEF EInv, Seen, StampsPast
<1>4. InOrder'
  BY <1>1, <1>3 DEF WInv, InOrder
<1>5. MarkReached'
  BY <1>1 DEF WInv, MarkReached, Seen
<1>6. BatchCovers'
  BY <1>1, <1>2 DEF WInv, BatchCovers
<1>7. NothingLost'
  BY <1>1 DEF WInv, NothingLost
<1>. QED  BY <1>4, <1>5, <1>6, <1>7 DEF WInv

\* The registration of e ends.
Ends(e) ==
  /\ ep[e] = "open" /\ ep'[e] \in {"stored", "rolled back"}
  /\ \A f \in Episodes : f # e => ep'[f] = ep[f]
  /\ mark' = mark /\ batch' = batch /\ at' = at /\ left' = left /\ handled' = handled /\ stamp' = stamp

\* The episode that becomes visible is later than all that is, so no watermark and no
\* batch has reached it.
LEMMA EndPasses == ASSUME EInv, WInv, OneAtATime, NEW e \in Episodes, Ends(e) PROVE WInv'
<1>1. /\ ep[e] = "open" /\ ep'[e] \in {"stored", "rolled back"}
      /\ \A f \in Episodes : f # e => ep'[f] = ep[f]
      /\ mark' = mark /\ batch' = batch /\ at' = at /\ left' = left /\ handled' = handled /\ stamp' = stamp
  BY DEF Ends
<1>2. \A f \in Episodes : ep[f] = "open" /\ ScopeOf[f] = ScopeOf[e] => f = e
  <2>. SUFFICES ASSUME NEW f \in Episodes, ep[f] = "open", ScopeOf[f] = ScopeOf[e] PROVE f = e
    OBVIOUS
  <2>1. PICK j \in Ingesters : opened[j] = f
    BY DEF EInv, OpenedOnce
  <2>2. PICK i \in Ingesters : opened[i] = e
    BY <1>1 DEF EInv, OpenedOnce
  <2>3. i = j
    BY <2>1, <2>2, NamesFree DEF OneAtATime
  <2>. QED  BY <2>1, <2>2, <2>3
<1>3. \A f \in Episodes : Seen(f) => Seen(f)' /\ f # e /\ ep'[f] = ep[f]
  BY <1>1 DEF Seen
<1>4. \A f \in Episodes : Seen(f)' => Seen(f) \/ f = e
  BY <1>1 DEF Seen
<1>5. \A f \in Episodes : ep'[f] = "open" => ep[f] = "open" /\ f # e
  BY <1>1
<1>6. \A f \in Episodes : Seen(f) /\ ScopeOf[f] = ScopeOf[e] => stamp[f] < stamp[e]
  BY <1>1 DEF WInv, InOrder
<1>7. \A f \in Episodes : stamp[f] \in Nat
  BY DEF EInv, ExtractionTypeOK
<1>8. InOrder'
  BY <1>1, <1>2, <1>4, <1>5 DEF WInv, InOrder
<1>9. MarkReached'
  BY <1>1, <1>3 DEF WInv, MarkReached
<1>10. BatchCovers'
  <2>. SUFFICES ASSUME NEW w \in Workers, NEW g \in batch[w], NEW f \in Episodes,
                       ep'[f] = "stored", ScopeOf[f] = at[w], stamp[f] <= stamp[g]
                PROVE  f \in handled \cup left[w]
    BY <1>1 DEF BatchCovers
  <2>1. g \in Episodes /\ Seen(g) /\ ScopeOf[g] = at[w]
    BY DEF EInv, ExtractionTypeOK, BatchSeen
  <2>2. f # e
    <3>1. f = e => stamp[g] < stamp[f]
      BY <1>6, <2>1
    <3>2. stamp[g] \in Nat /\ stamp[f] \in Nat
      BY <1>7, <2>1
    <3>. QED  BY <3>1, <3>2
  <2>. QED  BY <1>1, <2>2 DEF WInv, BatchCovers
<1>11. NothingLost'
  <2>. SUFFICES ASSUME NEW f \in Episodes, ep'[f] = "stored", stamp[f] <= mark[ScopeOf[f]]
                PROVE  f \in handled
    BY <1>1 DEF NothingLost
  <2>1. ScopeOf[f] \in Scopes
    BY ScopesKnown
  <2>2. ASSUME f = e PROVE FALSE
    <3>1. 1 <= stamp[e]
      BY <1>1 DEF EInv, StampsPast
    <3>2. mark[ScopeOf[e]] # NeverRun
      <4>1. 1 <= stamp[f] /\ stamp[f] \in Nat /\ mark[ScopeOf[f]] \in Nat
        BY <1>7, <2>1, <2>2, <3>1 DEF EInv, ExtractionTypeOK
      <4>. QED  BY <2>2, <4>1 DEF NeverRun
    <3>3. PICK g \in Episodes : Seen(g) /\ ScopeOf[g] = ScopeOf[e] /\ stamp[g] = mark[ScopeOf[e]]
      BY <2>1, <2>2, <3>2 DEF WInv, MarkReached
    <3>. QED
      <4>1. stamp[g] < stamp[f] /\ stamp[f] <= stamp[g]
        BY <1>6, <2>2, <3>3
      <4>2. stamp[g] \in Nat /\ stamp[f] \in Nat
        BY <1>7
      <4>. QED  BY <4>1, <4>2
  <2>. QED  BY <1>1, <2>2 DEF WInv, NothingLost
<1>. QED  BY <1>8, <1>9, <1>10, <1>11 DEF WInv

LEMMA ErasePasses == ASSUME EInv, WInv, NEW e \in Episodes, Erase(e) PROVE WInv'
<1>1. /\ \A f \in Episodes : ep'[f] = IF f = e THEN "erased" ELSE ep[f]
      /\ ep[e] = "stored"
      /\ mark' = mark /\ batch' = batch /\ at' = at /\ left' = left /\ handled' = handled /\ stamp' = stamp
  BY DEF EInv, Erase, worker, ExtractionTypeOK
<1>2. \A f \in Episodes : Seen(f)' <=> Seen(f)
  BY <1>1 DEF Seen
<1>3. \A f \in Episodes : ep'[f] \in {"open", "stored"} => ep'[f] = ep[f]
  BY <1>1
<1>4. InOrder' /\ MarkReached'
  BY <1>1, <1>2, <1>3 DEF WInv, InOrder, MarkReached
<1>5. BatchCovers' /\ NothingLost'
  BY <1>1, <1>3 DEF WInv, BatchCovers, NothingLost
<1>. QED  BY <1>4, <1>5 DEF WInv

\* A step that leaves episodes and watermarks alone, keeps of each batch what it keeps,
\* and forgets nothing that was proposed or was still to be.
Carries ==
  /\ ep' = ep /\ stamp' = stamp /\ mark' = mark
  /\ \A e \in handled : e \in handled'
  /\ \A w \in Workers : batch'[w] # {} =>
       batch'[w] = batch[w] /\ at'[w] = at[w] /\ \A e \in left[w] : e \in left'[w] \cup handled'

LEMMA CarryPasses == EInv /\ WInv /\ Carries => WInv'
<1>. SUFFICES ASSUME EInv, WInv, Carries PROVE WInv'
  OBVIOUS
<1>1. InOrder' /\ MarkReached' /\ NothingLost'
  BY DEF WInv, Carries, InOrder, MarkReached, NothingLost, Seen
<1>2. BatchCovers'
  <2>. SUFFICES ASSUME NEW w \in Workers, NEW g \in batch'[w], NEW e \in Episodes,
                       ep[e] = "stored", ScopeOf[e] = at[w], stamp[e] <= stamp[g],
                       batch'[w] = batch[w]
                PROVE  e \in handled' \cup left'[w]
    BY DEF Carries, BatchCovers
  <2>1. e \in handled \cup left[w]
    BY DEF WInv, BatchCovers
  <2>. QED  BY <2>1 DEF Carries
<1>. QED  BY <1>1, <1>2 DEF WInv

\* A worker reads all that is past the watermark; what is not past it, is handled.
LEMMA ReadBatchPasses == ASSUME EInv, WInv, NEW w \in Workers, NEW s \in Scopes, ReadBatch(w, s) PROVE WInv'
<1>1. /\ ep' = ep /\ stamp' = stamp /\ mark' = mark
      /\ \A e \in handled : e \in handled'
      /\ \A v \in Workers : v # w => batch'[v] = batch[v] /\ at'[v] = at[v] /\ left'[v] = left[v]
      /\ batch'[w] = Unprocessed(s) /\ at'[w] = s
  BY DEF EInv, ReadBatch, ExtractionTypeOK
<1>2. \A e \in Unprocessed(s) : e \in left'[w] \cup handled'
  BY DEF EInv, ReadBatch, ExtractionTypeOK
<1>3. InOrder' /\ MarkReached' /\ NothingLost'
  BY <1>1 DEF WInv, InOrder, MarkReached, NothingLost, Seen
<1>4. BatchCovers'
  <2>. SUFFICES ASSUME NEW v \in Workers, NEW g \in batch'[v], NEW e \in Episodes,
                       ep[e] = "stored", ScopeOf[e] = at'[v], stamp[e] <= stamp[g]
                PROVE  e \in handled' \cup left'[v]
    BY <1>1 DEF BatchCovers
  <2>1. CASE v # w
    <3>1. e \in handled \cup left[v]
      BY <1>1, <2>1 DEF WInv, BatchCovers
    <3>. QED  BY <1>1, <2>1, <3>1
  <2>2. CASE v = w
    <3>1. stamp[e] \in Nat /\ mark[s] \in Nat /\ ScopeOf[e] = s
      BY <1>1, <2>2 DEF EInv, ExtractionTypeOK
    <3>2. CASE stamp[e] > mark[s]
      BY <1>2, <2>2, <3>1, <3>2 DEF Unprocessed
    <3>3. CASE stamp[e] <= mark[s]
      BY <1>1, <3>1, <3>3 DEF WInv, NothingLost
    <3>. QED  BY <3>1, <3>2, <3>3
  <2>. QED  BY <2>1, <2>2
<1>. QED  BY <1>3, <1>4 DEF WInv

\* The watermark is set to the stamp of an episode of the batch: all the batch covers
\* has been handled by then.
LEMMA SavePasses == ASSUME EInv, WInv, NEW w \in Workers, Save(w) PROVE WInv'
<1>. DEFINE m == Max({stamp[e] : e \in batch[w]})
            s == at[w]
<1>1. PICK g \in batch[w] : stamp[g] = m
  BY SavedStamp DEF Save
<1>2. g \in Episodes /\ Seen(g) /\ ScopeOf[g] = s /\ left[w] = {} /\ s \in Scopes
  BY DEF EInv, ExtractionTypeOK, BatchSeen, Save
<1>3. /\ ep' = ep /\ stamp' = stamp /\ left' = left /\ handled' = handled
      /\ \A x \in Scopes : mark'[x] = IF x = s THEN stamp[g] ELSE mark[x]
      /\ \A v \in Workers : batch'[v] # {} => batch'[v] = batch[v] /\ at'[v] = at[v]
  BY <1>1 DEF EInv, ExtractionTypeOK, Save
<1>. HIDE DEF m, s
<1>4. InOrder'
  BY <1>3 DEF WInv, InOrder, Seen
<1>5. MarkReached'
  BY <1>2, <1>3 DEF WInv, MarkReached, Seen
<1>6. BatchCovers'
  BY <1>3 DEF WInv, BatchCovers
<1>7. NothingLost'
  <2>. SUFFICES ASSUME NEW e \in Episodes, ep[e] = "stored", stamp[e] <= mark'[ScopeOf[e]]
                PROVE  e \in handled
    BY <1>3 DEF NothingLost
  <2>0. ScopeOf[e] \in Scopes
    BY ScopesKnown
  <2>1. CASE ScopeOf[e] # s
    BY <1>3, <2>0, <2>1 DEF WInv, NothingLost
  <2>2. CASE ScopeOf[e] = s
    <3>1. stamp[e] <= stamp[g]
      BY <1>3, <2>0, <2>2
    <3>2. e \in handled \cup left[w]
      BY <1>2, <2>2, <3>1 DEF s, WInv, BatchCovers
    <3>. QED  BY <1>2, <3>2
  <2>. QED  BY <2>1, <2>2
<1>. QED  BY <1>4, <1>5, <1>6, <1>7 DEF WInv

LEMMA WStep == EInv /\ WInv /\ OneAtATime /\ [Next]_vars => WInv'
<1>. SUFFICES ASSUME EInv, WInv, OneAtATime, [Next]_vars PROVE WInv'
  OBVIOUS
<1>1. ASSUME NEW i \in Ingesters, NEW e \in Episodes, Register(i, e) PROVE WInv'
  BY <1>1, RegisterPasses
<1>2. ASSUME NEW i \in Ingesters, NEW outcome \in {"stored", "rolled back"}, EndRegister(i, outcome)
      PROVE  WInv'
  <2>1. opened[i] \in Episodes /\ Ends(opened[i])
    BY <1>2 DEF EInv, EndRegister, worker, ExtractionTypeOK, OpenedOnce, Ends
  <2>. QED  BY <2>1, EndPasses
<1>3. ASSUME NEW e \in Episodes, Erase(e) PROVE WInv'
  BY <1>3, ErasePasses
<1>4. ASSUME NEW s \in Scopes, Enroll(s) PROVE WInv'
  BY <1>4, CarryPasses DEF Enroll, worker, Carries
<1>5. ASSUME NEW w \in Workers, NEW D \in SUBSET Scopes, StartRun(w, D) PROVE WInv'
  BY <1>5, CarryPasses DEF StartRun, Carries
<1>6. ASSUME NEW w \in Workers, NEW s \in Scopes, ReadBatch(w, s) PROVE WInv'
  BY <1>6, ReadBatchPasses
<1>7. ASSUME NEW w \in Workers, NEW e \in Episodes, Propose(w, e) PROVE WInv'
  <2>1. \A v \in Workers : \A f \in left[v] : f \in left'[v] \cup handled'
    BY <1>7 DEF Propose, EInv, ExtractionTypeOK
  <2>. QED  BY <1>7, <2>1, CarryPasses DEF Propose, Carries
<1>8. ASSUME NEW w \in Workers, Save(w) PROVE WInv'
  BY <1>8, SavePasses
<1>9. ASSUME NEW w \in Workers, Stopped(w), ep' = ep, stamp' = stamp, mark' = mark, handled' = handled
      PROVE  WInv'
  <2>1. \A v \in Workers :
          batch'[v] # {} => batch'[v] = batch[v] /\ at'[v] = at[v] /\ left'[v] = left[v]
    BY <1>9 DEF Stopped, EInv, ExtractionTypeOK
  <2>. QED  BY <1>9, <2>1, CarryPasses DEF Carries
<1>10. CASE UNCHANGED vars
  BY <1>10, CarryPasses DEF vars, worker, Carries
<1>. QED
  BY <1>1, <1>2, <1>3, <1>4, <1>5, <1>6, <1>7, <1>8, <1>9, <1>10 DEF Next, EmptyBatch, Crash

\* While the episodes of a scope arrive one after the other, none that the watermark
\* has passed goes unread: whatever workers overlap, die between the proposals and the
\* save, or move the watermark back.
THEOREM NoneUnread == Spec /\ []OneAtATime => []NothingLost
<1>1. WInv => NothingLost
  BY DEF WInv
<1>. QED  BY <1>1, EInit, EStep, WInit, WStep, PTL DEF Spec

\* So it is where one client registers the episodes.
THEOREM OneIngesterLosesNothing ==
  (\A i, j \in Ingesters : i = j) => (Spec => []NothingLost)
<1>. SUFFICES ASSUME \A i, j \in Ingesters : i = j PROVE Spec => []NothingLost
  OBVIOUS
<1>1. OneAtATime
  BY DEF OneAtATime
<1>. QED  BY <1>1, NoneUnread, PTL

=============================================================================
