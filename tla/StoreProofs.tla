----------------------------- MODULE StoreProofs -----------------------------
(***************************************************************************)
(* Lemmas about the updates the handlers are built from: each leaves every *)
(* row of the store well formed and sound (Properties!Sound).              *)
(***************************************************************************)
EXTENDS Properties, TLAPS, FiniteSetTheorems, WellFoundedInduction

-----------------------------------------------------------------------------
(* Rows and tables.                                                        *)

\* A sound store is sound at every id.
LEMMA SoundAt ==
  ASSUME NEW t, Sound(t), NEW m \in Mem
  PROVE  t \in [Mem -> Row] /\ t[m] \in Row /\ SoundRow(m, t[m])
  BY DEF Sound

\* Writing one sound row keeps a store sound.
LEMMA RowUpdate ==
  ASSUME NEW t, Sound(t), NEW m \in Mem, NEW row \in Row, SoundRow(m, row)
  PROVE  Sound([t EXCEPT ![m] = row])
  BY DEF Sound

\* A store computed row by row is sound when each row is.
LEMMA RowWise ==
  ASSUME NEW t, t = [m \in Mem |-> t[m]],
         \A m \in Mem : t[m] \in Row /\ SoundRow(m, t[m])
  PROVE  Sound(t)
  BY DEF Sound

\* Ids are positive integers up to MaxMem.
LEMMA MemNat ==
  ASSUME NEW m \in Mem
  PROVE  m \in Nat /\ m # NoMem /\ m \in 0..MaxMem
  BY BoundAssumption DEF Mem, NoMem

\* The row of an id that is not allocated yet.
LEMMA UnallocatedRow == Unallocated \in Row
<1>1. /\ 0 \in 0..MaxMem /\ 0 \in 0..PromoteUseful /\ 0 \in 0..MaxDoubts
      /\ 0 \in 0..MaxQuarantine /\ 0 \in 0..MaxAge
  BY BoundAssumption
<1>2. (CHOOSE s \in Scopes : TRUE) \in Scopes
  BY ScopeAssumption
<1> DEFINE scope == CHOOSE s \in Scopes : TRUE
<1> HIDE DEF scope
<1> QED BY <1>1, <1>2
     DEF Row, Unallocated, Statuses, Live, TrustLevels, Origins, Writers, NoMem, scope

\* An allocated id is smaller than the next one to be allocated.
LEMMA FreshAbove ==
  ASSUME NEW t, NEW n \in Mem, Fresh(t, n), NEW m \in Rows(t)
  PROVE  m \in Mem /\ m < n
  BY BoundAssumption DEF Fresh, Rows, Mem

\* A set of naturals with a member has a least one.
LEMMA LeastNat ==
  ASSUME NEW T \in SUBSET Nat, T # {}
  PROVE  \E x \in T : \A y \in T : x <= y
<1>1. PICK x \in T : \A y \in T : ~(<<y, x>> \in OpToRel(<, Nat))
  BY NatLessThanWellFounded, WFMin
<1>2. \A y \in T : ~(y < x)
  BY <1>1 DEF OpToRel
<1> QED BY <1>2

\* The minimum of a nonempty set of trust scores is one of them, and bounds them.
LEMMA MinTrustLevel ==
  ASSUME NEW t \in [Mem -> Row], NEW S \in SUBSET Mem, S # {}
  PROVE  /\ MinTrust(t, S) \in TrustLevels
         /\ \A m \in S : MinTrust(t, S) <= t[m].trust
<1> DEFINE T == {t[m].trust : m \in S}
<1>1. T \in SUBSET TrustLevels /\ T # {}
  BY DEF Row
<1> HIDE DEF T
<1>2. \E x \in T : \A y \in T : x <= y
  BY <1>1, LeastNat DEF TrustLevels
<1>3. Min(T) \in T /\ \A y \in T : Min(T) <= y
  BY <1>2 DEF Min
<1> QED BY <1>1, <1>3 DEF MinTrust, T

-----------------------------------------------------------------------------
(* The private helpers of MemoryService.                                   *)

\* An earned, uncontested row may be promoted.
LEMMA PromoteSound ==
  ASSUME NEW t, Sound(t), NEW m \in Mem, t[m].held = NoMem, Earned(t[m])
  PROVE  Sound(Promote(t, m))
  BY DEF Sound, SoundRow, Row, Promote, Statuses, Live, Earned

LEMMA ArchiveSound ==
  ASSUME NEW t, Sound(t), NEW m \in Mem
  PROVE  Sound(Archive(t, m))
  BY DEF Sound, SoundRow, Row, Archive, Statuses, Live, Earned

LEMMA TombstoneSound ==
  ASSUME NEW t, Sound(t), NEW m \in Mem
  PROVE  Sound(Tombstone(t, m))
<1> DEFINE row == [t[m] EXCEPT !.status = "tombstoned", !.fact = Blank]
<1>1. t \in [Mem -> Row] /\ t[m] \in Row /\ SoundRow(m, t[m])
  BY SoundAt
<1>2. row \in Row
  BY <1>1 DEF Row, Statuses, Live
<1>3. SoundRow(m, row)
  BY <1>1 DEF Row, SoundRow, Earned
<1>4. Tombstone(t, m) = [t EXCEPT ![m] = row]
  BY <1>1 DEF Tombstone
<1> HIDE DEF row
<1> QED BY <1>2, <1>3, <1>4, RowUpdate

LEMMA ConfirmSound ==
  ASSUME NEW t, Sound(t), NEW m \in Mem
  PROVE  Sound(Confirm(t, m))
<1> DEFINE row == [t[m] EXCEPT !.confirmed = TRUE, !.used = TRUE]
<1>1. t \in [Mem -> Row] /\ t[m] \in Row /\ SoundRow(m, t[m])
  BY SoundAt
<1>2. row \in Row
  BY <1>1 DEF Row
<1>3. SoundRow(m, row)
  BY <1>1 DEF Row, SoundRow, Earned
<1>4. Confirm(t, m) = [t EXCEPT ![m] = row]
  BY <1>1 DEF Confirm
<1> HIDE DEF row
<1> QED BY <1>2, <1>3, <1>4, RowUpdate

\* What Confirm leaves alone, and what it earns.
LEMMA ConfirmFields ==
  ASSUME NEW t, Sound(t), NEW m \in Mem
  PROVE  /\ Confirm(t, m)[m].held = t[m].held
         /\ Confirm(t, m)[m].status = t[m].status
         /\ Earned(Confirm(t, m)[m])
  BY SoundAt DEF Confirm, Row, Earned

\* A newer row may supersede an older one.
LEMMA SupersedeSound ==
  ASSUME NEW t, Sound(t), NEW old \in Mem, NEW new \in Mem, old < new
  PROVE  Sound(Supersede(t, old, new))
<1> DEFINE pred == [t[old] EXCEPT !.status = "deprecated", !.closed = TRUE, !.superBy = new]
           succ == [t[new] EXCEPT !.from = @ \cup {old}]
<1>0. new \in 0..MaxMem /\ new # 0 /\ old # new
  BY MemNat DEF Mem, NoMem
<1>1. /\ t \in [Mem -> Row]
      /\ t[old] \in Row /\ SoundRow(old, t[old])
      /\ t[new] \in Row /\ SoundRow(new, t[new])
  BY SoundAt
<1>2. pred \in Row
  BY <1>0, <1>1 DEF Row, Statuses, Live
<1>3. SoundRow(old, pred)
  BY <1>0, <1>1 DEF Row, SoundRow, Earned, NoMem
<1>4. succ \in Row /\ SoundRow(new, succ)
  BY <1>1 DEF Row, SoundRow, Earned
<1>5. Supersede(t, old, new) = [[t EXCEPT ![old] = pred] EXCEPT ![new] = succ]
  BY <1>0, <1>1 DEF Supersede
<1> HIDE DEF pred, succ
<1>6. Sound([t EXCEPT ![old] = pred])
  BY <1>2, <1>3, RowUpdate
<1>7. Sound([[t EXCEPT ![old] = pred] EXCEPT ![new] = succ])
  BY <1>4, <1>6, RowUpdate
<1> QED BY <1>5, <1>7

LEMMA MaybePromoteSound ==
  ASSUME NEW t, Sound(t), NEW m \in Mem
  PROVE  Sound(MaybePromote(t, m))
  BY PromoteSound DEF MaybePromote, PromotionDue, Contested

\* Accepting a challenger confirms it and closes its item.
LEMMA AcceptSound ==
  ASSUME NEW t, Sound(t), NEW c \in Mem
  PROVE  Sound(Accept(t, c))
<1> DEFINE row == [t[c] EXCEPT !.status = IF t[c].status = "staged" THEN "active" ELSE @,
                               !.confirmed = TRUE, !.used = TRUE, !.held = NoMem]
<1>0. c \in Nat /\ c # 0 /\ 0 \in 0..MaxMem
  BY MemNat, BoundAssumption DEF NoMem
<1>1. t \in [Mem -> Row] /\ t[c] \in Row /\ SoundRow(c, t[c])
  BY SoundAt
<1>2. row \in Row
  BY <1>0, <1>1 DEF Row, Statuses, Live, NoMem
<1>3. SoundRow(c, row)
  BY <1>0, <1>1 DEF Row, SoundRow, Earned, NoMem
<1>4. Accept(t, c) = [t EXCEPT ![c] = row]
  BY <1>1 DEF Accept, Promote, Confirm, Row
<1> HIDE DEF row
<1> QED BY <1>2, <1>3, <1>4, RowUpdate

-----------------------------------------------------------------------------
(* The write path.                                                         *)

\* Every candidate gets one of the trust scores the code knows.
LEMMA DerivedTrust ==
  ASSUME NEW t, Sound(t), NEW w \in Candidate
  PROVE  DeriveTrust(t, w) \in TrustLevels
<1>1. \A eps : EpisodeTrust(eps) \in TrustLevels
  BY DEF EpisodeTrust, TrustLevels
<1>2. w.srcs \in SUBSET Mem
  BY DEF Candidate
<1>3. w.srcs # {} => MinTrust(t, w.srcs) \in TrustLevels
  BY <1>2, MinTrustLevel DEF Sound
<1> QED BY <1>1, <1>3 DEF DeriveTrust, TrustLevels

\* The row of a candidate whose sources are older is sound.
LEMMA NewRowSound ==
  ASSUME NEW t, Sound(t), NEW w \in Candidate, NEW n \in Mem,
         \A s \in w.srcs : s < n, NEW allow \in BOOLEAN
  PROVE  LET row == NewRow(t, w, EnteredStatus(t, w, allow))
         IN  /\ row \in Row /\ SoundRow(n, row)
             /\ row.held = NoMem /\ row.entered = row.status
             /\ row.status \in {"staged", "active"}
<1> DEFINE status == EnteredStatus(t, w, allow)
           row == NewRow(t, w, status)
<1>1. status \in {"staged", "active"}
  BY DEF EnteredStatus, EntryStatus
<1>2. w.srcs \in SUBSET Mem /\ t \in [Mem -> Row]
  BY DEF Candidate, Sound
<1>3. EvidenceOf(w) \cup UNION {t[s].evidence : s \in w.srcs} \in SUBSET Episodes
  BY <1>2, EpisodeAssumption DEF EvidenceOf, Candidate, Row
<1>4. DeriveTrust(t, w) \in TrustLevels
  BY DerivedTrust
<1>5. /\ w.fact \in Facts \cup {Blank} /\ w.scope \in Scopes /\ w.origin \in Origins
      /\ w.agent \in Writers /\ w.about \in SUBSET Users /\ status \in Statuses
  BY <1>1 DEF Candidate, Statuses, Live
<1> DEFINE trust == DeriveTrust(t, w)
           evidence == EvidenceOf(w) \cup UNION {t[s].evidence : s \in w.srcs}
<1>6. row = [Unallocated EXCEPT
               !.status = status, !.entered = status, !.fact = w.fact, !.scope = w.scope,
               !.trust = trust, !.origin = w.origin, !.agent = w.agent,
               !.about = w.about, !.from = w.srcs, !.evidence = evidence]
  BY DEF NewRow
<1>5a. trust \in TrustLevels /\ evidence \in SUBSET Episodes
  BY <1>3, <1>4
<1> HIDE DEF status, trust, evidence
<1>7. row \in Row
  BY <1>2, <1>5, <1>6, <1>5a, UnallocatedRow DEF Row
<1>8. SoundRow(n, row)
  BY <1>1, <1>6, MemNat DEF SoundRow, Unallocated, NoMem
<1>9. row.held = NoMem /\ row.entered = status /\ row.status = status
  BY <1>6 DEF Unallocated
<1> QED BY <1>1, <1>7, <1>8, <1>9 DEF status

\* A reinforced duplicate is promoted at most when that is due.
LEMMA ReobservedSound ==
  ASSUME NEW t, Sound(t), NEW d \in Mem, NEW w \in Candidate
  PROVE  Sound(Reobserved(t, d, w))
<1> DEFINE confirm == w.origin = "explicit_user_ask"
           row == [t[d] EXCEPT !.evidence = @ \cup EvidenceOf(w), !.used = TRUE,
                               !.confirmed = @ \/ confirm, !.reobserved = @ \/ ~confirm]
<1>1. t \in [Mem -> Row] /\ t[d] \in Row /\ SoundRow(d, t[d])
  BY SoundAt
<1>2. EvidenceOf(w) \in SUBSET Episodes
  BY EpisodeAssumption DEF EvidenceOf, Candidate
<1>3. row \in Row
  BY <1>1, <1>2 DEF Row
<1>4. SoundRow(d, row)
  BY <1>1 DEF Row, SoundRow, Earned
<1> DEFINE reinforced == [t EXCEPT ![d].evidence = @ \cup EvidenceOf(w), ![d].used = TRUE,
                                   ![d].confirmed = @ \/ confirm,
                                   ![d].reobserved = @ \/ ~confirm]
<1>5. reinforced = [t EXCEPT ![d] = row]
  BY <1>1
<1>6. Sound([t EXCEPT ![d] = row])
  <2> HIDE DEF row
  <2> QED BY <1>3, <1>4, RowUpdate
<1>7. Sound(reinforced)
  BY <1>5, <1>6
<1> HIDE DEF reinforced
<1>8. Sound(MaybePromote(reinforced, d))
  BY <1>7, MaybePromoteSound
<1> QED BY <1>8 DEF Reobserved, reinforced

\* An insertion, with what it supersedes or is held against, keeps the store sound.
LEMMA EnactedSound ==
  ASSUME NEW t, Sound(t), NEW w \in Candidate, NEW n \in Mem, NEW allow \in BOOLEAN,
         NEW old, old = NoMem \/ (old \in Mem /\ old < n), NEW confirmed \in BOOLEAN,
         \A s \in w.srcs : s < n
  PROVE  Sound(Enacted(t, n, w, allow, old, confirmed))
<1> DEFINE status   == EnteredStatus(t, w, allow)
           row      == NewRow(t, w, status)
           inserted == [t EXCEPT ![n] = row]
           hold     == old # NoMem /\ MustHold(status, inserted[n].trust, t[old])
           kept     == [inserted EXCEPT ![n].held = old]
           linked   == IF old = NoMem THEN inserted
                       ELSE IF hold THEN kept ELSE Supersede(inserted, old, n)
<1>1. /\ row \in Row /\ SoundRow(n, row) /\ row.held = NoMem
      /\ row.entered = row.status
  BY NewRowSound
<1> HIDE DEF row
<1>2. Sound(inserted) /\ inserted[n] = row
  BY <1>1, SoundAt, RowUpdate
<1>3. old \in Mem /\ old < n => Sound(kept)
  <2> DEFINE marked == [row EXCEPT !.held = old]
  <2> SUFFICES ASSUME old \in Mem, old < n PROVE Sound(kept)
    OBVIOUS
  <2>1. old \in 0..MaxMem
    BY MemNat
  <2>2. marked \in Row
    BY <1>1, <2>1 DEF Row
  <2>3. SoundRow(n, marked)
    BY <1>1 DEF Row, SoundRow, Earned
  <2>4. kept = [inserted EXCEPT ![n] = marked]
    BY <1>2, SoundAt
  <2> HIDE DEF marked, inserted
  <2> QED BY <1>2, <2>2, <2>3, <2>4, RowUpdate
<1> HIDE DEF inserted
<1>4. old \in Mem /\ old < n => /\ Sound(Supersede(inserted, old, n))
                              /\ Supersede(inserted, old, n)[n].held = NoMem
  <2> SUFFICES ASSUME old \in Mem, old < n
               PROVE  /\ Sound(Supersede(inserted, old, n))
                      /\ Supersede(inserted, old, n)[n].held = NoMem
    OBVIOUS
  <2>1. Sound(Supersede(inserted, old, n))
    BY <1>2, SupersedeSound
  <2>2. inserted \in [Mem -> Row] /\ old # n
    BY <1>2 DEF Sound, Mem
  <2>3. Supersede(inserted, old, n)[n].held = inserted[n].held
    BY <2>2 DEF Supersede, Row
  <2> QED BY <1>1, <1>2, <2>1, <2>3
<1>5. Sound(linked)
  BY <1>2, <1>3, <1>4
<1>6. ~hold => linked[n].held = NoMem
  BY <1>1, <1>2, <1>4
<1> HIDE DEF linked, hold
<1>7. Sound(Confirm(linked, n))
  BY <1>5, ConfirmSound
<1>8. ~hold => Sound(Promote(Confirm(linked, n), n))
  BY <1>5, <1>6, <1>7, ConfirmFields, PromoteSound
<1>9. Enacted(t, n, w, allow, old, confirmed)
        = IF ~confirmed THEN linked
          ELSE IF status = "staged" /\ ~hold THEN Promote(Confirm(linked, n), n)
          ELSE Confirm(linked, n)
  BY DEF Enacted, linked, hold, inserted, row
<1> QED BY <1>5, <1>7, <1>8, <1>9

-----------------------------------------------------------------------------
(* Scope promotion.                                                        *)

\* A memory moves, or gets a promoted form that derives from it.
LEMMA PromotedSound ==
  ASSUME NEW t, Sound(t), NEW u, NEW m \in Mem, m \in Rows(t), NEW a \in Writers,
         NEW s \in Scopes, EnactPromotion(t, u, m, a, s)
  PROVE  Sound(u)
<1>1. t \in [Mem -> Row] /\ t[m] \in Row /\ SoundRow(m, t[m])
  BY SoundAt
<1>2. CASE u = [t EXCEPT ![m].scope = s]
  <2> DEFINE row == [t[m] EXCEPT !.scope = s]
  <2>1. row \in Row
    BY <1>1 DEF Row
  <2>2. SoundRow(m, row)
    BY <1>1 DEF Row, SoundRow, Earned
  <2>3. u = [t EXCEPT ![m] = row]
    BY <1>1, <1>2
  <2> HIDE DEF row
  <2> QED BY <2>1, <2>2, <2>3, RowUpdate
<1>3. ASSUME NEW n \in Mem, Fresh(t, n), u = [t EXCEPT ![n] = PromotedCopy(t, m, a, s)]
      PROVE  Sound(u)
  <2> DEFINE row == PromotedCopy(t, m, a, s)
             fact == Rewritten(t[m].fact, s)
  <2>1. fact \in Facts \cup {Blank}
    BY <1>1, TokenAssumption DEF Rewritten, Row
  <2>2. row = [Unallocated EXCEPT
                 !.status = t[m].status, !.entered = t[m].status, !.fact = fact,
                 !.scope = s, !.trust = t[m].trust, !.origin = t[m].origin, !.agent = a,
                 !.about = t[m].about, !.from = {m}, !.evidence = t[m].evidence]
    BY DEF PromotedCopy
  <2> HIDE DEF fact, row
  <2>3. row \in Row
    BY <1>1, <2>1, <2>2, UnallocatedRow DEF Row
  <2>4. m < n /\ n \in Nat /\ n # 0
    BY <1>3, FreshAbove, MemNat DEF NoMem
  <2>5. SoundRow(n, row)
    BY <2>2, <2>4 DEF SoundRow, Unallocated, NoMem
  <2> QED BY <1>3, <2>3, <2>5, RowUpdate DEF row
<1> QED BY <1>2, <1>3 DEF EnactPromotion

-----------------------------------------------------------------------------
(* The consolidator and the erasure.                                       *)

\* A successor of older rows is sound.
LEMMA ConsolidatedSound ==
  ASSUME NEW t, Sound(t), NEW inputs \in SUBSET Mem, inputs # {}, NEW winner \in Mem,
         NEW s \in Scopes, NEW who \in Writers, NEW n \in Mem, \A m \in inputs : m < n
  PROVE  LET row == ConsolidatedRow(t, inputs, winner, s, who)
         IN  row \in Row /\ SoundRow(n, row)
<1> DEFINE row == ConsolidatedRow(t, inputs, winner, s, who)
           tier == IF \E m \in inputs : t[m].status = "staged" THEN "staged" ELSE "active"
           trust == MinTrust(t, inputs)
           about == UNION {t[m].about : m \in inputs}
           evidence == UNION {t[m].evidence : m \in inputs}
<1>1. t \in [Mem -> Row] /\ t[winner] \in Row
  BY SoundAt
<1>2. tier \in {"staged", "active"}
  OBVIOUS
<1>3. trust \in TrustLevels
  BY <1>1, MinTrustLevel
<1>4. about \in SUBSET Users /\ evidence \in SUBSET Episodes
  BY <1>1 DEF Row
<1>5. row = [Unallocated EXCEPT
               !.status = tier, !.entered = tier, !.fact = t[winner].fact, !.scope = s,
               !.trust = trust, !.origin = "consolidated", !.agent = who,
               !.about = about, !.from = inputs, !.evidence = evidence]
  BY DEF ConsolidatedRow
<1> HIDE DEF row, tier, trust, about, evidence
<1>6. row \in Row
  BY <1>1, <1>2, <1>3, <1>4, <1>5, UnallocatedRow DEF Row, Statuses, Live, Origins
<1>7. SoundRow(n, row)
  BY <1>2, <1>5, MemNat DEF SoundRow, Unallocated, NoMem
<1> QED BY <1>6, <1>7 DEF row

\* There are finitely many ids.
LEMMA MemFinite ==
  ASSUME NEW S \in SUBSET Mem
  PROVE  IsFiniteSet(S) /\ Cardinality(S) \in Nat
<1>1. 1 \in Int /\ MaxMem \in Int
  BY BoundAssumption
<1>2. IsFiniteSet(Mem)
  BY <1>1, FS_Interval DEF Mem
<1>3. IsFiniteSet(S)
  BY <1>2, FS_Subset
<1> QED BY <1>3, FS_CardinalityType

\* Successors get the ids from n on, one for each leader.
LEMMA SuccessorRange ==
  ASSUME NEW n \in Nat, NEW leaders \in SUBSET Mem, NEW m \in leaders
  PROVE  /\ SuccessorOf(n, leaders, m) \in Nat
         /\ n <= SuccessorOf(n, leaders, m)
         /\ SuccessorOf(n, leaders, m) <= n + Cardinality(leaders) - 1
<1> DEFINE before == {k \in leaders : k < m}
<1>1. IsFiniteSet(leaders)
  BY MemFinite
<1>2. before \subseteq leaders /\ before # leaders
  BY DEF Mem
<1>3. Cardinality(before) \in Nat /\ Cardinality(leaders) \in Nat
  BY <1>2, MemFinite
<1>4. Cardinality(before) < Cardinality(leaders)
  BY <1>1, <1>2, <1>3, FS_Subset
<1> QED BY <1>3, <1>4 DEF SuccessorOf

\* A run of dedupe keeps the store sound.
LEMMA MergedSound ==
  ASSUME NEW t, Sound(t), NEW n \in Mem, Fresh(t, n),
         n + Cardinality(Leaders(t)) - 1 \in Mem
  PROVE  Sound(Merged(t, n))
<1> DEFINE leaders == Leaders(t)
           u == Merged(t, n)
<1>1. leaders \in SUBSET Mem /\ \A l \in leaders : l \in Group(t, l)
  BY DEF Leaders, Group
<1>2. \A l \in leaders : Group(t, l) \in SUBSET Mem /\ \A k \in Group(t, l) : k < n
  <2>1. \A l \in leaders : \A k \in Group(t, l) : k \in Rows(t)
    BY DEF Group, Working, Rows
  <2> QED BY <2>1, FreshAbove DEF Group
<1>3. \A l \in leaders : /\ SuccessorOf(n, leaders, l) \in 0..MaxMem
                         /\ n <= SuccessorOf(n, leaders, l)
                         /\ SuccessorOf(n, leaders, l) # 0
  <2> TAKE l \in leaders
  <2>1. n \in Nat /\ n # 0 /\ n + Cardinality(leaders) - 1 <= MaxMem
    BY MemNat, BoundAssumption DEF Mem, NoMem
  <2>2. /\ SuccessorOf(n, leaders, l) \in Nat
        /\ n <= SuccessorOf(n, leaders, l)
        /\ SuccessorOf(n, leaders, l) <= n + Cardinality(leaders) - 1
    BY <1>1, <2>1, SuccessorRange
  <2>3. Cardinality(leaders) \in Nat
    BY <1>1, MemFinite
  <2> HIDE DEF leaders
  <2> QED BY <2>1, <2>2, <2>3, BoundAssumption
<1>4. ASSUME NEW m \in Mem PROVE u[m] \in Row /\ SoundRow(m, u[m])
  <2>0. t[m] \in Row /\ SoundRow(m, t[m]) /\ t \in [Mem -> Row]
    BY SoundAt
  <2>1. CASE \E l \in leaders : SuccessorOf(n, leaders, l) = m
    <3> DEFINE leader == CHOOSE k \in leaders : SuccessorOf(n, leaders, k) = m
    <3>1. leader \in leaders /\ SuccessorOf(n, leaders, leader) = m
      BY <2>1
    <3>2. u[m] = ConsolidatedRow(t, Group(t, leader), leader, t[leader].scope,
                                   Consolidator)
      BY <2>1 DEF Merged
    <3> HIDE DEF leader, leaders
    <3>3. leader \in Mem /\ Group(t, leader) \in SUBSET Mem /\ Group(t, leader) # {}
      BY <1>1, <1>2, <3>1
    <3>4. \A k \in Group(t, leader) : k < m
      BY <1>2, <1>3, <3>1, <3>3, MemNat
    <3>5. t[leader].scope \in Scopes /\ Consolidator \in Writers
      BY <2>0, <3>3 DEF Row, Writers
    <3> QED BY <3>2, <3>3, <3>4, <3>5, ConsolidatedSound
  <2>2. CASE /\ ~\E l \in leaders : SuccessorOf(n, leaders, l) = m
             /\ \E l \in leaders : m \in Group(t, l)
    <3> DEFINE leader == CHOOSE k \in leaders : m \in Group(t, k)
               new == SuccessorOf(n, leaders, leader)
    <3>1. leader \in leaders /\ m \in Group(t, leader)
      BY <2>2
    <3>2. u[m] = [t[m] EXCEPT !.status = "deprecated", !.superBy = new]
      BY <2>2 DEF Merged
    <3> HIDE DEF leader, leaders
    <3>3. new \in 0..MaxMem /\ m < new /\ new # 0
      BY <1>2, <1>3, <3>1, MemNat
    <3> HIDE DEF new
    <3>4. [t[m] EXCEPT !.status = "deprecated", !.superBy = new] \in Row
      BY <2>0, <3>3 DEF Row, Statuses
    <3>5. SoundRow(m, [t[m] EXCEPT !.status = "deprecated", !.superBy = new])
      BY <2>0, <3>3 DEF Row, SoundRow, Earned, NoMem
    <3> QED BY <3>2, <3>4, <3>5
  <2>3. CASE /\ ~\E l \in leaders : SuccessorOf(n, leaders, l) = m
             /\ ~\E l \in leaders : m \in Group(t, l)
    BY <2>0, <2>3 DEF Merged
  <2> QED BY <2>1, <2>2, <2>3
<1>5. u = [m \in Mem |-> u[m]]
  BY DEF Merged
<1> HIDE DEF u
<1>6. Sound(u)
  BY <1>4, <1>5, RowWise
<1> QED BY <1>6 DEF u

\* Every outcome of a sweep over a sound row is sound.
LEMMA SweptSound ==
  ASSUME NEW m \in Mem, NEW row \in Row, SoundRow(m, row),
         NEW faded \in BOOLEAN, NEW expired \in BOOLEAN, NEW hard \in BOOLEAN,
         NEW lapsed \in BOOLEAN
  PROVE  LET swept == Swept(row, faded, expired, hard, lapsed)
         IN  swept \in Row /\ SoundRow(m, swept)
<1> DEFINE idle    == IF Idle(row) THEN [row EXCEPT !.status = "archived"] ELSE row
           decayed == IF idle.status = "active" /\ faded
                      THEN IF row.proposed THEN [idle EXCEPT !.status = "archived"]
                                           ELSE [idle EXCEPT !.proposed = TRUE]
                      ELSE idle
           ended   == IF IsLive(decayed) /\ expired
                      THEN IF hard
                           THEN [decayed EXCEPT !.status = "tombstoned", !.fact = Blank]
                           ELSE [decayed EXCEPT !.status = "archived"]
                      ELSE decayed
           Ok(r)   == r \in Row /\ SoundRow(m, r)
<1>1. ASSUME NEW r, Ok(r) PROVE Ok([r EXCEPT !.status = "archived"])
  BY <1>1 DEF Row, SoundRow, Earned, Statuses
<1>2. ASSUME NEW r, Ok(r) PROVE Ok([r EXCEPT !.proposed = TRUE])
  BY <1>2 DEF Row, SoundRow, Earned
<1>3. ASSUME NEW r, Ok(r) PROVE Ok([r EXCEPT !.status = "tombstoned", !.fact = Blank])
  <2> DEFINE wiped == [r EXCEPT !.status = "tombstoned", !.fact = Blank]
  <2>1. wiped \in Row
    BY <1>3 DEF Row, Statuses
  <2>2. SoundRow(m, wiped)
    BY <1>3 DEF Row, SoundRow, Earned
  <2> QED BY <2>1, <2>2
<1>4. Ok(row)
  OBVIOUS
<1> HIDE DEF Ok
<1>5. Ok(idle)
  BY <1>1, <1>4
<1> HIDE DEF idle
<1>6. Ok(decayed)
  BY <1>1, <1>2, <1>5
<1> HIDE DEF decayed
<1>7. Ok(ended)
  BY <1>1, <1>3, <1>6
<1> HIDE DEF ended
<1>8. Ok(IF row.status = "deprecated" /\ lapsed
         THEN [ended EXCEPT !.status = "archived"] ELSE ended)
  BY <1>1, <1>7
<1> QED BY <1>8 DEF Swept, Ok, idle, decayed, ended

\* An erasure with its regenerations keeps the store sound.
LEMMA ErasedSound ==
  ASSUME NEW t, Sound(t), NEW closure \in SUBSET Mem, NEW n \in Nat,
         \A m \in Rows(t) : m < n, NEW winner,
         \A r \in Regenerated(t, closure) : winner[r] \in Survivors(t, closure, r)
  PROVE  Sound(Erased(t, n, closure, winner))
<1> DEFINE again == Regenerated(t, closure)
           u == Erased(t, n, closure, winner)
<1>1. again \in SUBSET Mem /\ \A r \in again : r \in Rows(t) /\ Survivors(t, closure, r) # {}
  BY DEF Regenerated, Rows, IsLive, Live
<1>2. ASSUME NEW m \in Mem PROVE u[m] \in Row /\ SoundRow(m, u[m])
  <2>0. t[m] \in Row /\ SoundRow(m, t[m]) /\ t \in [Mem -> Row]
    BY SoundAt
  <2>1. CASE \E r \in again : SuccessorOf(n, again, r) = m
    <3> DEFINE r == CHOOSE k \in again : SuccessorOf(n, again, k) = m
               inputs == Survivors(t, closure, r)
    <3>1. r \in again /\ SuccessorOf(n, again, r) = m
      BY <2>1
    <3>2. u[m] = ConsolidatedRow(t, inputs, winner[r], t[r].scope, Person)
      BY <2>1 DEF Erased
    <3> HIDE DEF r, again
    <3>3. r \in Mem /\ r < n
      BY <1>1, <3>1
    <3>4. t[r] \in Row /\ SoundRow(r, t[r])
      BY <3>3, SoundAt
    <3>5. inputs \in SUBSET Mem /\ \A k \in inputs : k < r
      BY <3>4 DEF Survivors, Row, SoundRow
    <3>6. winner[r] \in inputs /\ inputs # {}
      BY <3>1 DEF again
    <3>7. n <= m
      BY <1>1, <3>1, SuccessorRange
    <3>8. \A k \in inputs : k < m
      BY <3>3, <3>5, <3>7, MemNat
    <3>9. t[r].scope \in Scopes /\ Person \in Writers
      BY <3>4 DEF Row, Writers
    <3> HIDE DEF inputs
    <3> QED BY <3>2, <3>5, <3>6, <3>8, <3>9, ConsolidatedSound
  <2>2. CASE /\ ~\E r \in again : SuccessorOf(n, again, r) = m
             /\ m \in closure
    <3>1. u[m] = [t[m] EXCEPT !.status = "tombstoned", !.fact = Blank]
      BY <2>2 DEF Erased
    <3> QED BY <2>0, <3>1 DEF Row, SoundRow, Earned, Statuses
  <2>3. CASE /\ ~\E r \in again : SuccessorOf(n, again, r) = m
             /\ m \notin closure
    BY <2>0, <2>3 DEF Erased
  <2> QED BY <2>1, <2>2, <2>3
<1>3. u = [m \in Mem |-> u[m]]
  BY DEF Erased
<1> HIDE DEF u
<1>4. Sound(u)
  BY <1>2, <1>3, RowWise
<1> QED BY <1>4 DEF u
=============================================================================
