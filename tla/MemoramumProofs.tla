--------------------------- MODULE MemoramumProofs ---------------------------
(***************************************************************************)
(* The memory service keeps its invariant IInv, for every value of the     *)
(* constants: Init establishes it, every action of Next preserves it, and  *)
(* the safety properties that speak of one row follow from it.             *)
(***************************************************************************)
EXTENDS StoreProofs

\* A step that only writes the store, and leaves it sound, preserves IInv.
LEMMA StoreStep ==
  ASSUME IInv, Sound(mem'), UNCHANGED <<asks, frozen, drafts>>
  PROVE  IInv'
  BY DEF IInv, TypeOK, Sound

\* The same for a step that writes one row.
LEMMA RowStep ==
  ASSUME IInv, NEW m \in Mem, NEW row \in Row, SoundRow(m, row),
         mem' = [mem EXCEPT ![m] = row], UNCHANGED <<asks, frozen, drafts>>
  PROVE  IInv'
<1>1. Sound(mem')
  BY RowUpdate DEF IInv
<1> QED BY <1>1, StoreStep

\* The same for a store computed row by row.
LEMMA RowWiseStep ==
  ASSUME IInv, mem' = [m \in Mem |-> mem'[m]],
         \A m \in Mem : mem'[m] \in Row /\ SoundRow(m, mem'[m]),
         UNCHANGED <<asks, frozen, drafts>>
  PROVE  IInv'
  BY RowWise, StoreStep

\* The write pipeline leaves the store sound.
LEMMA EnactWriteSound ==
  ASSUME IInv, NEW w \in Candidate, NEW allow \in BOOLEAN, NEW confirmed \in BOOLEAN,
         EnactWrite(w, allow, confirmed)
  PROVE  Sound(mem')
<1>1. Sound(mem)
  BY DEF IInv
<1>2. CASE \E d \in Duplicates(mem, w) : mem' = Reobserved(mem, d, w)
  BY <1>1, <1>2, ReobservedSound DEF Duplicates
<1>3. ASSUME NEW n \in Mem, NEW old \in Contradicting(mem, w) \cup {NoMem}, Fresh(mem, n),
             mem' = Enacted(mem, n, w, allow, old, confirmed)
      PROVE  Sound(mem')
  <2>1. \A s \in w.srcs : s < n
    BY <1>3, FreshAbove DEF EnactWrite
  <2>2. old = NoMem \/ (old \in Mem /\ old < n)
    <3>1. \A k \in Contradicting(mem, w) : k \in Rows(mem)
      BY DEF Contradicting, Recallable, IsLive, Live, Rows
    <3> QED BY <1>3, <3>1, FreshAbove
  <2> QED BY <1>1, <1>3, <2>1, <2>2, EnactedSound
<1> QED BY <1>2, <1>3 DEF EnactWrite

\* A call parked for a human is a well-formed pending action.
LEMMA ParkType ==
  ASSUME IInv, NEW ask \in Ask, Park(ask)
  PROVE  asks' \in [Slot -> Ask]
  BY DEF IInv, TypeOK, Park

\* The placeholder of a parked call without a candidate.
LEMMA NoCandidateType == NoCandidate \in Candidate
<1>1. (CHOOSE f \in Facts : TRUE) \in Facts /\ (CHOOSE s \in Scopes : TRUE) \in Scopes
  BY FactAssumption, ScopeAssumption
<1> QED BY <1>1 DEF NoCandidate, Candidate, Origins, Writers

\* The empty slot of a parked call.
LEMMA NoAskType == NoAsk \in Ask
<1>1. (CHOOSE s \in Scopes : TRUE) \in Scopes /\ NoMem \in 0..MaxMem
  BY ScopeAssumption, BoundAssumption DEF NoMem
<1> QED BY <1>1, NoCandidateType DEF NoAsk, Ask, Writers, Modes

\* A settled call is a well-formed pending action.
LEMMA SettleType ==
  ASSUME IInv, NEW p \in Slot, NEW how \in {"approved", "declined"}, Settle(p, how)
  PROVE  asks' \in [Slot -> Ask]
<1>1. asks \in [Slot -> Ask]
  BY DEF IInv, TypeOK
<1>2. [NoAsk EXCEPT !.state = how] \in Ask
  BY NoAskType DEF Ask
<1> QED BY <1>1, <1>2 DEF Settle

-----------------------------------------------------------------------------
(* Init.                                                                   *)

\* The empty store and a store with one pinned memory satisfy the invariant.
LEMMA InitInv == Init => IInv
<1> SUFFICES ASSUME Init PROVE IInv
  OBVIOUS
<1>1. Sound(EmptyStore)
  <2>1. \A m \in Mem : SoundRow(m, Unallocated)
    BY MemNat DEF SoundRow, Unallocated, NoMem
  <2> QED BY <2>1, UnallocatedRow DEF Sound, EmptyStore
<1>2. ASSUME NEW f \in Pins, NEW s \in Scopes
      PROVE  Sound([EmptyStore EXCEPT ![1] = PinnedRow(f, s)])
  <2>1. 1 \in Mem
    BY BoundAssumption DEF Mem
  <2>2. f \in Facts
    BY PinAssumption
  <2>3. PinnedRow(f, s) \in Row
    BY <2>2, UnallocatedRow
       DEF PinnedRow, Row, Statuses, Live, TrustLevels, Origins
  <2>4. SoundRow(1, PinnedRow(f, s))
    BY DEF SoundRow, PinnedRow, Unallocated, NoMem
  <2> QED BY <1>1, <2>1, <2>3, <2>4, RowUpdate
<1>3. Sound(mem)
  BY <1>1, <1>2 DEF Init
<1>4. asks \in [Slot -> Ask] /\ frozen \subseteq Agents /\ drafts \subseteq Candidate
  BY NoAskType DEF Init
<1> QED BY <1>3, <1>4 DEF IInv, TypeOK, Sound

-----------------------------------------------------------------------------
(* Callers and reviewers.                                                  *)

LEMMA RememberInv ==
  ASSUME IInv, NEW w \in Candidate, NEW allow \in BOOLEAN, Remember(w, allow)
  PROVE  IInv'
  BY EnactWriteSound, StoreStep DEF Remember, Remembered

LEMMA DeliverInv ==
  ASSUME IInv, NEW m \in Mem, Deliver(m)
  PROVE  IInv'
<1> DEFINE row == [mem[m] EXCEPT !.used = TRUE]
<1>1. mem \in [Mem -> Row] /\ mem[m] \in Row /\ SoundRow(m, mem[m])
  BY SoundAt DEF IInv
<1>2. row \in Row
  BY <1>1 DEF Row
<1>3. SoundRow(m, row)
  BY <1>1 DEF Row, SoundRow, Earned
<1>4. mem' = [mem EXCEPT ![m] = row] /\ UNCHANGED <<asks, frozen, drafts>>
  BY <1>1 DEF Deliver
<1> HIDE DEF row
<1> QED BY <1>2, <1>3, <1>4, RowStep

LEMMA ReinforceUsefulInv ==
  ASSUME IInv, NEW m \in Mem, ReinforceUseful(m)
  PROVE  IInv'
<1> DEFINE count == IF mem[m].useful < PromoteUseful THEN mem[m].useful + 1
                    ELSE mem[m].useful
           row == [mem[m] EXCEPT !.useful = count, !.used = TRUE]
           used == [mem EXCEPT ![m].useful = IF @ < PromoteUseful THEN @ + 1 ELSE @,
                               ![m].used = TRUE]
<1>1. /\ Sound(mem) /\ mem \in [Mem -> Row]
      /\ mem[m] \in Row /\ SoundRow(m, mem[m])
  BY SoundAt DEF IInv
<1>2. mem[m].useful \in 0..PromoteUseful
  BY <1>1 DEF Row
<1>3. count \in 0..PromoteUseful /\ mem[m].useful <= count
  BY <1>2, BoundAssumption
<1>4. row \in Row
  BY <1>1, <1>3 DEF Row
<1>5. SoundRow(m, row)
  BY <1>1, <1>2, <1>3, BoundAssumption DEF Row, SoundRow, Earned
<1>6. used = [mem EXCEPT ![m] = row]
  BY <1>1
<1> HIDE DEF row
<1>7. Sound(used)
  BY <1>1, <1>4, <1>5, <1>6, RowUpdate
<1> HIDE DEF used
<1>8. Sound(MaybePromote(used, m))
  BY <1>7, MaybePromoteSound
<1>9. mem' = MaybePromote(used, m) /\ UNCHANGED <<asks, frozen, drafts>>
  BY DEF ReinforceUseful, used
<1> QED BY <1>8, <1>9, StoreStep

LEMMA ReinforceWrongInv ==
  ASSUME IInv, NEW m \in Mem, ReinforceWrong(m)
  PROVE  IInv'
<1> DEFINE row == [mem[m] EXCEPT !.doubts = @ + 1, !.used = TRUE]
<1>1. /\ Sound(mem) /\ mem \in [Mem -> Row]
      /\ mem[m] \in Row /\ SoundRow(m, mem[m])
  BY SoundAt DEF IInv
<1>2. mem[m].doubts \in 0..MaxDoubts
  BY <1>1 DEF Row
<1>3. mem[m].doubts + 1 \in 0..MaxDoubts
  BY <1>2, BoundAssumption DEF ReinforceWrong
<1>4. row \in Row
  BY <1>1, <1>3 DEF Row
<1>5. SoundRow(m, row)
  BY <1>1 DEF Row, SoundRow, Earned
<1>6. mem' = [mem EXCEPT ![m] = row] /\ UNCHANGED <<asks, frozen, drafts>>
  BY <1>1 DEF ReinforceWrong
<1> HIDE DEF row
<1> QED BY <1>4, <1>5, <1>6, RowStep

LEMMA ReviewConfirmInv ==
  ASSUME IInv, NEW m \in Mem, ReviewConfirm(m)
  PROVE  IInv'
<1>1. Sound(mem)
  BY DEF IInv
<1>2. Sound(Promote(Confirm(mem, m), m))
  BY <1>1, ConfirmSound, ConfirmFields, PromoteSound DEF ReviewConfirm
<1> QED BY <1>2, StoreStep DEF ReviewConfirm

\* Closing the item on a row that is not promoted meanwhile.
LEMMA CloseItemSound ==
  ASSUME NEW t, Sound(t), NEW c \in Mem
  PROVE  Sound([t EXCEPT ![c].held = NoMem])
<1>1. t \in [Mem -> Row] /\ t[c] \in Row /\ SoundRow(c, t[c])
  BY SoundAt
<1>2. [t[c] EXCEPT !.held = NoMem] \in Row
  BY <1>1, BoundAssumption DEF Row, NoMem
<1>3. SoundRow(c, [t[c] EXCEPT !.held = NoMem])
  BY <1>1, MemNat DEF Row, SoundRow, Earned, NoMem
<1>4. [t EXCEPT ![c].held = NoMem] = [t EXCEPT ![c] = [t[c] EXCEPT !.held = NoMem]]
  BY <1>1
<1> QED BY <1>2, <1>3, <1>4, RowUpdate

LEMMA ReviewRejectInv ==
  ASSUME IInv, NEW m \in Mem, ReviewReject(m)
  PROVE  IInv'
<1>1. Sound([Archive(mem, m) EXCEPT ![m].held = NoMem])
  BY ArchiveSound, CloseItemSound DEF IInv
<1> QED BY <1>1, StoreStep DEF ReviewReject

\* The row a challenger is held against is older than the challenger.
LEMMA HeldOlder ==
  ASSUME IInv, NEW c \in Mem, mem[c].held # NoMem
  PROVE  mem[c].held \in Mem /\ mem[c].held < c
<1>1. mem[c] \in Row /\ SoundRow(c, mem[c])
  BY SoundAt DEF IInv
<1> QED BY <1>1, BoundAssumption DEF Row, SoundRow, Mem, NoMem

LEMMA ResolveSupersedeInv ==
  ASSUME IInv, NEW c \in Mem, ResolveSupersede(c)
  PROVE  IInv'
<1>1. mem[c].held \in Mem /\ mem[c].held < c
  BY HeldOlder DEF ResolveSupersede
<1>2. Sound(Accept(mem, c))
  BY AcceptSound DEF IInv
<1>3. Sound(Supersede(Accept(mem, c), mem[c].held, c))
  BY <1>1, <1>2, SupersedeSound
<1> QED BY <1>3, StoreStep DEF ResolveSupersede

LEMMA ResolveKeepBothInv ==
  ASSUME IInv, NEW c \in Mem, ResolveKeepBoth(c)
  PROVE  IInv'
<1> DEFINE old == mem[c].held
           t   == Accept(mem, c)
           row == [t[old] EXCEPT !.closed = TRUE, !.confirmed = TRUE, !.used = TRUE]
<1>1. old \in Mem
  BY HeldOlder DEF ResolveKeepBoth
<1>2. Sound(t)
  BY AcceptSound DEF IInv
<1>3. mem' = [t EXCEPT ![old].closed = TRUE, ![old].confirmed = TRUE, ![old].used = TRUE]
  BY DEF ResolveKeepBoth
<1> HIDE DEF old, t
<1>4. t \in [Mem -> Row] /\ t[old] \in Row /\ SoundRow(old, t[old])
  BY <1>1, <1>2, SoundAt
<1>5. row \in Row
  BY <1>4 DEF Row
<1>6. SoundRow(old, row)
  BY <1>4 DEF Row, SoundRow, Earned
<1>7. mem' = [t EXCEPT ![old] = row]
  BY <1>1, <1>3, <1>4
<1> HIDE DEF row
<1>8. Sound(mem')
  BY <1>1, <1>2, <1>5, <1>6, <1>7, RowUpdate
<1> QED BY <1>8, StoreStep DEF ResolveKeepBoth

LEMMA ResolveRejectInv ==
  ASSUME IInv, NEW c \in Mem, ResolveReject(c)
  PROVE  IInv'
<1> DEFINE kept == IF mem[c].status = "staged" THEN Archive(mem, c) ELSE mem
<1>1. Sound(kept)
  BY ArchiveSound DEF IInv
<1>2. mem' = [kept EXCEPT ![c].held = NoMem] /\ UNCHANGED <<asks, frozen, drafts>>
  BY DEF ResolveReject
<1> HIDE DEF kept
<1> QED BY <1>1, <1>2, CloseItemSound, StoreStep

LEMMA ResolveDoubtInv ==
  ASSUME IInv, NEW m \in Mem, ResolveDoubt(m)
  PROVE  IInv'
<1> DEFINE row == [mem[m] EXCEPT !.doubts = @ - 1]
<1>1. /\ Sound(mem) /\ mem \in [Mem -> Row]
      /\ mem[m] \in Row /\ SoundRow(m, mem[m])
  BY SoundAt DEF IInv
<1>2. mem[m].doubts \in 0..MaxDoubts
  BY <1>1 DEF Row
<1>3. mem[m].doubts - 1 \in 0..MaxDoubts
  BY <1>2, BoundAssumption DEF ResolveDoubt
<1>4. row \in Row
  BY <1>1, <1>3 DEF Row
<1>5. SoundRow(m, row)
  BY <1>1 DEF Row, SoundRow, Earned
<1>6. mem' = [mem EXCEPT ![m] = row] /\ UNCHANGED <<asks, frozen, drafts>>
  BY <1>1 DEF ResolveDoubt
<1> HIDE DEF row
<1> QED BY <1>4, <1>5, <1>6, RowStep

LEMMA CallerInv == IInv /\ CallerNext => IInv'
<1> SUFFICES ASSUME IInv, CallerNext PROVE IInv'
  OBVIOUS
<1>1. CASE \E w \in Candidates, allow \in BOOLEAN : Remember(w, allow)
  BY <1>1, CandidateAssumption, RememberInv
<1>2. CASE \E m \in Mem : Deliver(m) \/ ReinforceUseful(m) \/ ReinforceWrong(m)
  BY <1>2, DeliverInv, ReinforceUsefulInv, ReinforceWrongInv
<1> QED BY <1>1, <1>2 DEF CallerNext

LEMMA ReviewerInv == IInv /\ ReviewerNext => IInv'
  BY ReviewConfirmInv, ReviewRejectInv, ResolveSupersedeInv, ResolveKeepBothInv,
     ResolveRejectInv, ResolveDoubtInv DEF ReviewerNext

-----------------------------------------------------------------------------
(* Calls that may park, and what becomes of them.                          *)

\* A step that only parks or settles an ask, freezes or takes up a draft.
LEMMA DeskStep ==
  ASSUME IInv, UNCHANGED mem, asks' \in [Slot -> Ask], frozen' \subseteq Agents,
         drafts' \subseteq drafts
  PROVE  IInv'
  BY DEF IInv, TypeOK

\* A step that settles an ask and leaves the store sound.
LEMMA ApprovalStep ==
  ASSUME IInv, NEW p \in Slot, Settle(p, "approved"), Sound(mem'),
         UNCHANGED <<frozen, drafts>>
  PROVE  IInv'
<1>1. asks' \in [Slot -> Ask]
  BY SettleType
<1> QED BY <1>1 DEF IInv, TypeOK, Sound

LEMMA ParkedType ==
  ASSUME IInv, NEW w \in Candidate, Parked(w)
  PROVE  asks' \in [Slot -> Ask] /\ UNCHANGED <<mem, frozen>>
<1> DEFINE ask == [state |-> "open", action |-> "remember", by |-> w.agent, cand |-> w,
                   about |-> NoMem, source |-> w.scope, target |-> w.scope,
                   mode |-> "archive"]
<1>1. ask \in Ask
  BY BoundAssumption DEF Ask, Candidate, Modes, NoMem
<1>2. Park(ask) /\ UNCHANGED <<mem, frozen>>
  BY DEF Parked
<1> HIDE DEF ask
<1> QED BY <1>1, <1>2, ParkType

LEMMA ParkRememberInv ==
  ASSUME IInv, NEW w \in Candidate, ParkRemember(w)
  PROVE  IInv'
<1>1. asks' \in [Slot -> Ask] /\ UNCHANGED <<mem, frozen, drafts>>
  BY ParkedType DEF ParkRemember
<1> QED BY <1>1, DeskStep DEF IInv, TypeOK

LEMMA ParkDraftInv ==
  ASSUME IInv, NEW w \in drafts, ParkDraft(w)
  PROVE  IInv'
<1>1. w \in Candidate
  BY DEF IInv, TypeOK
<1>2. asks' \in [Slot -> Ask] /\ UNCHANGED <<mem, frozen>> /\ drafts' \subseteq drafts
  BY <1>1, ParkedType DEF ParkDraft
<1> QED BY <1>2, DeskStep DEF IInv, TypeOK

\* A parked promotion or forget names a memory and two scopes.
LEMMA ParkAboutInv ==
  ASSUME IInv, NEW m \in Mem, NEW a \in Writers, NEW action \in {"forget", "promote"},
         NEW s \in Scopes, NEW mode \in Modes,
         Park([state |-> "open", action |-> action, by |-> a, cand |-> NoCandidate,
               about |-> m, source |-> mem[m].scope, target |-> s, mode |-> mode]),
         UNCHANGED <<mem, frozen, drafts>>
  PROVE  IInv'
<1> DEFINE ask == [state |-> "open", action |-> action, by |-> a, cand |-> NoCandidate,
                   about |-> m, source |-> mem[m].scope, target |-> s, mode |-> mode]
<1>1. mem[m].scope \in Scopes /\ m \in 0..MaxMem
  BY SoundAt, MemNat DEF IInv, Row
<1>2. ask \in Ask
  BY <1>1, NoCandidateType DEF Ask
<1>3. asks' \in [Slot -> Ask]
  <2> HIDE DEF ask
  <2>1. Park(ask)
    BY DEF ask
  <2> QED BY <1>2, <2>1, ParkType
<1> QED BY <1>3, DeskStep DEF IInv, TypeOK

LEMMA ParkPromoteInv ==
  ASSUME IInv, NEW a \in Agents, NEW m \in Mem, NEW s \in Scopes, ParkPromote(a, m, s)
  PROVE  IInv'
<1>1. a \in Writers /\ "archive" \in Modes
  BY DEF Writers, Modes
<1> QED BY <1>1, ParkAboutInv DEF ParkPromote

LEMMA ParkForgetInv ==
  ASSUME IInv, NEW a \in Agents \cup {Person}, NEW m \in Mem, NEW mode \in Modes,
         ParkForget(a, m, mode)
  PROVE  IInv'
<1>1. a \in Writers /\ mem[m].scope \in Scopes
  BY SoundAt DEF Writers, IInv, Row
<1> QED BY <1>1, ParkAboutInv DEF ParkForget

LEMMA PromoteScopeInv ==
  ASSUME IInv, NEW a \in Agents, NEW m \in Mem, NEW s \in Scopes, PromoteScope(a, m, s)
  PROVE  IInv'
<1>1. m \in Rows(mem) /\ a \in Writers
  BY DEF PromoteScope, Promotable, IsLive, Live, Rows, Writers
<1>2. Sound(mem')
  BY <1>1, PromotedSound DEF IInv, PromoteScope
<1> QED BY <1>2, StoreStep DEF PromoteScope

LEMMA ForgetSound ==
  ASSUME NEW t, Sound(t), NEW m \in Mem, NEW mode \in Modes
  PROVE  Sound(EnactForget(t, m, mode))
  BY ArchiveSound, TombstoneSound DEF EnactForget

LEMMA AgentForgetInv ==
  ASSUME IInv, NEW a \in Agents, NEW m \in Mem, NEW mode \in Modes, AgentForget(a, m, mode)
  PROVE  IInv'
  BY ForgetSound, StoreStep DEF AgentForget, IInv

LEMMA UserForgetInv ==
  ASSUME IInv, NEW m \in Mem, NEW mode \in Modes, NEW auditor \in BOOLEAN,
         UserForget(m, mode, auditor)
  PROVE  IInv'
  BY ForgetSound, StoreStep DEF UserForget, IInv

LEMMA MoveInv == IInv /\ MoveNext => IInv'
  BY PromoteScopeInv, ParkPromoteInv, AgentForgetInv, ParkForgetInv, UserForgetInv
     DEF MoveNext

LEMMA DeclineInv ==
  ASSUME IInv, NEW p \in Slot, Decline(p)
  PROVE  IInv'
<1>1. asks' \in [Slot -> Ask]
  BY SettleType DEF Decline
<1> QED BY <1>1, DeskStep DEF Decline, IInv, TypeOK

LEMMA ApproveRememberInv ==
  ASSUME IInv, NEW p \in Slot, ApproveRemember(p)
  PROVE  IInv'
<1>1. asks[p].cand \in Candidate
  BY DEF IInv, TypeOK, Ask
<1>2. Sound(mem')
  BY <1>1, EnactWriteSound DEF ApproveRemember
<1> QED BY <1>2, ApprovalStep DEF ApproveRemember

LEMMA ApproveForgetInv ==
  ASSUME IInv, NEW p \in Slot, ApproveForget(p)
  PROVE  IInv'
<1>1. asks[p].about \in Mem /\ asks[p].mode \in Modes
  BY DEF ApproveForget, StillThere, Rows, IInv, TypeOK, Ask
<1>2. Sound(EnactForget(Confirm(mem, asks[p].about), asks[p].about, asks[p].mode))
  BY <1>1, ConfirmSound, ForgetSound DEF IInv
<1> QED BY <1>2, ApprovalStep DEF ApproveForget

LEMMA ApprovePromoteInv ==
  ASSUME IInv, NEW p \in Slot, ApprovePromote(p)
  PROVE  IInv'
<1> DEFINE m == asks[p].about
           t == Confirm(mem, m)
<1>1. /\ m \in Rows(mem) /\ m \in Mem
      /\ asks[p].by \in Writers /\ asks[p].target \in Scopes
  BY DEF ApprovePromote, StillThere, Rows, IInv, TypeOK, Ask
<1>2. Sound(mem)
  BY DEF IInv
<1>3. Sound(t)
  BY <1>1, <1>2, ConfirmSound
<1>4. m \in Rows(t)
  BY <1>1, <1>2, ConfirmFields DEF Rows
<1>5. EnactPromotion(t, mem', m, asks[p].by, asks[p].target)
  BY DEF ApprovePromote
<1> HIDE DEF t, m
<1>6. Sound(mem')
  BY <1>1, <1>3, <1>4, <1>5, PromotedSound
<1> QED BY <1>6, ApprovalStep DEF ApprovePromote

LEMMA FreezeInv ==
  ASSUME IInv, NEW a \in Agents, Freeze(a) \/ Unfreeze(a)
  PROVE  IInv'
  BY DeskStep DEF Freeze, Unfreeze, IInv, TypeOK

LEMMA AskInv == IInv /\ AskNext => IInv'
  BY CandidateAssumption, ParkRememberInv, DeclineInv, ApproveRememberInv,
     ApproveForgetInv, ApprovePromoteInv, FreezeInv DEF AskNext

-----------------------------------------------------------------------------
(* Time and the consolidator.                                              *)

LEMMA ElapseInv == IInv /\ Elapse => IInv'
<1> SUFFICES ASSUME IInv, Elapse PROVE IInv'
  OBVIOUS
<1>1. PICK k \in Rows(mem) :
        mem' = [m \in Mem |-> IF m \in Rows(mem) /\ m <= k /\ mem[m].age < MaxAge
                              THEN [mem[m] EXCEPT !.age = @ + 1] ELSE mem[m]]
  BY DEF Elapse
<1>2. ASSUME NEW m \in Mem PROVE mem'[m] \in Row /\ SoundRow(m, mem'[m])
  <2>1. mem[m] \in Row /\ SoundRow(m, mem[m])
    BY SoundAt DEF IInv
  <2>2. CASE m \in Rows(mem) /\ m <= k /\ mem[m].age < MaxAge
    <3>1. mem'[m] = [mem[m] EXCEPT !.age = mem[m].age + 1]
      BY <1>1, <2>2
    <3>2. mem[m].age \in 0..MaxAge
      BY <2>1 DEF Row
    <3>3. mem[m].age + 1 \in 0..MaxAge
      BY <2>2, <3>2, BoundAssumption
    <3>4. mem'[m] \in Row
      BY <2>1, <3>1, <3>3 DEF Row
    <3>5. SoundRow(m, mem'[m])
      BY <2>1, <3>1 DEF Row, SoundRow, Earned
    <3> QED BY <3>4, <3>5
  <2>3. CASE ~(m \in Rows(mem) /\ m <= k /\ mem[m].age < MaxAge)
    BY <1>1, <2>1, <2>3
  <2> QED BY <2>2, <2>3
<1>3. mem' = [m \in Mem |-> mem'[m]]
  BY <1>1
<1> QED BY <1>2, <1>3, RowWiseStep DEF Elapse

LEMMA DedupeInv == IInv /\ Dedupe => IInv'
<1> SUFFICES ASSUME IInv, Dedupe PROVE IInv'
  OBVIOUS
<1>1. Sound(mem')
  BY MergedSound DEF IInv, Dedupe
<1> QED BY <1>1, StoreStep DEF Dedupe

LEMMA ReviewContradictionsInv == IInv /\ ReviewContradictions => IInv'
<1> SUFFICES ASSUME IInv, ReviewContradictions PROVE IInv'
  OBVIOUS
<1>1. ASSUME NEW m \in Mem PROVE mem'[m] \in Row /\ SoundRow(m, mem'[m])
  <2>1. mem[m] \in Row /\ SoundRow(m, mem[m])
    BY SoundAt DEF IInv
  <2>2. CASE mem[m].held # NoMem /\ mem[m].age >= ReviewAge
    <3> DEFINE status == IF mem[m].status = "staged" THEN "archived" ELSE mem[m].status
    <3>1. mem'[m] = [mem[m] EXCEPT !.held = NoMem, !.status = status]
      BY <2>2 DEF ReviewContradictions
    <3>2. status \in Statuses /\ NoMem \in 0..MaxMem
      BY <2>1, BoundAssumption DEF Row, Statuses, NoMem
    <3>3. \/ status = "archived"
          \/ status = mem[m].status
      OBVIOUS
    <3> HIDE DEF status
    <3>4. mem'[m] \in Row
      BY <2>1, <3>1, <3>2 DEF Row
    <3>5. SoundRow(m, mem'[m])
      BY <2>1, <3>1, <3>3, MemNat DEF Row, SoundRow, Earned, NoMem
    <3> QED BY <3>4, <3>5
  <2>3. CASE ~(mem[m].held # NoMem /\ mem[m].age >= ReviewAge)
    BY <2>1, <2>3 DEF ReviewContradictions
  <2> QED BY <2>2, <2>3
<1>2. mem' = [m \in Mem |-> mem'[m]]
  BY DEF ReviewContradictions
<1> QED BY <1>1, <1>2, RowWiseStep DEF ReviewContradictions

LEMMA PromoteStagedInv == IInv /\ PromoteStaged => IInv'
<1> SUFFICES ASSUME IInv, PromoteStaged PROVE IInv'
  OBVIOUS
<1>1. ASSUME NEW m \in Mem PROVE mem'[m] \in Row /\ SoundRow(m, mem'[m])
  <2>1. mem[m] \in Row /\ SoundRow(m, mem[m])
    BY SoundAt DEF IInv
  <2>2. CASE PromotionDue(mem, m)
    <3>1. mem'[m] = [mem[m] EXCEPT !.status = "active"]
      BY <2>2 DEF PromoteStaged
    <3>2. mem[m].held = NoMem /\ Earned(mem[m])
      BY <2>2 DEF PromotionDue, Contested
    <3> QED BY <2>1, <3>1, <3>2 DEF Row, SoundRow, Earned, Statuses, Live
  <2>3. CASE ~PromotionDue(mem, m)
    BY <2>1, <2>3 DEF PromoteStaged
  <2> QED BY <2>2, <2>3
<1>2. mem' = [m \in Mem |-> mem'[m]]
  BY DEF PromoteStaged
<1> QED BY <1>1, <1>2, RowWiseStep DEF PromoteStaged

\* What a reflection distills is a candidate like any other.
LEMMA ReflectionsType == IInv => Reflections \subseteq Candidate
<1> SUFFICES ASSUME IInv, NEW s \in Scopes, NEW srcs \in Clusters(s), NEW f \in Facts
             PROVE  Distilled(s, srcs, f) \in Candidate
  BY DEF Reflections
<1>1. srcs \in SUBSET Mem
  BY DEF Clusters
<1>2. UNION {mem[m].about : m \in srcs} \in SUBSET Users
  BY <1>1, SoundAt DEF IInv, Row
<1> QED BY <1>1, <1>2 DEF Distilled, Candidate, Origins, Writers

LEMMA ReflectInv == IInv /\ Reflect => IInv'
<1> SUFFICES ASSUME IInv, Reflect PROVE IInv'
  OBVIOUS
<1>1. drafts' \subseteq Candidate
  BY ReflectionsType DEF Reflect
<1> QED BY <1>1 DEF Reflect, IInv, TypeOK, Sound

LEMMA ProposeDraftInv ==
  ASSUME IInv, NEW w \in drafts, NEW allow \in BOOLEAN, ProposeDraft(w, allow)
  PROVE  IInv'
<1>1. w \in Candidate
  BY DEF IInv, TypeOK
<1>2. Sound(mem')
  BY <1>1, EnactWriteSound DEF ProposeDraft, Remembered
<1> QED BY <1>2 DEF ProposeDraft, Remembered, IInv, TypeOK, Sound

LEMMA ReflectNextInv == IInv /\ ReflectNext => IInv'
<1> SUFFICES ASSUME IInv, ReflectNext PROVE IInv'
  OBVIOUS
<1>1. ASSUME NEW w \in drafts, DropDraft(w) PROVE IInv'
  BY <1>1, DeskStep DEF DropDraft, IInv, TypeOK
<1> QED BY <1>1, ReflectInv, ProposeDraftInv DEF ReflectNext

LEMMA SweepInv == IInv /\ SweepNext => IInv'
<1> SUFFICES ASSUME IInv, NEW faded, NEW expired, NEW hard, NEW lapsed,
                    Sweep(faded, expired, hard, lapsed)
             PROVE  IInv'
  BY DEF SweepNext
<1>1. ASSUME NEW m \in Mem PROVE mem'[m] \in Row /\ SoundRow(m, mem'[m])
  <2>1. mem[m] \in Row /\ SoundRow(m, mem[m])
    BY SoundAt DEF IInv
  <2>2. mem'[m] = Swept(mem[m], m \in faded, m \in expired, m \in hard, m \in lapsed)
    BY DEF Sweep
  <2>3. /\ (m \in faded) \in BOOLEAN /\ (m \in expired) \in BOOLEAN
        /\ (m \in hard) \in BOOLEAN /\ (m \in lapsed) \in BOOLEAN
    OBVIOUS
  <2> QED BY <2>1, <2>2, <2>3, SweptSound
<1>2. mem' = [m \in Mem |-> mem'[m]]
  BY DEF Sweep
<1> QED BY <1>1, <1>2, RowWiseStep DEF Sweep

\* One more open quarantine item on a row.
LEMMA QuarantineItem ==
  ASSUME NEW m \in Mem, NEW row \in Row, SoundRow(m, row), row.quarantine < MaxQuarantine
  PROVE  LET more == [row EXCEPT !.quarantine = @ + 1]
         IN  more \in Row /\ SoundRow(m, more)
<1>1. row.quarantine \in 0..MaxQuarantine
  BY DEF Row
<1>2. row.quarantine + 1 \in 0..MaxQuarantine
  BY <1>1, BoundAssumption
<1>3. [row EXCEPT !.quarantine = row.quarantine + 1] \in Row
  BY <1>2 DEF Row
<1>4. SoundRow(m, [row EXCEPT !.quarantine = row.quarantine + 1])
  BY DEF Row, SoundRow, Earned
<1> QED BY <1>3, <1>4

LEMMA HygieneInv ==
  ASSUME IInv, NEW blocked, Hygiene(blocked), blocked \subseteq Mem
  PROVE  IInv'
<1>1. ASSUME NEW m \in Mem PROVE mem'[m] \in Row /\ SoundRow(m, mem'[m])
  <2>1. mem[m] \in Row /\ SoundRow(m, mem[m])
    BY SoundAt DEF IInv
  <2>2. CASE m \in blocked
    <3>1. mem[m].quarantine < MaxQuarantine
      BY <2>2 DEF Hygiene
    <3>2. mem'[m] = [mem[m] EXCEPT !.quarantine = @ + 1]
      BY <2>2 DEF Hygiene
    <3> QED BY <2>1, <3>1, <3>2, QuarantineItem
  <2>3. CASE m \notin blocked /\ mem[m].status = "tombstoned"
    <3>1. mem'[m] = [mem[m] EXCEPT !.fact = Blank]
      BY <2>3 DEF Hygiene
    <3> QED BY <2>1, <3>1 DEF Row, SoundRow, Earned
  <2>4. CASE m \notin blocked /\ mem[m].status # "tombstoned"
    BY <2>1, <2>4 DEF Hygiene
  <2> QED BY <2>2, <2>3, <2>4
<1>2. mem' = [m \in Mem |-> mem'[m]]
  BY DEF Hygiene
<1> QED BY <1>1, <1>2, RowWiseStep DEF Hygiene

LEMMA JobInv == IInv /\ JobNext => IInv'
<1> SUFFICES ASSUME IInv, JobNext PROVE IInv'
  OBVIOUS
<1>1. ASSUME NEW blocked \in SUBSET {m \in Mem : IsLive(mem[m])}, Hygiene(blocked)
      PROVE  IInv'
  BY <1>1, HygieneInv
<1> QED BY <1>1, DedupeInv, ReviewContradictionsInv, PromoteStagedInv, SweepInv,
           ReflectNextInv DEF JobNext

-----------------------------------------------------------------------------
(* Incidents.                                                              *)

LEMMA QuarantineInv ==
  ASSUME IInv, NEW seeds, Quarantine(seeds)
  PROVE  IInv'
<1>1. ASSUME NEW m \in Mem PROVE mem'[m] \in Row /\ SoundRow(m, mem'[m])
  <2>1. mem[m] \in Row /\ SoundRow(m, mem[m]) /\ mem[m].quarantine < MaxQuarantine
    BY SoundAt DEF IInv, Quarantine
  <2>2. mem'[m] = mem[m] \/ mem'[m] = [mem[m] EXCEPT !.quarantine = @ + 1]
    BY DEF Quarantine, Quarantined
  <2> QED BY <2>1, <2>2, QuarantineItem
<1>2. mem' = [m \in Mem |-> mem'[m]]
  BY DEF Quarantine, Quarantined
<1> QED BY <1>1, <1>2, RowWiseStep DEF Quarantine

\* One open quarantine item less on a row.
LEMMA ReleaseSound ==
  ASSUME NEW t, Sound(t), NEW m \in Mem, t[m].quarantine > 0
  PROVE  Sound([t EXCEPT ![m].quarantine = @ - 1])
<1> DEFINE row == [t[m] EXCEPT !.quarantine = @ - 1]
<1>1. t \in [Mem -> Row] /\ t[m] \in Row /\ SoundRow(m, t[m])
  BY SoundAt
<1>2. t[m].quarantine \in 0..MaxQuarantine
  BY <1>1 DEF Row
<1>3. t[m].quarantine - 1 \in 0..MaxQuarantine
  BY <1>2, BoundAssumption
<1>4. row \in Row
  BY <1>1, <1>3 DEF Row
<1>5. SoundRow(m, row)
  BY <1>1 DEF Row, SoundRow, Earned
<1>6. [t EXCEPT ![m].quarantine = @ - 1] = [t EXCEPT ![m] = row]
  BY <1>1
<1> HIDE DEF row
<1> QED BY <1>4, <1>5, <1>6, RowUpdate

LEMMA RestoreItemInv ==
  ASSUME IInv, NEW m \in Mem, RestoreItem(m)
  PROVE  IInv'
  BY ReleaseSound, StoreStep DEF RestoreItem, IInv

LEMMA TombstoneItemInv ==
  ASSUME IInv, NEW m \in Mem, TombstoneItem(m)
  PROVE  IInv'
<1>1. Sound(Tombstone(mem, m))
  BY TombstoneSound DEF IInv
<1>2. Tombstone(mem, m)[m].quarantine > 0
  BY SoundAt DEF TombstoneItem, Tombstone, IInv, Row
<1>3. Sound(mem')
  BY <1>1, <1>2, ReleaseSound DEF TombstoneItem
<1> QED BY <1>3, StoreStep DEF TombstoneItem

LEMMA EraseSubjectInv ==
  ASSUME IInv, NEW u, EraseSubject(u)
  PROVE  IInv'
<1> DEFINE closure == DerivedClosure(mem, About(mem, u))
<1>1. closure \in SUBSET Mem
  BY DEF DerivedClosure
<1> HIDE DEF closure
<1>2. PICK n \in 1..MaxMem + 1, winner \in [Regenerated(mem, closure) -> Mem] :
        /\ Fresh(mem, n)
        /\ \A r \in Regenerated(mem, closure) : winner[r] \in Survivors(mem, closure, r)
        /\ mem' = Erased(mem, n, closure, winner)
  BY DEF EraseSubject, closure
<1>3. n \in Nat /\ \A m \in Rows(mem) : m < n
  BY <1>2, BoundAssumption DEF Fresh, Rows, Mem
<1>4. Sound(mem')
  BY <1>1, <1>2, <1>3, ErasedSound DEF IInv
<1> QED BY <1>4, StoreStep DEF EraseSubject

LEMMA IncidentInv == IInv /\ IncidentNext => IInv'
  BY QuarantineInv, EraseSubjectInv, RestoreItemInv, TombstoneItemInv DEF IncidentNext

-----------------------------------------------------------------------------
(* The service.                                                            *)

\* Every step of the service, whoever takes it, preserves the invariant.
LEMMA NextInv == IInv /\ [Next]_vars => IInv'
<1> SUFFICES ASSUME IInv, [Next]_vars PROVE IInv'
  OBVIOUS
<1>1. CASE CallerNext  BY <1>1, CallerInv
<1>2. CASE ReviewerNext  BY <1>2, ReviewerInv
<1>3. CASE MoveNext  BY <1>3, MoveInv
<1>4. CASE AskNext  BY <1>4, AskInv
<1>5. CASE Elapse  BY <1>5, ElapseInv
<1>6. CASE JobNext  BY <1>6, JobInv
<1>7. CASE IncidentNext  BY <1>7, IncidentInv
<1>8. CASE \E w \in drafts : ParkDraft(w)  BY <1>8, ParkDraftInv
<1>9. CASE UNCHANGED vars  BY <1>9 DEF vars, IInv, TypeOK, Sound
<1> QED BY <1>1, <1>2, <1>3, <1>4, <1>5, <1>6, <1>7, <1>8, <1>9 DEF Next

\* The inductive invariant holds in every reachable state of the whole service.
THEOREM Inductive == Spec => []IInv
  BY InitInv, NextInv, PTL DEF Spec

\* Every row, parked call, freeze flag and draft is always well formed.
THEOREM TypeCorrect == Spec => []TypeOK
<1>1. IInv => TypeOK
  BY DEF IInv
<1> QED BY <1>1, Inductive, PTL

\* Derivations, supersessions and contradictions always point one way in time, so
\* no walk over them can run in a circle.
THEOREM LineageRunsOneWay == Spec => []Lineage
<1>1. IInv => Lineage
  BY DEF IInv, Sound, SoundRow, Lineage
<1> QED BY <1>1, Inductive, PTL

\* A memory that came to be deprecated always names its successor.
THEOREM HistoryAlwaysResolves == Spec => []HistoryResolves
<1>1. IInv => HistoryResolves
  BY DEF IInv, Sound, SoundRow, HistoryResolves
<1> QED BY <1>1, Inductive, PTL

\* While a contradiction is held against a memory that entered staged, nothing
\* any part of the service does makes it active.
THEOREM HeldAlwaysWaits == Spec => []HeldWaits
<1>1. IInv => HeldWaits
  BY DEF IInv, Sound, SoundRow, HeldWaits
<1> QED BY <1>1, Inductive, PTL

\* Nothing that entered staged is ever active without having earned it.
THEOREM ActiveIsAlwaysEarned == Spec => []ActiveIsEarned
<1>1. IInv => ActiveIsEarned
  BY DEF IInv, Sound, SoundRow, ActiveIsEarned
<1> QED BY <1>1, Inductive, PTL
=============================================================================
