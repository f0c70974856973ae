--------------------------- MODULE GovernanceProofs ---------------------------
(***************************************************************************)
(* Proofs about the governed write, for any tree of scopes, any relations, *)
(* policies and requests: nothing leaves a confined scope, what an agent   *)
(* stores it may store there, names need sight, no freeze and no refusal   *)
(* is outvoted, narrower layers only tighten, and the tables keep their    *)
(* types.                                                                  *)
(***************************************************************************)
EXTENDS Governance, FiniteSetTheorems, TLAPS

-----------------------------------------------------------------------------
(* The invariant: what rows and open questions look like, and what was     *)
(* true of a question when it was asked.                                   *)

IsRow(r) ==
  r = [scope |-> r.scope, by |-> r.by, for |-> r.for, item |-> r.item, clear |-> r.clear,
       staged |-> r.staged, ttl |-> r.ttl, sensitivity |-> r.sensitivity, from |-> r.from]

IsCaller(p) == p.actor \in Agents => p.kind = "agent"

RowInv(r) == IsRow(r) /\ r.clear \subseteq Users /\ r.from \in Mem \cup {Nowhere}

AskInv(ask) ==
  /\ IsCaller(ask.p) /\ ask.action \in {"promote", "remember"}
  /\ ask.action = "promote" => ask.mem \in Stored /\ Class[ask.source] \notin Confined
  /\ ask.action = "remember" => ask.item.persons \subseteq Users

GInv ==
  /\ DOMAIN mem = Mem /\ mem = [m \in Mem |-> mem[m]]
  /\ DOMAIN asks = Slots /\ asks = [a \in Slots |-> asks[a]]
  /\ \A m \in Stored : RowInv(mem[m])
  /\ \A a \in Open : AskInv(asks[a])

-----------------------------------------------------------------------------
(* What a step may do to the memories: nothing, add one row, or move one.  *)

WithinRights(row) ==
  row.by \in Agents =>
    \/ row.scope = row.by
    \/ /\ \E s \in Ancestors(row.scope) : <<s, "writer_agent", row.by>> \in rel
       /\ row.for = NoUser \/ UserCanSee(row.for, row.scope)

NamesOK(row, exempt) ==
  \A n \in row.clear \ exempt : SubjectScope[n] = row.scope \/ UserCanSee(n, row.scope)

Exempt(row) == IF row.from = Nowhere THEN {row.for, row.by} ELSE {}

Origin_(row) == row.from = Nowhere \/ (row.from \in Stored /\ Class[mem[row.from].scope] \notin Confined)

AddsOne ==
  \E n \in Mem \ Stored : \E row :
    /\ mem' = [mem EXCEPT ![n] = row]
    /\ RowInv(row) /\ Origin_(row)
    /\ WithinRights(row)' /\ NamesOK(row, Exempt(row))'

MovesOne ==
  \E m \in Stored : \E row :
    /\ mem' = [mem EXCEPT ![m] = row]
    /\ RowInv(row) /\ row.from = mem[m].from
    /\ row.item = mem[m].item /\ row.staged = mem[m].staged
    /\ row.sensitivity = mem[m].sensitivity
    /\ Class[mem[m].scope] \notin Confined
    /\ NamesOK(row, {})'

GoodStep == mem' = mem \/ AddsOne \/ MovesOne

-----------------------------------------------------------------------------
(* Verdicts.                                                               *)

\* A denial by either side is not outvoted.
LEMMA DenialStands ==
  ASSUME NEW x
  PROVE  Stricter("deny", x) \notin {"ask", "allow"}
  BY DEF Stricter, Strictness

\* Out of a confined scope nothing is promoted, whatever the layers are.
LEMMA ConfinedDenied ==
  ASSUME NEW p, NEW flow, NEW row, NEW target,
         Class[row.scope] \in Confined
  PROVE  PromotionVerdict(p, flow, row, target) \notin {"ask", "allow"}
  <1> DEFINE surface == IF flow.surface # NoSurface THEN flow.surface ELSE Surface[row.scope]
             layers  == Layers(p.actor, surface, row.item.subjects)
             c       == Candidate(row.item, flow, Surface[target], Class[target])
             gate    == PromotionGate(layers, Crossing(row.scope, target), Class[row.scope])
             d       == Unstaged(Decision(layers, c))
  <1>1. gate = "deny"
    BY DEF PromotionGate, Confined
  <1>2. Stricter(gate, d) \notin {"ask", "allow"}
    <2> HIDE DEF d
    <2>1. Stricter("deny", d) \notin {"ask", "allow"}
      BY DenialStands
    <2> QED BY <1>1, <2>1
  <1>3. PromotionVerdict(p, flow, row, target) \in {"deny", Stricter(gate, d)}
    BY DEF PromotionVerdict
  <1> QED BY <1>2, <1>3

\* What is not denied may be written at the target.
LEMMA PromotedWritable ==
  ASSUME NEW p, NEW flow, NEW row, NEW target,
         PromotionVerdict(p, flow, row, target) \in {"ask", "allow"}
  PROVE  Writable(p, target)
  BY DEF PromotionVerdict

-----------------------------------------------------------------------------
(* Enacting.                                                               *)

\* A write adds a row that its writer may add, with names as pii.run leaves them.
LEMMA WriteGood ==
  ASSUME GInv, NEW p, NEW flow, NEW item, NEW target, NEW staged, NEW ttl, NEW floor,
         IsCaller(p), item.persons \subseteq Users, Writable(p, target)',
         EnactWrite(p, flow, item, target, staged, ttl, floor)
  PROVE  GoodStep
  <1>1. CASE mem' = mem
    BY <1>1 DEF GoodStep
  <1>2. CASE mem' # mem
    <2>1. PICK kept, sensitivity, clear :
            /\ clear \subseteq item.persons
            /\ \A n \in clear : n = EffectiveUser(p) \/ SubjectScope[n] = target \/ UserCanSee(n, target)'
            /\ Insert([scope |-> target, by |-> p.actor, for |-> p.user, item |-> item,
                       clear |-> clear, staged |-> staged, ttl |-> kept,
                       sensitivity |-> sensitivity, from |-> Nowhere])
      BY <1>2 DEF EnactWrite, Clear
    <2> DEFINE row == [scope |-> target, by |-> p.actor, for |-> p.user, item |-> item,
                       clear |-> clear, staged |-> staged, ttl |-> kept,
                       sensitivity |-> sensitivity, from |-> Nowhere]
    <2>2. PICK n \in Mem \ Stored : mem' = [mem EXCEPT ![n] = row]
      BY <2>1 DEF Insert
    <2>3. RowInv(row) /\ Origin_(row)
      BY <2>1 DEF RowInv, IsRow, Origin_
    <2>4. WithinRights(row)'
      BY DEF WithinRights, Writable, OwnNotebook, Enrolled, Holds, Sees, EffectiveUser, IsCaller
    <2>5. NamesOK(row, Exempt(row))'
      BY <2>1 DEF NamesOK, Exempt, EffectiveUser
    <2> HIDE DEF row
    <2> QED BY <2>2, <2>3, <2>4, <2>5 DEF GoodStep, AddsOne
  <1> QED BY <1>1, <1>2

\* A promotion moves a memory that nobody's name stands in who may not look, or adds a
\* copy without those names.
LEMMA PromotionGood ==
  ASSUME GInv, NEW p, NEW m \in Stored, NEW target,
         IsCaller(p), Class[mem[m].scope] \notin Confined, Writable(p, target),
         UNCHANGED rulesVars, EnactPromotion(p, m, target)
  PROVE  GoodStep
  <1>0. PICK old, clear :
          /\ old = mem[m] /\ clear = Clear(mem[m].clear, NoUser, target)
          /\ IsRow(old) /\ old.from \in Mem \cup {Nowhere} /\ m \in Mem
          /\ clear \subseteq Users
          /\ \A n \in clear : SubjectScope[n] = target \/ UserCanSee(n, target)
    <2>1. RowInv(mem[m]) /\ m \in Mem
      BY DEF GInv, Stored
    <2>2. Clear(mem[m].clear, NoUser, target) \subseteq mem[m].clear
      BY DEF Clear
    <2>3. \A n \in Clear(mem[m].clear, NoUser, target) :
            n # NoUser => SubjectScope[n] = target \/ UserCanSee(n, target)
      BY DEF Clear
    <2> QED BY <2>1, <2>2, <2>3, TreeAssumption DEF RowInv
  <1>1. \A n \in clear : SubjectScope[n] = target \/ UserCanSee(n, target)'
    BY <1>0 DEF UserCanSee, Insiders, rulesVars, accessVars
  <1>2. CASE clear = old.clear
    <2>1. PICK row : row = [old EXCEPT !.scope = target] /\ mem' = [mem EXCEPT ![m] = row]
      BY <1>0, <1>2 DEF EnactPromotion
    <2>2. /\ IsRow(row) /\ row.from = old.from /\ row.scope = target /\ row.clear = clear
          /\ row.item = old.item /\ row.staged = old.staged
          /\ row.sensitivity = old.sensitivity
      BY <1>0, <1>2, <2>1 DEF IsRow
    <2>3. NamesOK(row, {})'
      BY <1>1, <2>2 DEF NamesOK
    <2> QED BY <1>0, <2>1, <2>2, <2>3 DEF GoodStep, MovesOne, RowInv
  <1>3. CASE clear # old.clear
    <2>1. PICK n, row :
            /\ n \in Mem \ Stored
            /\ row = [old EXCEPT !.scope = target, !.clear = clear, !.by = p.actor,
                                 !.for = p.user, !.from = m]
            /\ mem' = [mem EXCEPT ![n] = row]
      BY <1>0, <1>3 DEF EnactPromotion, Insert
    <2>2. /\ IsRow(row) /\ row.from = m /\ row.scope = target /\ row.clear = clear
          /\ row.by = p.actor /\ row.for = p.user
      BY <1>0, <2>1 DEF IsRow
    <2>3. RowInv(row) /\ Origin_(row)
      BY <1>0, <2>2 DEF RowInv, Origin_
    <2>4. Writable(p, target)'
      BY DEF Writable, Enrolled, Holds, Sees, UserCanSee, Insiders, OwnNotebook,
             rulesVars, accessVars
    <2>5. WithinRights(row)'
      BY <2>2, <2>4 DEF WithinRights, Writable, OwnNotebook, Enrolled, Holds, Sees,
                        EffectiveUser, IsCaller
    <2>6. NamesOK(row, Exempt(row))'
      BY <1>1, <2>2 DEF NamesOK
    <2> QED BY <2>1, <2>3, <2>5, <2>6 DEF GoodStep, AddsOne
  <1> QED BY <1>2, <1>3

-----------------------------------------------------------------------------
(* The actions: each takes a good step, and keeps what questions promise.  *)

AsksKept == DOMAIN asks' = Slots /\ asks' = [a \in Slots |-> asks'[a]]
            /\ \A a \in Slots : asks'[a] = NoAsk \/ asks'[a] = asks[a] \/ AskInv(asks'[a])

\* Parking a question adds a good one and leaves the others.
LEMMA ParkKeeps ==
  ASSUME GInv, NEW ask, AskInv(ask), Park(ask)
  PROVE  AsksKept
  BY DEF GInv, Park, AsksKept

\* So does an answer.
LEMMA AnswerKeeps ==
  ASSUME GInv, NEW a \in Open, asks' = [asks EXCEPT ![a] = NoAsk]
  PROVE  AsksKept
  BY DEF GInv, AsksKept, Open

\* A write stores or asks where its agent may write at that moment.
LEMMA RememberGood ==
  ASSUME GInv, NEW call \in Calls, Remember(call.p, call.flow, call.item)
  PROVE  GoodStep /\ AsksKept
  <1>1. IsCaller(call.p) /\ call.item.persons \subseteq Users
    BY CallerAssumption DEF IsCaller, IsPrincipal, IsItem
  <1>2. PICK target, verdict, ttl, floor, confirmer :
          \/ UNCHANGED <<mem, asks>>
          \/ /\ Park([action |-> "remember", p |-> call.p, flow |-> call.flow, item |-> call.item,
                      source |-> call.flow.container, target |-> target,
                      confirmer |-> confirmer, ttl |-> ttl, floor |-> floor])
             /\ UNCHANGED mem
          \/ /\ Writable(call.p, target)'
             /\ EnactWrite(call.p, call.flow, call.item, target, verdict, ttl, floor)
             /\ UNCHANGED asks
    BY DEF Remember
  <1>3. CASE UNCHANGED <<mem, asks>>
    BY <1>3 DEF GoodStep, AsksKept, GInv
  <1>4. ASSUME NEW ask, ask = [action |-> "remember", p |-> call.p, flow |-> call.flow,
                               item |-> call.item, source |-> call.flow.container,
                               target |-> target, confirmer |-> confirmer, ttl |-> ttl,
                               floor |-> floor],
               Park(ask), UNCHANGED mem
        PROVE  GoodStep /\ AsksKept
    <2>1. AskInv(ask)
      BY <1>1, <1>4 DEF AskInv
    <2> QED BY <1>4, <2>1, ParkKeeps DEF GoodStep
  <1>5. CASE /\ Writable(call.p, target)'
             /\ EnactWrite(call.p, call.flow, call.item, target, verdict, ttl, floor)
             /\ UNCHANGED asks
    <2>1. GoodStep
      BY <1>1, <1>5, WriteGood
    <2> QED BY <1>5, <2>1 DEF AsksKept, GInv
  <1> QED BY <1>2, <1>3, <1>4, <1>5

\* A promotion moves, copies or asks out of scopes that are not confined.
LEMMA PromoteGood ==
  ASSUME GInv, NEW request \in Promotions, NEW m \in Mem,
         Promote(request.p, request.flow, m, request.target)
  PROVE  GoodStep /\ AsksKept
  <1>1. IsCaller(request.p) /\ m \in Stored /\ UNCHANGED rulesVars
    BY CallerAssumption DEF IsCaller, IsPrincipal, Promote
  <1>2. PromotionVerdict(request.p, request.flow, mem[m], request.target) \in {"ask", "allow"}
    BY DEF Promote
  <1>3. Class[mem[m].scope] \notin Confined /\ Writable(request.p, request.target)
    BY <1>2, ConfinedDenied, PromotedWritable
  <1>4. CASE EnactPromotion(request.p, m, request.target) /\ UNCHANGED asks
    <2>1. GoodStep
      BY <1>1, <1>3, <1>4, PromotionGood
    <2> QED BY <1>4, <2>1 DEF AsksKept, GInv
  <1>5. ASSUME NEW ask, UNCHANGED mem, Park(ask),
               ask = [action |-> "promote", p |-> request.p, mem |-> m,
                      source |-> mem[m].scope, target |-> request.target,
                      confirmer |-> Confirmer(Crossing(mem[m].scope, request.target))]
        PROVE  GoodStep /\ AsksKept
    <2>1. AskInv(ask)
      BY <1>1, <1>3, <1>5 DEF AskInv
    <2> QED BY <1>5, <2>1, ParkKeeps DEF GoodStep
  <1> QED BY <1>4, <1>5 DEF Promote

\* An answer stores where the agent that asked may still write.
LEMMA ApproveWriteGood ==
  ASSUME GInv, NEW u, NEW a \in Open, ApproveWrite(u, a)
  PROVE  GoodStep /\ AsksKept
  <1>1. PICK ask, flow :
          /\ ask = asks[a] /\ ask.action = "remember"
          /\ Writable(ask.p, ask.target) /\ UNCHANGED rulesVars
          /\ asks' = [asks EXCEPT ![a] = NoAsk]
          /\ EnactWrite(ask.p, flow, ask.item, ask.target, FALSE, ask.ttl, ask.floor)
    BY DEF ApproveWrite
  <1>2. IsCaller(ask.p) /\ ask.item.persons \subseteq Users
    BY <1>1 DEF GInv, AskInv
  <1>3. Writable(ask.p, ask.target)'
    BY <1>1 DEF Writable, Enrolled, Holds, Sees, UserCanSee, Insiders, OwnNotebook,
                rulesVars, accessVars
  <1>4. GoodStep
    BY <1>1, <1>2, <1>3, WriteGood
  <1> QED BY <1>1, <1>4, AnswerKeeps

\* An answer promotes only what is still in the scope it was asked about.
LEMMA ApprovePromotionGood ==
  ASSUME GInv, NEW u, NEW a \in Open, ApprovePromotion(u, a)
  PROVE  GoodStep /\ AsksKept
  <1>1. /\ asks[a].action = "promote" /\ Writable(asks[a].p, asks[a].target)
        /\ mem[asks[a].mem].scope = asks[a].source
        /\ UNCHANGED rulesVars /\ asks' = [asks EXCEPT ![a] = NoAsk]
        /\ EnactPromotion(asks[a].p, asks[a].mem, asks[a].target)
    BY DEF ApprovePromotion
  <1>2. IsCaller(asks[a].p) /\ asks[a].mem \in Stored /\ Class[asks[a].source] \notin Confined
    BY <1>1 DEF GInv, AskInv
  <1>3. GoodStep
    BY <1>1, <1>2, PromotionGood
  <1> QED BY <1>1, <1>3, AnswerKeeps

\* So every action takes a good step, and administration none.
LEMMA NextGood ==
  ASSUME GInv, [Next]_govVars
  PROVE  GoodStep /\ AsksKept
  <1>1. CASE Serve
    <2>1. ASSUME NEW u, NEW a \in Open, Decline(u, a)
          PROVE  GoodStep /\ AsksKept
      BY <2>1, AnswerKeeps DEF Decline, GoodStep
    <2> QED BY <1>1, <2>1, RememberGood, PromoteGood, ApproveWriteGood, ApprovePromotionGood
            DEF Serve
  <1>2. CASE Administer
    BY <1>2 DEF Administer, GoodStep, AsksKept, GInv
  <1>3. CASE UNCHANGED govVars
    BY <1>3 DEF govVars, GoodStep, AsksKept, GInv
  <1> QED BY <1>1, <1>2, <1>3 DEF Next

\* At first nothing is stored and nothing is asked.
LEMMA InitGood == Init => GInv
  BY GovernanceBounds DEF Init, GInv, Stored, Open

\* No row looks like none.
LEMMA RowsAreRows == \A r : RowInv(r) => r # NoRow
  <1>1. \A r : IsRow(r) => "by" \in DOMAIN r
    BY DEF IsRow
  <1>2. "by" \notin DOMAIN NoRow
    BY DEF NoRow
  <1> QED BY <1>1, <1>2 DEF RowInv

\* A good step takes no row away.
LEMMA StoredStay ==
  ASSUME GInv, GoodStep
  PROVE  Stored \subseteq Stored'
  <1>1. \A m \in Mem : mem'[m] = mem[m] \/ RowInv(mem'[m])
    BY DEF GInv, GoodStep, AddsOne, MovesOne, Stored
  <1> QED BY <1>1, RowsAreRows DEF Stored

\* A good step keeps the rows in shape.
LEMMA GoodStepKeeps ==
  ASSUME GInv, GoodStep, AsksKept
  PROVE  GInv'
  <1>1. /\ DOMAIN mem' = Mem /\ mem' = [m \in Mem |-> mem'[m]]
        /\ \A m \in Mem : mem'[m] = mem[m] \/ RowInv(mem'[m])
    BY DEF GInv, GoodStep, AddsOne, MovesOne, Stored
  <1>2. \A m \in Stored' : RowInv(mem'[m])
    BY <1>1 DEF GInv, Stored
  <1>3. \A a \in Open' : AskInv(asks'[a])
    BY DEF AsksKept, GInv, Open
  <1>4. \A ask : AskInv(ask) => AskInv(ask)'
    BY StoredStay DEF AskInv
  <1> QED BY <1>1, <1>2, <1>3, <1>4 DEF GInv, AsksKept

\* The invariant of the governed write.
THEOREM GovernanceInductive == Spec => []GInv
  <1>1. GInv /\ [Next]_govVars => GInv'
    BY NextGood, GoodStepKeeps
  <1> QED BY <1>1, InitGood, PTL DEF Spec

-----------------------------------------------------------------------------
(* The theorems.                                                           *)

\* Nothing leaves a private or an external scope, whatever the tree of scopes, the
\* policies and the answers are (promotion_gate, confirm_pending).
THEOREM PrivateAlwaysStays == Spec => PrivateStays
  <1>1. ASSUME GInv, [Next]_govVars
        PROVE  [\A m \in Stored : Class[mem[m].scope] \in Confined =>
                  /\ mem'[m] = mem[m]
                  /\ \A n \in Mem \ Stored : n \in Stored' => mem'[n].from # m]_govVars
    <2> SUFFICES ASSUME NEW m \in Stored, Class[mem[m].scope] \in Confined
                 PROVE  /\ mem'[m] = mem[m]
                        /\ \A n \in Mem \ Stored : n \in Stored' => mem'[n].from # m
      OBVIOUS
    <2>1. m \in Mem /\ m # Nowhere
      BY GovernanceBounds DEF Stored, Mem, Nowhere
    <2>2. CASE mem' = mem
      BY <2>2 DEF Stored
    <2>3. CASE AddsOne
      <3>1. PICK n, row :
              n \in Mem \ Stored /\ mem' = [mem EXCEPT ![n] = row] /\ Origin_(row)
        BY <2>3 DEF AddsOne
      <3>2. row.from # m
        BY <2>1, <3>1 DEF Origin_
      <3> QED BY <1>1, <3>1, <3>2, <2>1 DEF GInv, Stored
    <2>4. CASE MovesOne
      BY <1>1, <2>1, <2>4 DEF MovesOne, GInv, Stored
    <2> QED BY <1>1, <2>2, <2>3, <2>4, NextGood DEF GoodStep
  <1> QED BY <1>1, GovernanceInductive, PTL DEF Spec, PrivateStays

\* What is stored for an agent is stored where it is enrolled at that moment and its
\* user may look, whenever it was asked for (remember, confirm_pending).
THEOREM EnrolledAlwaysOnly == Spec => EnrolledOnly
  <1>1. ASSUME GInv, [Next]_govVars
        PROVE  [\A m \in Mem \ Stored : m \in Stored' => MayHavePut(m)']_govVars
    <2> SUFFICES ASSUME NEW m \in Mem \ Stored, m \in Stored'
                 PROVE  MayHavePut(m)'
      OBVIOUS
    <2>1. PICK n, row :
            /\ n \in Mem \ Stored
            /\ mem' = [mem EXCEPT ![n] = row] /\ WithinRights(row)'
      BY <1>1, NextGood DEF GoodStep, AddsOne, MovesOne, GInv, Stored
    <2>2. mem'[m] = row
      BY <1>1, <2>1 DEF GInv, Stored
    <2> QED BY <2>1, <2>2 DEF MayHavePut, WithinRights
  <1> QED BY <1>1, GovernanceInductive, PTL DEF Spec, EnrolledOnly

\* No name comes to stand in clear where its bearer may not look (pii.run,
\* _enact_promotion).
THEOREM NamesAlwaysNeedSight == Spec => NamesNeedSight
  <1>1. ASSUME GInv, [Next]_govVars
        PROVE  [\A m \in Mem : mem'[m] # mem[m] =>
                  IF m \in Stored THEN NamesInSight(m, {})' ELSE NamesInSight(m, Speaker(m))']_govVars
    <2> SUFFICES ASSUME NEW m \in Mem, mem'[m] # mem[m]
                 PROVE  IF m \in Stored THEN NamesInSight(m, {})'
                        ELSE NamesInSight(m, Speaker(m))'
      OBVIOUS
    <2>1. CASE AddsOne
      <3>1. PICK n, row :
              n \in Mem \ Stored /\ mem' = [mem EXCEPT ![n] = row] /\ NamesOK(row, Exempt(row))'
        BY <2>1 DEF AddsOne
      <3>2. m \notin Stored /\ mem'[m] = row
        BY <1>1, <3>1 DEF GInv
      <3> QED BY <3>1, <3>2 DEF NamesInSight, NamesOK, Speaker, Exempt
    <2>2. CASE MovesOne
      <3>1. PICK n, row :
              n \in Stored /\ mem' = [mem EXCEPT ![n] = row] /\ NamesOK(row, {})'
        BY <2>2 DEF MovesOne
      <3>2. m \in Stored /\ mem'[m] = row
        BY <1>1, <3>1 DEF GInv
      <3> QED BY <3>1, <3>2 DEF NamesInSight, NamesOK
    <2> QED BY <1>1, <2>1, <2>2, NextGood DEF GoodStep
  <1> QED BY <1>1, GovernanceInductive, PTL DEF Spec, NamesNeedSight

-----------------------------------------------------------------------------
(* What the layers decide.                                                 *)

\* A set of naturals with a member has a least one.
LEMMA LeastOf ==
  ASSUME NEW T \in SUBSET Nat, T # {}
  PROVE  Min(T) \in T /\ \A y \in T : Min(T) <= y
<1>1. PICK x \in T : \A y \in T : ~(<<y, x>> \in OpToRel(<, Nat))
  BY NatLessThanWellFounded, WFMin
<1>2. \A y \in T : ~(y < x)
  BY <1>1 DEF OpToRel
<1>3. \A y \in T : x <= y
  BY <1>2
<1> QED BY <1>3 DEF Min

\* The sequence of a finite set has its elements, and no others.
LEMMA SeqOfSet ==
  ASSUME NEW S, IsFiniteSet(S)
  PROVE  SetToSeq(S) \in Seq(S) /\ Range(SetToSeq(S)) = S
<1> DEFINE n == Cardinality(S)
           f == SetToSeq(S)
<1>1. n \in Nat /\ \E g : g \in Bijection(1..n, S)
  BY FS_CardinalityType DEF ExistsBijection
<1>2. \E g \in [1..n -> S] : IsInjective(g)
  BY <1>1 DEF Bijection, Injection
<1>3. f \in [1..n -> S] /\ IsInjective(f)
  BY <1>2 DEF SetToSeq
<1>4. f \in Injection(1..n, S)
  BY <1>3 DEF Injection
<1>5. Cardinality(1..n) = n
  BY <1>1, FS_Interval
<1>6. f \in Surjection(1..n, S)
  BY <1>4, <1>5, FS_Injection
<1> HIDE DEF f, n
<1>7. Range(f) = S
  BY <1>3, <1>6 DEF Surjection, Range
<1>8. f \in Seq(S)
  BY <1>1, <1>3
<1> QED BY <1>7, <1>8 DEF f

\* What is in force for a slot is among the documents and the layers that ship with
\* the service.
Sources == book \cup {BuiltinOrgLayer, BuiltinIdeLayer}

LEMMA SlotSource ==
  ASSUME IsFiniteSet(book), NEW name, NEW applies, NEW fallback \in Seq(Sources)
  PROVE  Slot(name, applies, fallback) \in Seq(Sources)
<1>1. IsFiniteSet(InForce(name, applies)) /\ InForce(name, applies) \subseteq Sources
  BY FS_Subset DEF InForce, Sources
<1>2. SetToSeq(InForce(name, applies)) \in Seq(Sources)
  BY <1>1, SeqOfSet
<1> QED BY <1>2 DEF Slot

\* The stack of an evaluation holds the preferences of everyone it is about.
LEMMA LayersSource ==
  ASSUME IsFiniteSet(book), NEW agent, NEW surface, NEW subjects
  PROVE  /\ Layers(agent, surface, subjects) \in Seq(Sources)
         /\ \A u \in subjects \cap Users :
              InForce("user_pref", u) \subseteq Range(Layers(agent, surface, subjects))
<1> DEFINE prefs == UNION {InForce("user_pref", u) : u \in subjects \cap Users}
           org == Slot("org", Org, <<BuiltinOrgLayer>>)
           local == IF surface = NoSurface THEN <<>>
                    ELSE Slot("surface", surface,
                              IF surface = "ide" THEN <<BuiltinIdeLayer>> ELSE <<>>)
           own == Slot("agent", agent, <<>>)
           last == SetToSeq(prefs)
           first == org \o local \o own
<1>1. /\ <<BuiltinOrgLayer>> \in Seq(Sources) /\ <<BuiltinIdeLayer>> \in Seq(Sources)
      /\ <<>> \in Seq(Sources)
  <2>1. BuiltinOrgLayer \in Sources /\ BuiltinIdeLayer \in Sources
    BY DEF Sources
  <2> QED BY <2>1
<1>2. org \in Seq(Sources) /\ local \in Seq(Sources) /\ own \in Seq(Sources)
  BY <1>1, SlotSource
<1>3. IsFiniteSet(prefs) /\ prefs \subseteq Sources
  <2>1. prefs \in SUBSET book
    BY DEF InForce
  <2> QED BY <2>1, FS_Subset DEF Sources
<1>4. last \in Seq(prefs) /\ Range(last) = prefs
  <2> HIDE DEF prefs
  <2> QED BY <1>3, SeqOfSet
<1>5. last \in Seq(Sources)
  <2> HIDE DEF prefs, last
  <2> QED BY <1>3, <1>4
<1>6. Layers(agent, surface, subjects) = first \o last
  BY DEF Layers
<1>7. first \in Seq(Sources)
  <2> HIDE DEF org, local, own
  <2> QED BY <1>2
<1>8. Range(last) \subseteq Range(first \o last)
  <2> HIDE DEF first, last
  <2> SUFFICES ASSUME NEW i \in DOMAIN last PROVE last[i] \in Range(first \o last)
    BY DEF Range
  <2>1. /\ i \in 1..Len(last) /\ Len(first) \in Nat /\ Len(last) \in Nat
        /\ (first \o last)[Len(first) + i] = last[i]
        /\ Len(first) + i \in DOMAIN (first \o last)
    BY <1>5, <1>7
  <2> QED BY <2>1 DEF Range
<1>9. first \o last \in Seq(Sources)
  <2> HIDE DEF first, last
  <2> QED BY <1>5, <1>7
<1>10. \A u \in subjects \cap Users : InForce("user_pref", u) \subseteq prefs
  OBVIOUS
<1> HIDE DEF first, last, prefs
<1> QED BY <1>4, <1>6, <1>8, <1>9, <1>10

\* The layers that ship with the service are well formed.
LEMMA BuiltinsWellFormed == WellFormed(BuiltinOrgLayer) /\ WellFormed(BuiltinIdeLayer)
<1>1. Sensible(AnyStrategy)
  BY ForeverAssumption DEF Sensible, AnyStrategy, Decisions, Routes, Ranks
<1>2. \A o : \A d \in Decisions : Sensible(Origin(o, d))
  BY ForeverAssumption DEF Sensible, Origin, AnyStrategy, Routes, Ranks
<1>3. Sensible([AnyStrategy EXCEPT !.decision = "deny", !.categories = {"credentials", "secrets"}])
  BY ForeverAssumption DEF Sensible, AnyStrategy, Decisions, Routes, Ranks
<1>4. Sensible([Origin("consolidated", "ask") EXCEPT !.kinds = {"procedural"}])
  BY ForeverAssumption DEF Sensible, Origin, AnyStrategy, Decisions, Routes, Ranks
<1>5. /\ Sensible([AnyStrategy EXCEPT !.decision = "stage", !.categories = {"codebase_convention"},
                                      !.route = "module"])
      /\ Sensible([AnyStrategy EXCEPT !.decision = "stage", !.categories = {"task_tactic"},
                                      !.route = "agent"])
  BY ForeverAssumption DEF Sensible, AnyStrategy, Decisions, Routes, Ranks
<1>6. /\ BuiltinOrgLayer.procedural = "none" /\ BuiltinIdeLayer.procedural = "none"
      /\ BuiltinOrgLayer.promotion = [x \in Crossings |-> "none"]
      /\ BuiltinIdeLayer.promotion = [x \in Crossings |-> "none"]
      /\ BuiltinOrgLayer.retention = {} /\ BuiltinIdeLayer.retention = {}
  BY DEF BuiltinOrgLayer, BuiltinIdeLayer, EmptyLayer
<1>7. /\ BuiltinOrgLayer.strategies \in Seq(Range(BuiltinOrgLayer.strategies))
      /\ \A s \in Range(BuiltinOrgLayer.strategies) : Sensible(s)
  <2> DEFINE first == [AnyStrategy EXCEPT !.decision = "deny",
                                          !.categories = {"credentials", "secrets"}]
             fifth == [Origin("consolidated", "ask") EXCEPT !.kinds = {"procedural"}]
             all == <<first, Origin("explicit_user_ask", "allow"),
                      Origin("llm_inferred", "stage"), Origin("agent_observed", "stage"),
                      fifth, Origin("consolidated", "allow"), Origin("imported", "stage")>>
  <2>1. BuiltinOrgLayer.strategies = all
    BY DEF BuiltinOrgLayer, EmptyLayer
  <2>2. DOMAIN all = 1..7 /\ \A i \in 1..7 : Sensible(all[i])
    <3>1. /\ Sensible(Origin("explicit_user_ask", "allow"))
          /\ Sensible(Origin("llm_inferred", "stage"))
          /\ Sensible(Origin("agent_observed", "stage"))
          /\ Sensible(Origin("consolidated", "allow"))
          /\ Sensible(Origin("imported", "stage"))
      BY <1>2 DEF Decisions
    <3>2. Sensible(first) /\ Sensible(fifth)
      BY <1>3, <1>4
    <3> HIDE DEF first, fifth
    <3> QED BY <3>1, <3>2
  <2>3. all \in Seq(Range(all))
    <3> HIDE DEF first, fifth
    <3> QED BY DEF Range
  <2> HIDE DEF all
  <2> QED BY <2>1, <2>2, <2>3 DEF Range
<1>8. /\ BuiltinIdeLayer.strategies \in Seq(Range(BuiltinIdeLayer.strategies))
      /\ \A s \in Range(BuiltinIdeLayer.strategies) : Sensible(s)
  <2> DEFINE one == [AnyStrategy EXCEPT !.decision = "stage",
                                        !.categories = {"codebase_convention"},
                                        !.route = "module"]
             two == [AnyStrategy EXCEPT !.decision = "stage", !.categories = {"task_tactic"},
                                        !.route = "agent"]
             all == <<one, two>>
  <2>1. BuiltinIdeLayer.strategies = all
    BY DEF BuiltinIdeLayer, EmptyLayer
  <2>2. Sensible(one) /\ Sensible(two)
    BY <1>5
  <2> HIDE DEF one, two
  <2>3. DOMAIN all = 1..2 /\ all \in Seq(Range(all)) /\ \A i \in 1..2 : Sensible(all[i])
    BY <2>2 DEF Range
  <2> HIDE DEF all
  <2> QED BY <2>1, <2>3 DEF Range
<1> QED BY <1>6, <1>7, <1>8 DEF WellFormed

\* Every document in the book is one that may be stored, and there are finitely many.
BInv == IsFiniteSet(book) /\ book \subseteq Documents

\* Only a policy that is put changes the book, and it adds one document.
LEMMA BookKept ==
  ASSUME BInv, [Next]_govVars
  PROVE  BInv'
<1>1. ASSUME NEW p, NEW d \in Documents, PutPolicy(p, d)
      PROVE  BInv'
  <2>1. IsFiniteSet(book \ InForce(d.name, d.applies))
    BY FS_Subset DEF BInv
  <2>2. IsFiniteSet((book \ InForce(d.name, d.applies)) \cup {d})
    BY <2>1, FS_AddElement
  <2> QED BY <1>1, <2>2 DEF PutPolicy, BInv
<1>2. CASE UNCHANGED book
  BY <1>2 DEF BInv
<1>3. CASE Administer
  BY <1>1, <1>2, <1>3 DEF Administer, SetFreeze
<1>4. CASE Serve
  <2>1. ASSUME NEW p, NEW flow, NEW item, Remember(p, flow, item)
        PROVE  UNCHANGED book
    BY <2>1 DEF Remember
  <2>2. ASSUME NEW p, NEW flow, NEW m, NEW target, Promote(p, flow, m, target)
        PROVE  UNCHANGED book
    BY <2>2 DEF Promote, rulesVars
  <2>3. ASSUME NEW u, NEW a, ApproveWrite(u, a) \/ ApprovePromotion(u, a) \/ Decline(u, a)
        PROVE  UNCHANGED book
    BY <2>3 DEF ApproveWrite, ApprovePromotion, Decline, rulesVars
  <2> QED BY <1>2, <1>4, <2>1, <2>2, <2>3 DEF Serve
<1>5. CASE UNCHANGED govVars
  BY <1>2, <1>5 DEF govVars, rulesVars
<1> QED BY <1>3, <1>4, <1>5 DEF Next

LEMMA BookAlways == Spec => []BInv
<1>1. Init => BInv
  BY FS_EmptySet DEF Init, BInv
<1> QED BY <1>1, BookKept, PTL DEF Spec

\* So every layer of every stack is well formed.
LEMMA StackWellFormed ==
  ASSUME BInv, NEW agent, NEW surface, NEW subjects
  PROVE  \A l \in Range(Layers(agent, surface, subjects)) : WellFormed(l)
<1>1. Range(Layers(agent, surface, subjects)) \subseteq Sources
  BY LayersSource DEF BInv, Range
<1> QED BY <1>1, BuiltinsWellFormed, DocumentAssumption DEF Sources, BInv

-----------------------------------------------------------------------------
(* Decisions.                                                              *)

\* The strictest of some decisions is one of them, and a denial among them is it.
LEMMA StrictestIn ==
  ASSUME NEW D \in SUBSET Decisions, D # {}
  PROVE  /\ Strictest(D) \in D /\ ("deny" \in D => Strictest(D) = "deny")
         /\ \A e \in D : Strictness[e] <= Strictness[Strictest(D)]
<1>0. /\ Strictness["deny"] = 3 /\ Strictness["ask"] = 2
      /\ Strictness["stage"] = 1 /\ Strictness["allow"] = 0
  BY DEF Strictness
<1>1. \E d \in D : \A e \in D : Strictness[e] <= Strictness[d]
  <2>1. CASE "deny" \in D
    BY <1>0, <2>1 DEF Decisions
  <2>2. CASE "deny" \notin D /\ "ask" \in D
    BY <1>0, <2>2 DEF Decisions
  <2>3. CASE "deny" \notin D /\ "ask" \notin D /\ "stage" \in D
    BY <1>0, <2>3 DEF Decisions
  <2>4. CASE "deny" \notin D /\ "ask" \notin D /\ "stage" \notin D
    <3>1. "allow" \in D /\ \A e \in D : e = "allow"
      BY <2>4 DEF Decisions
    <3> QED BY <1>0, <3>1
  <2> QED BY <2>1, <2>2, <2>3, <2>4
<1>2. Strictest(D) \in D /\ \A e \in D : Strictness[e] <= Strictness[Strictest(D)]
  BY <1>1 DEF Strictest
<1>3. "deny" \in D => Strictness["deny"] <= Strictness[Strictest(D)]
  BY <1>2
<1>4. /\ ~(3 <= Strictness["ask"]) /\ ~(3 <= Strictness["stage"])
      /\ ~(3 <= Strictness["allow"])
  BY <1>0
<1>5. Strictest(D) \in Decisions
  BY <1>2
<1> HIDE DEF Strictest
<1> QED BY <1>0, <1>2, <1>3, <1>4, <1>5 DEF Decisions

\* A well-formed layer that speaks decides by one of its strategies, the first that
\* matches.
LEMMA DecidingTyped ==
  ASSUME NEW l, WellFormed(l), NEW c, Matching(l, c) # {}
  PROVE  /\ Deciding(l, c) \in Range(l.strategies)
         /\ LayerDecision(l, c) \in Decisions
         /\ \A i \in Matching(l, c) : Min(Matching(l, c)) <= i
<1>1. Matching(l, c) \in SUBSET Nat /\ Matching(l, c) \subseteq DOMAIN l.strategies
  BY DEF WellFormed, Matching
<1>2. /\ Min(Matching(l, c)) \in DOMAIN l.strategies
      /\ \A i \in Matching(l, c) : Min(Matching(l, c)) <= i
  BY <1>1, LeastOf
<1>3. Deciding(l, c) \in Range(l.strategies)
  BY <1>2 DEF Deciding, Range
<1>4. Deciding(l, c).decision \in Decisions
  BY <1>3 DEF WellFormed, Sensible
<1>5. l.procedural # "none" => Stricter(Deciding(l, c).decision, l.procedural) \in Decisions
  BY <1>4 DEF WellFormed, Stricter, Decisions
<1> QED BY <1>2, <1>3, <1>4, <1>5 DEF LayerDecision

\* What the layers decide is a decision.
LEMMA DecisionTyped ==
  ASSUME NEW layers, \A l \in Range(layers) : WellFormed(l), NEW c
  PROVE  Decision(layers, c) \in Decisions
<1> DEFINE heard == {LayerDecision(l, c) : l \in Speaking(layers, c)}
<1>1. heard \in SUBSET Decisions
  BY DecidingTyped DEF Speaking
<1>2. Decision(layers, c) = IF heard = {} THEN "deny" ELSE Strictest(heard)
  BY DEF Decision
<1> HIDE DEF heard
<1> QED BY <1>1, <1>2, StrictestIn DEF Decisions

\* A layer that opens with a refusal of everything.
Refuses(l) ==
  l.strategies # <<>> /\ l.strategies[1] = [AnyStrategy EXCEPT !.decision = "deny"]

\* One such layer in a stack and the stack denies whatever it is asked about.
LEMMA RefusalDecides ==
  ASSUME NEW layers, \A l \in Range(layers) : WellFormed(l), NEW c,
         NEW l \in Range(layers), Refuses(l)
  PROVE  Decision(layers, c) = "deny"
<1> DEFINE heard == {LayerDecision(k, c) : k \in Speaking(layers, c)}
<1>1. 1 \in Matching(l, c)
  <2>1. 1 \in DOMAIN l.strategies
    BY DEF Refuses, WellFormed
  <2>2. Matches(l.strategies[1], c)
    BY DEF Refuses, Matches, AnyStrategy
  <2> QED BY <2>1, <2>2 DEF Matching
<1>2. Min(Matching(l, c)) = 1
  <2>1. Matching(l, c) \in SUBSET (Nat \ {0})
    BY DEF WellFormed, Matching
  <2>2. Min(Matching(l, c)) \in Matching(l, c) /\ Min(Matching(l, c)) <= 1
    BY <1>1, <2>1, LeastOf
  <2> QED BY <2>1, <2>2
<1>3. Deciding(l, c).decision = "deny"
  BY <1>2 DEF Deciding, Refuses, AnyStrategy
<1>4. LayerDecision(l, c) = "deny"
  BY <1>3 DEF LayerDecision, Stricter, Strictness, WellFormed
<1>5. heard \in SUBSET Decisions
  BY DecidingTyped DEF Speaking
<1>6. "deny" \in heard
  BY <1>1, <1>4 DEF Speaking
<1>7. Decision(layers, c) = IF heard = {} THEN "deny" ELSE Strictest(heard)
  BY DEF Decision
<1> HIDE DEF heard
<1> QED BY <1>5, <1>6, <1>7, StrictestIn

\* The refusal of one person stops a write that is about them.
LEMMA OptOutDecides ==
  ASSUME BInv, NEW agent, NEW surface, NEW subjects, NEW c,
         NEW u \in OptedOut, u \in subjects
  PROVE  Decision(Layers(agent, surface, subjects), c) = "deny"
<1>1. PICK d \in InForce("user_pref", u) : Refuses(d)
  BY DEF OptedOut, Refuses
<1>2. d \in Range(Layers(agent, surface, subjects))
  BY LayersSource DEF BInv, OptedOut
<1> QED BY <1>1, <1>2, StackWellFormed, RefusalDecides

\* The gate of a promotion is a decision.
LEMMA GateTyped ==
  ASSUME NEW layers, \A l \in Range(layers) : WellFormed(l), NEW x \in Crossings, NEW class
  PROVE  PromotionGate(layers, x, class) \in Decisions
<1> DEFINE D == ({"ask"} \cup {l.promotion[x] : l \in Range(layers)}) \ {"none"}
<1>1. D \in SUBSET Decisions /\ D # {}
  BY DEF WellFormed, Decisions
<1>2. Strictest(D) \in Decisions
  <2> HIDE DEF D
  <2> QED BY <1>1, StrictestIn
<1> HIDE DEF D
<1>3. PromotionGate(layers, x, class) \in {"deny", "allow", Strictest(D)}
  BY DEF PromotionGate, D
<1> QED BY <1>2, <1>3 DEF Decisions

-----------------------------------------------------------------------------
(* The ledger: who wrote and who is written about, of rows and questions.  *)

\* The old rows stay, but for where they are; n may be new.
RowsBut(n) ==
  \A m \in Stored' : m = n \/ (m \in Stored /\ mem'[m].by = mem[m].by /\ mem'[m].item = mem[m].item)

\* The questions that stay are as they were; k may be new.
AsksBut(k) == \A j \in Open' : j = k \/ (j \in Open /\ asks'[j] = asks[j])

Entry(n, by, subjects) ==
  n \notin Stored /\ (n \in Stored' => mem'[n].by = by /\ mem'[n].item.subjects = subjects)

Enters(by, subjects) == \E n : RowsBut(n) /\ Entry(n, by, subjects)

Question(k, by, subjects) ==
  k \in Open' => asks'[k].p.actor = by /\ AskedAbout(k)' = subjects

Asked(by, subjects) == \E k : AsksBut(k) /\ Question(k, by, subjects)

\* Nobody vetoes what by writes about these people.
Free(by, subjects) == by \notin frozen /\ subjects \cap OptedOut = {}

\* A step books nothing new, or something that nobody vetoes, or the row of a question
\* that it closes.
Booked ==
  \/ RowsBut(Nowhere) /\ AsksBut(Nowhere)
  \/ \E by, subjects : Free(by, subjects) /\ Enters(by, subjects) /\ Asked(by, subjects)
  \/ \E k \in Open : /\ k \notin Open' /\ AsksBut(Nowhere)
                     /\ Enters(asks[k].p.actor, AskedAbout(k))

\* A row comes to stand where there was none.
LEMMA InsertEnters ==
  ASSUME GInv, NEW row, Insert(row)
  PROVE  Enters(row.by, row.item.subjects)
<1>1. PICK n \in Mem \ Stored : mem' = [mem EXCEPT ![n] = row]
  BY DEF Insert
<1>2. mem'[n] = row /\ \A m \in Mem : m # n => mem'[m] = mem[m]
  BY <1>1 DEF GInv
<1>3. RowsBut(n) /\ Entry(n, row.by, row.item.subjects)
  BY <1>2 DEF RowsBut, Entry, Stored
<1> QED BY <1>3 DEF Enters

\* Where the memories stay as they are nothing enters.
LEMMA NothingEnters ==
  ASSUME UNCHANGED mem, NEW by, NEW subjects
  PROVE  RowsBut(Nowhere) /\ Enters(by, subjects)
<1>1. Nowhere \notin Stored /\ Nowhere \notin Stored'
  BY GovernanceBounds DEF Stored, Mem, Nowhere
<1>2. RowsBut(Nowhere) /\ Entry(Nowhere, by, subjects)
  BY <1>1 DEF RowsBut, Entry, Stored
<1> QED BY <1>2 DEF Enters

\* A write enters what its writer said, if anything.
LEMMA WriteEnters ==
  ASSUME GInv, NEW p, NEW flow, NEW item, NEW target, NEW staged, NEW ttl, NEW floor,
         EnactWrite(p, flow, item, target, staged, ttl, floor)
  PROVE  Enters(p.actor, item.subjects)
<1>1. CASE UNCHANGED mem
  BY <1>1, NothingEnters
<1>2. CASE mem' # mem
  <2>1. PICK clear, kept, sensitivity :
          Insert([scope |-> target, by |-> p.actor, for |-> p.user, item |-> item,
                  clear |-> clear, staged |-> staged, ttl |-> kept,
                  sensitivity |-> sensitivity, from |-> Nowhere])
    BY <1>2 DEF EnactWrite
  <2> DEFINE row == [scope |-> target, by |-> p.actor, for |-> p.user, item |-> item,
                     clear |-> clear, staged |-> staged, ttl |-> kept,
                     sensitivity |-> sensitivity, from |-> Nowhere]
  <2>2. row.by = p.actor /\ row.item = item
    OBVIOUS
  <2> HIDE DEF row
  <2>3. Enters(row.by, row.item.subjects)
    BY <2>1, InsertEnters DEF row
  <2> QED BY <2>2, <2>3
<1> QED BY <1>1, <1>2

\* A promotion moves a row or enters a copy of it.
LEMMA PromotionEnters ==
  ASSUME GInv, NEW p, NEW m \in Stored, NEW target, EnactPromotion(p, m, target)
  PROVE  Enters(p.actor, mem[m].item.subjects)
<1>0. IsRow(mem[m]) /\ m \in Mem
  BY DEF GInv, RowInv, Stored
<1>1. CASE mem' = [mem EXCEPT ![m].scope = target]
  <2>1. PICK row : row = [mem[m] EXCEPT !.scope = target] /\ mem' = [mem EXCEPT ![m] = row]
    BY <1>1
  <2>2. row.by = mem[m].by /\ row.item = mem[m].item
    BY <1>0, <2>1 DEF IsRow
  <2>3. mem'[m] = row /\ \A n \in Mem : n # m => mem'[n] = mem[n]
    BY <1>0, <2>1 DEF GInv
  <2>4. Nowhere \notin Stored /\ Nowhere \notin Stored'
    BY GovernanceBounds DEF Stored, Mem, Nowhere
  <2>5. RowsBut(Nowhere) /\ Entry(Nowhere, p.actor, mem[m].item.subjects)
    BY <2>2, <2>3, <2>4 DEF RowsBut, Entry, Stored
  <2> QED BY <2>5 DEF Enters
<1>2. CASE ~(mem' = [mem EXCEPT ![m].scope = target])
  <2>1. PICK clear, row :
          /\ row = [mem[m] EXCEPT !.scope = target, !.clear = clear, !.by = p.actor,
                                  !.for = p.user, !.from = m]
          /\ Insert(row)
    BY <1>2 DEF EnactPromotion
  <2>2. row.by = p.actor /\ row.item = mem[m].item
    BY <1>0, <2>1 DEF IsRow
  <2>3. Enters(row.by, row.item.subjects)
    BY <2>1, InsertEnters
  <2> QED BY <2>2, <2>3
<1> QED BY <1>1, <1>2

\* A question comes to stand where there was none, and the others stay.
LEMMA ParkAsks ==
  ASSUME GInv, NEW ask, Park(ask)
  PROVE  \E k : AsksBut(k) /\ (k \in Open' => asks'[k] = ask)
<1>1. PICK k \in Slots \ Open : asks' = [asks EXCEPT ![k] = ask]
  BY DEF Park
<1>2. asks'[k] = ask /\ \A j \in Slots : j # k => asks'[j] = asks[j]
  BY <1>1 DEF GInv
<1> QED BY <1>2 DEF AsksBut, Open

\* Where the questions stay as they are nothing is asked.
LEMMA NothingAsked ==
  ASSUME UNCHANGED asks, NEW by, NEW subjects
  PROVE  AsksBut(Nowhere) /\ Asked(by, subjects)
<1>1. Nowhere \notin Open /\ Nowhere \notin Open'
  BY GovernanceBounds DEF Open, Slots, Nowhere
<1>2. AsksBut(Nowhere) /\ Question(Nowhere, by, subjects)
  BY <1>1 DEF AsksBut, Question, Open
<1> QED BY <1>2 DEF Asked

\* A question that is closed leaves the others.
LEMMA ClosedAsks ==
  ASSUME GInv, NEW k \in Open, asks' = [asks EXCEPT ![k] = NoAsk]
  PROVE  k \notin Open' /\ AsksBut(Nowhere)
<1>1. k \in Slots /\ asks'[k] = NoAsk /\ \A j \in Slots : j # k => asks'[j] = asks[j]
  BY DEF GInv, Open
<1> QED BY <1>1 DEF AsksBut, Open

\* A write is booked only where neither a freeze nor a person forbids it.
LEMMA RememberBooked ==
  ASSUME GInv, BInv, NEW p, NEW flow, NEW item, Remember(p, flow, item)
  PROVE  Booked
<1> DEFINE layers  == Layers(p.actor, flow.surface, item.subjects)
           c       == Candidate(item, flow, flow.surface, Class[flow.container])
           verdict == Verdict(p, layers, c)
<1>1. CASE UNCHANGED <<mem, asks>>
  BY <1>1, NothingEnters, NothingAsked DEF Booked
<1>2. CASE ~(UNCHANGED <<mem, asks>>)
  <2>1. PICK target, ttl, floor, staged, confirmer, source, action :
          /\ verdict # "deny" /\ action = "remember"
          /\ \/ /\ Park([action |-> action, p |-> p, flow |-> flow, item |-> item,
                         source |-> source, target |-> target, confirmer |-> confirmer,
                         ttl |-> ttl, floor |-> floor])
                /\ UNCHANGED mem
             \/ EnactWrite(p, flow, item, target, staged, ttl, floor) /\ UNCHANGED asks
    <3> HIDE DEF verdict
    <3> QED BY <1>2 DEF Remember, verdict
  <2>2. Free(p.actor, item.subjects)
    <3>1. p.actor \notin frozen /\ Decision(layers, c) # "deny"
      BY <2>1 DEF Verdict
    <3> HIDE DEF c
    <3> QED BY <3>1, OptOutDecides DEF Free
  <2>3. Enters(p.actor, item.subjects)
    BY <2>1, WriteEnters, NothingEnters
  <2>4. Asked(p.actor, item.subjects)
    <3>1. CASE UNCHANGED asks
      BY <3>1, NothingAsked
    <3>2. CASE ~(UNCHANGED asks)
      <4>1. PICK ask : /\ ask.action = "remember" /\ ask.p = p /\ ask.item = item
                       /\ Park(ask)
        BY <2>1, <3>2
      <4>2. PICK k : AsksBut(k) /\ (k \in Open' => asks'[k] = ask)
        BY <4>1, ParkAsks
      <4> QED BY <4>1, <4>2 DEF Asked, Question, AskedAbout
    <3> QED BY <3>1, <3>2
  <2> QED BY <2>2, <2>3, <2>4 DEF Booked
<1> QED BY <1>1, <1>2

\* What the layers deny, or a freeze stops, is not promoted.
LEMMA PromotedFree ==
  ASSUME BInv, NEW p, NEW flow, NEW row, NEW target,
         PromotionVerdict(p, flow, row, target) \in {"ask", "allow"}
  PROVE  Free(p.actor, row.item.subjects)
<1> DEFINE surface == IF flow.surface # NoSurface THEN flow.surface ELSE Surface[row.scope]
           layers  == Layers(p.actor, surface, row.item.subjects)
           c       == Candidate(row.item, flow, Surface[target], Class[target])
           gate    == PromotionGate(layers, Crossing(row.scope, target), Class[row.scope])
<1>1. /\ p.actor \notin frozen
      /\ Stricter(gate, Unstaged(Decision(layers, c))) \in {"ask", "allow"}
  BY DEF PromotionVerdict
<1>2. Crossing(row.scope, target) \in Crossings
  BY DEF Crossing, Crossings
<1>3. gate \in Decisions
  BY <1>2, StackWellFormed, GateTyped
<1>4. Decision(layers, c) # "deny"
  <2> HIDE DEF gate
  <2>1. Stricter(gate, "deny") = "deny"
    BY <1>3 DEF Stricter, Strictness, Decisions
  <2> QED BY <1>1, <2>1 DEF Unstaged
<1> HIDE DEF c, surface
<1> QED BY <1>1, <1>4, OptOutDecides DEF Free

\* So is a promotion.
LEMMA PromoteBooked ==
  ASSUME GInv, BInv, NEW p, NEW flow, NEW m \in Mem, NEW target, Promote(p, flow, m, target)
  PROVE  Booked
<1>1. m \in Stored /\ PromotionVerdict(p, flow, mem[m], target) \in {"ask", "allow"}
  BY DEF Promote
<1>2. Free(p.actor, mem[m].item.subjects)
  BY <1>1, PromotedFree
<1>3. CASE EnactPromotion(p, m, target) /\ UNCHANGED asks
  BY <1>1, <1>2, <1>3, PromotionEnters, NothingAsked DEF Booked
<1>4. CASE ~(EnactPromotion(p, m, target) /\ UNCHANGED asks)
  <2>1. PICK ask : /\ ask.action = "promote" /\ ask.p = p /\ ask.mem = m
                   /\ Park(ask) /\ UNCHANGED mem
    BY <1>4 DEF Promote
  <2>2. PICK k : AsksBut(k) /\ (k \in Open' => asks'[k] = ask)
    BY <2>1, ParkAsks
  <2>3. Asked(p.actor, mem[m].item.subjects)
    BY <2>1, <2>2 DEF Asked, Question, AskedAbout
  <2> QED BY <1>2, <2>1, <2>3, NothingEnters DEF Booked
<1> QED BY <1>3, <1>4

\* An answer books what was asked about, and closes the question.
LEMMA AnswerBooked ==
  ASSUME GInv, NEW u, NEW k \in Open,
         ApproveWrite(u, k) \/ ApprovePromotion(u, k) \/ Decline(u, k)
  PROVE  Booked
<1>1. asks' = [asks EXCEPT ![k] = NoAsk]
  BY DEF ApproveWrite, ApprovePromotion, Decline
<1>2. k \notin Open' /\ AsksBut(Nowhere)
  BY <1>1, ClosedAsks
<1>3. CASE ApproveWrite(u, k)
  <2>1. PICK flow : /\ asks[k].action = "remember"
                    /\ EnactWrite(asks[k].p, flow, asks[k].item, asks[k].target, FALSE,
                                  asks[k].ttl, asks[k].floor)
    BY <1>3 DEF ApproveWrite
  <2>2. Enters(asks[k].p.actor, AskedAbout(k))
    BY <2>1, WriteEnters DEF AskedAbout
  <2> QED BY <1>2, <2>2 DEF Booked
<1>4. CASE ApprovePromotion(u, k)
  <2>1. /\ asks[k].action = "promote" /\ asks[k].mem \in Stored
        /\ EnactPromotion(asks[k].p, asks[k].mem, asks[k].target)
    BY <1>4 DEF ApprovePromotion, GInv, AskInv
  <2>2. Enters(asks[k].p.actor, AskedAbout(k))
    BY <2>1, PromotionEnters DEF AskedAbout
  <2> QED BY <1>2, <2>2 DEF Booked
<1>5. CASE Decline(u, k)
  BY <1>2, <1>5, NothingEnters DEF Decline, Booked
<1> QED BY <1>3, <1>4, <1>5

\* Every step is booked.
LEMMA NextBooked ==
  ASSUME GInv, BInv, [Next]_govVars
  PROVE  Booked
<1>1. CASE Serve
  BY <1>1, RememberBooked, PromoteBooked, AnswerBooked DEF Serve
<1>2. CASE UNCHANGED <<mem, asks>>
  BY <1>2, NothingEnters, NothingAsked DEF Booked
<1> QED BY <1>1, <1>2 DEF Next, Administer, govVars

\* Two sets that together lose at least what they gain do not grow.
LEMMA Ledger ==
  ASSUME NEW R, NEW K, IsFiniteSet(R), IsFiniteSet(K), NEW S, NEW L,
         \/ S \subseteq R /\ L \subseteq K
         \/ \E n : \E k \in K : S \subseteq R \cup {n} /\ L \subseteq K \ {k}
  PROVE  Cardinality(S) + Cardinality(L) <= Cardinality(R) + Cardinality(K)
<1>1. Cardinality(R) \in Nat /\ Cardinality(K) \in Nat
  BY FS_CardinalityType
<1>2. CASE S \subseteq R /\ L \subseteq K
  <2>1. /\ Cardinality(S) \in Nat /\ Cardinality(S) <= Cardinality(R)
        /\ Cardinality(L) \in Nat /\ Cardinality(L) <= Cardinality(K)
    BY <1>2, FS_Subset, FS_CardinalityType
  <2> QED BY <1>1, <2>1
<1>3. CASE \E n : \E k \in K : S \subseteq R \cup {n} /\ L \subseteq K \ {k}
  <2>1. PICK n : \E k \in K : S \subseteq R \cup {n} /\ L \subseteq K \ {k}
    BY <1>3
  <2>2. PICK k \in K : S \subseteq R \cup {n} /\ L \subseteq K \ {k}
    BY <2>1
  <2>3. /\ IsFiniteSet(R \cup {n}) /\ Cardinality(R \cup {n}) \in Nat
        /\ Cardinality(R \cup {n}) <= Cardinality(R) + 1
    <3>1. /\ IsFiniteSet(R \cup {n})
          /\ Cardinality(R \cup {n}) \in {Cardinality(R), Cardinality(R) + 1}
      BY FS_AddElement
    <3> QED BY <1>1, <3>1
  <2>4. /\ IsFiniteSet(K \ {k}) /\ Cardinality(K \ {k}) \in Nat
        /\ Cardinality(K \ {k}) = Cardinality(K) - 1
    BY <1>1, FS_RemoveElement, FS_CardinalityType
  <2>5. Cardinality(S) \in Nat /\ Cardinality(S) <= Cardinality(R \cup {n})
    BY <2>2, <2>3, FS_Subset, FS_CardinalityType
  <2>6. Cardinality(L) \in Nat /\ Cardinality(L) <= Cardinality(K \ {k})
    BY <2>2, <2>4, FS_Subset, FS_CardinalityType
  <2> QED BY <1>1, <2>3, <2>4, <2>5, <2>6
<1> QED BY <1>2, <1>3

\* There are finitely many rows and questions.
LEMMA FewStored ==
  ASSUME NEW S, S \subseteq Stored \/ S \subseteq Open
  PROVE  IsFiniteSet(S)
<1>1. IsFiniteSet(Mem) /\ IsFiniteSet(Slots)
  BY GovernanceBounds, FS_Interval DEF Mem, Slots
<1>2. S \subseteq Mem \/ S \subseteq Slots
  BY DEF Stored, Open
<1> QED BY <1>1, <1>2, FS_Subset

\* What an agent has written and asks does not grow while it is frozen.
LEMMA FrozenLedger ==
  ASSUME GInv, Booked, NEW a \in frozen
  PROVE  Footprint(a)' <= Footprint(a)
<1> DEFINE R == {m \in Stored : mem[m].by = a}
           K == {k \in Open : asks[k].p.actor = a}
<1>1. IsFiniteSet(R) /\ IsFiniteSet(K)
  BY FewStored
<1>2. \/ R' \subseteq R /\ K' \subseteq K
      \/ \E n : \E k \in K : R' \subseteq R \cup {n} /\ K' \subseteq K \ {k}
  <2>1. CASE RowsBut(Nowhere) /\ AsksBut(Nowhere)
    <3>1. Nowhere \notin Stored' /\ Nowhere \notin Open'
      BY GovernanceBounds DEF Stored, Open, Mem, Slots, Nowhere
    <3> QED BY <2>1, <3>1 DEF RowsBut, AsksBut
  <2>2. ASSUME NEW by, NEW subjects,
               Free(by, subjects), Enters(by, subjects), Asked(by, subjects)
        PROVE  R' \subseteq R /\ K' \subseteq K
    <3>1. R' \subseteq R
      BY <2>2 DEF Enters, RowsBut, Entry, Free
    <3>2. K' \subseteq K
      BY <2>2 DEF Asked, AsksBut, Question, Free
    <3> QED BY <3>1, <3>2
  <2>3. ASSUME NEW k \in Open, k \notin Open', AsksBut(Nowhere),
               Enters(asks[k].p.actor, AskedAbout(k))
        PROVE  \/ R' \subseteq R /\ K' \subseteq K
               \/ \E n : \E j \in K : R' \subseteq R \cup {n} /\ K' \subseteq K \ {j}
    <3>1. PICK n : RowsBut(n) /\ Entry(n, asks[k].p.actor, AskedAbout(k))
      BY <2>3 DEF Enters
    <3>2. K' \subseteq K \ {k}
      <4>1. Nowhere \notin Open'
        BY GovernanceBounds DEF Open, Slots, Nowhere
      <4> QED BY <2>3, <4>1 DEF AsksBut
    <3>3. CASE asks[k].p.actor = a
      <4>1. R' \subseteq R \cup {n}
        BY <3>1 DEF RowsBut
      <4>2. k \in K
        BY <3>3
      <4> HIDE DEF R, K
      <4> QED BY <3>2, <4>1, <4>2
    <3>4. CASE asks[k].p.actor # a
      <4>1. R' \subseteq R
        BY <3>1, <3>4 DEF RowsBut, Entry
      <4> HIDE DEF R, K
      <4> QED BY <3>2, <4>1
    <3> QED BY <3>3, <3>4
  <2> QED BY <2>1, <2>2, <2>3 DEF Booked
<1>3. Footprint(a) = Cardinality(R) + Cardinality(K)
  BY DEF Footprint
<1>4. Footprint(a)' = Cardinality(R') + Cardinality(K')
  BY DEF Footprint
<1> HIDE DEF R, K
<1> QED BY <1>1, <1>2, <1>3, <1>4, Ledger

\* What is kept and asked about a person does not grow while they want nothing kept.
LEMMA OptedOutLedger ==
  ASSUME GInv, BInv, GInv', GoodStep, Booked, NEW u \in OptedOut
  PROVE  Traces(u)' <= Traces(u)
<1> DEFINE R == {m \in Stored : u \in mem[m].item.subjects}
           K == {k \in Open : u \in AskedAbout(k)}
<1>1. IsFiniteSet(R) /\ IsFiniteSet(K)
  BY FewStored
<1>0. ASSUME NEW n, RowsBut(n), n \notin Stored,
             NEW j \in Open, asks'[j] = asks[j]
      PROVE  AskedAbout(j)' = AskedAbout(j)
  <2>1. CASE asks[j].action = "remember"
    BY <1>0, <2>1 DEF AskedAbout
  <2>2. CASE asks[j].action # "remember"
    <3>1. asks[j].mem \in Stored /\ asks[j].mem # n
      BY <1>0, <2>2 DEF GInv, AskInv
    <3>2. asks[j].mem \in Stored'
      BY <3>1, StoredStay
    <3>3. mem'[asks[j].mem].item = mem[asks[j].mem].item
      BY <1>0, <3>1, <3>2 DEF RowsBut
    <3> QED BY <1>0, <2>2, <3>3 DEF AskedAbout
  <2> QED BY <2>1, <2>2
<1>2. \/ R' \subseteq R /\ K' \subseteq K
      \/ \E n : \E k \in K : R' \subseteq R \cup {n} /\ K' \subseteq K \ {k}
  <2>0. Nowhere \notin Stored' /\ Nowhere \notin Open' /\ Nowhere \notin Stored
    BY GovernanceBounds DEF Stored, Open, Mem, Slots, Nowhere
  <2>1. CASE RowsBut(Nowhere) /\ AsksBut(Nowhere)
    <3>1. R' \subseteq R
      BY <2>0, <2>1 DEF RowsBut
    <3>2. K' \subseteq K
      BY <1>0, <2>0, <2>1 DEF AsksBut
    <3> QED BY <3>1, <3>2
  <2>2. ASSUME NEW by, NEW subjects,
               Free(by, subjects), Enters(by, subjects), Asked(by, subjects)
        PROVE  R' \subseteq R /\ K' \subseteq K
    <3>1. PICK n : RowsBut(n) /\ Entry(n, by, subjects)
      BY <2>2 DEF Enters
    <3>2. PICK k : AsksBut(k) /\ Question(k, by, subjects)
      BY <2>2 DEF Asked
    <3>3. R' \subseteq R
      BY <2>2, <3>1 DEF RowsBut, Entry, Free
    <3>4. ASSUME NEW j \in Open', u \in AskedAbout(j)'
          PROVE  j \in Open /\ u \in AskedAbout(j)
      <4>1. j # k
        BY <2>2, <3>2, <3>4 DEF Question, Free
      <4>2. j \in Open /\ asks'[j] = asks[j]
        BY <3>2, <4>1 DEF AsksBut
      <4>3. n \notin Stored
        BY <3>1 DEF Entry
      <4> QED BY <1>0, <3>1, <3>4, <4>2, <4>3
    <3>5. K' \subseteq K
      BY <3>4
    <3> QED BY <3>3, <3>5
  <2>3. ASSUME NEW k \in Open, k \notin Open', AsksBut(Nowhere),
               Enters(asks[k].p.actor, AskedAbout(k))
        PROVE  \/ R' \subseteq R /\ K' \subseteq K
               \/ \E n : \E j \in K : R' \subseteq R \cup {n} /\ K' \subseteq K \ {j}
    <3>1. PICK n : RowsBut(n) /\ Entry(n, asks[k].p.actor, AskedAbout(k))
      BY <2>3 DEF Enters
    <3>2. K' \subseteq K \ {k}
      <4>1. ASSUME NEW j \in Open', u \in AskedAbout(j)'
            PROVE  j \in Open /\ j # k /\ u \in AskedAbout(j)
        <5>1. j \in Open /\ asks'[j] = asks[j] /\ j # k
          BY <2>0, <2>3 DEF AsksBut
        <5>2. n \notin Stored
          BY <3>1 DEF Entry
        <5> QED BY <1>0, <3>1, <4>1, <5>1, <5>2
      <4> QED BY <4>1
    <3>3. CASE u \in AskedAbout(k)
      <4>1. R' \subseteq R \cup {n}
        BY <3>1 DEF RowsBut
      <4>2. k \in K
        BY <3>3
      <4> HIDE DEF R, K
      <4> QED BY <3>2, <4>1, <4>2
    <3>4. CASE u \notin AskedAbout(k)
      <4>1. R' \subseteq R
        BY <3>1, <3>4 DEF RowsBut, Entry
      <4> HIDE DEF R, K
      <4> QED BY <3>2, <4>1
    <3> QED BY <3>3, <3>4
  <2> QED BY <2>1, <2>2, <2>3 DEF Booked
<1>3. Traces(u) = Cardinality(R) + Cardinality(K)
  BY DEF Traces
<1>4. Traces(u)' = Cardinality(R') + Cardinality(K')
  BY DEF Traces
<1> HIDE DEF R, K
<1> QED BY <1>1, <1>2, <1>3, <1>4, Ledger

\* No freeze and no refusal is outvoted, by any stack of policies and in any order of
\* requests and answers: what a frozen agent has written and asked does not grow, nor
\* does what is kept and asked about a person who wants nothing kept (remember,
\* promote, confirm_pending).
THEOREM VetoesAlwaysHold == Spec => VetoesHold
<1>1. ASSUME GInv, BInv, [Next]_govVars
      PROVE  [/\ \A a \in frozen \cap frozen' : Footprint(a)' <= Footprint(a)
              /\ \A u \in OptedOut \cap OptedOut' : Traces(u)' <= Traces(u)]_govVars
  <2>1. Booked /\ GoodStep /\ GInv'
    BY <1>1, NextBooked, NextGood, GoodStepKeeps
  <2> QED BY <1>1, <2>1, FrozenLedger, OptedOutLedger
<1> QED BY <1>1, GovernanceInductive, BookAlways, PTL DEF Spec, VetoesHold

-----------------------------------------------------------------------------
(* Types: where a write lands, for how long and how sensitive.             *)

\* A set of ranks with a member has a greatest one.
LEMMA GreatestRank ==
  ASSUME NEW T \in SUBSET Ranks, T # {}
  PROVE  Max(T) \in T /\ Max(T) \in Ranks /\ \A y \in T : y <= Max(T)
<1>1. \E x \in T : \A y \in T : x >= y
  <2>1. CASE 3 \in T
    BY <2>1 DEF Ranks
  <2>2. CASE 3 \notin T /\ 2 \in T
    BY <2>2 DEF Ranks
  <2>3. CASE 3 \notin T /\ 2 \notin T /\ 1 \in T
    BY <2>3 DEF Ranks
  <2>4. CASE 3 \notin T /\ 2 \notin T /\ 1 \notin T
    <3>1. \A y \in T : y = 0
      BY <2>4 DEF Ranks
    <3> QED BY <3>1
  <2> QED BY <2>1, <2>2, <2>3, <2>4
<1>2. Max(T) \in T /\ \A y \in T : Max(T) >= y
  BY <1>1 DEF Max
<1> QED BY <1>2 DEF Ranks

\* A set of periods that has Forever has a least one, and that is a period.
LEMMA LeastPeriod ==
  ASSUME NEW T \in SUBSET (0..Forever), T # {}
  PROVE  Min(T) \in 0..Forever /\ \A y \in T : Min(T) <= y
<1>1. T \in SUBSET Nat
  BY ForeverAssumption
<1> QED BY <1>1, LeastOf

\* The periods and the floor of an evaluation are among those of its layers.
LEMMA LimitsTyped ==
  ASSUME NEW layers, layers \in Seq(Range(layers)),
         \A l \in Range(layers) : WellFormed(l), NEW c, NEW categories
  PROVE  /\ Ttl(layers, c) \in 0..Forever
         /\ SensitivityFloor(layers, c) \in Ranks
         /\ RetentionOverride(layers, categories) \in 0..Forever
<1>1. \A p \in Matched(layers, c) : Sensible(StrategyAt(layers, p))
  <2> SUFFICES ASSUME NEW i \in DOMAIN layers, NEW j \in Matching(layers[i], c)
               PROVE  Sensible(layers[i].strategies[j])
    BY DEF Matched, StrategyAt
  <2>1. WellFormed(layers[i]) /\ j \in DOMAIN layers[i].strategies
    BY DEF Matching, Range
  <2> QED BY <2>1 DEF WellFormed, Range
<1>2. \A l \in Speaking(layers, c) : Sensible(Deciding(l, c))
  <2> SUFFICES ASSUME NEW l \in Speaking(layers, c)
               PROVE  Sensible(Deciding(l, c))
    OBVIOUS
  <2>1. WellFormed(l) /\ Matching(l, c) # {}
    BY DEF Speaking
  <2>2. Deciding(l, c) \in Range(l.strategies)
    BY <2>1, DecidingTyped
  <2> QED BY <2>1, <2>2 DEF WellFormed
<1>3. Forever \in 0..Forever
  BY ForeverAssumption
<1>4. Ttl(layers, c) \in 0..Forever
  <2> DEFINE T == {Forever} \cup {Deciding(l, c).ttl : l \in Speaking(layers, c)}
                  \cup {StrategyAt(layers, p).ttl : p \in Routing(layers, c)}
  <2>1. T \in SUBSET (0..Forever) /\ T # {}
    BY <1>1, <1>2, <1>3 DEF Routing, Sensible
  <2>2. Min(T) \in 0..Forever
    <3> HIDE DEF T
    <3> QED BY <2>1, LeastPeriod
  <2> QED BY <2>2 DEF Ttl
<1>5. SensitivityFloor(layers, c) \in Ranks
  <2> DEFINE T == {0} \cup {StrategyAt(layers, p).floor : p \in Matched(layers, c)}
  <2>1. T \in SUBSET Ranks /\ T # {}
    BY <1>1 DEF Sensible, Ranks
  <2>2. Max(T) \in Ranks
    <3> HIDE DEF T
    <3> QED BY <2>1, GreatestRank
  <2> QED BY <2>2 DEF SensitivityFloor
<1>6. RetentionOverride(layers, categories) \in 0..Forever
  <2> DEFINE T == {Forever} \cup
                  {o.ttl : o \in {o \in UNION {l.retention : l \in Range(layers)} :
                                    o.categories \cap categories # {}}}
  <2>1. T \in SUBSET (0..Forever) /\ T # {}
    BY <1>3 DEF WellFormed
  <2>2. Min(T) \in 0..Forever
    <3> HIDE DEF T
    <3> QED BY <2>1, LeastPeriod
  <2> QED BY <2>2 DEF RetentionOverride
<1> QED BY <1>4, <1>5, <1>6

\* So are those of the stacks the service evaluates.
LEMMA StackLimits ==
  ASSUME BInv, NEW agent, NEW surface, NEW subjects, NEW c, NEW categories
  PROVE  /\ Ttl(Layers(agent, surface, subjects), c) \in 0..Forever
         /\ SensitivityFloor(Layers(agent, surface, subjects), c) \in Ranks
         /\ RetentionOverride(Layers(agent, surface, subjects), categories) \in 0..Forever
<1> DEFINE layers == Layers(agent, surface, subjects)
<1>1. layers \in Seq(Sources)
  BY LayersSource DEF BInv
<1>2. \A l \in Range(layers) : WellFormed(l)
  BY StackWellFormed
<1> HIDE DEF layers
<1>3. layers \in Seq(Range(layers))
  BY <1>1 DEF Range
<1>4. /\ Ttl(layers, c) \in 0..Forever /\ SensitivityFloor(layers, c) \in Ranks
      /\ RetentionOverride(layers, categories) \in 0..Forever
  BY <1>2, <1>3, LimitsTyped
<1> QED BY <1>4 DEF layers

\* The project of a flow is a scope, where there is one.
LEMMA ProjectTyped ==
  ASSUME NEW flow, flow.container \in Scopes, flow.project \in Scopes \cup {NoScope}
  PROVE  Project(flow) \in Scopes \cup {NoScope}
<1> DEFINE up == Up[flow.container]
           homes == {i \in DOMAIN up : /\ Family[up[i]] = "container"
                                       /\ Parent[up[i]] # NoScope
                                       /\ Family[Parent[up[i]]] = "surface"}
<1>1. up \in Seq(Scopes)
  BY WalkAssumption DEF Up
<1>2. homes # {} => up[Min(homes)] \in Scopes
  <2> HIDE DEF up
  <2>1. homes \in SUBSET Nat /\ homes \subseteq DOMAIN up
    BY <1>1
  <2>2. homes # {} => Min(homes) \in DOMAIN up
    <3> HIDE DEF homes
    <3> QED BY <2>1, LeastOf
  <2> QED BY <1>1, <2>2
<1>3. FlowProject(flow.container) = IF homes = {} THEN NoScope ELSE up[Min(homes)]
  BY DEF FlowProject
<1> HIDE DEF homes, up
<1>4. FlowProject(flow.container) \in Scopes \cup {NoScope}
  BY <1>2, <1>3
<1> QED BY <1>4 DEF Project

\* A write lands in a scope that may exist.
LEMMA TargetsTyped ==
  ASSUME NEW p, IsPrincipal(p), NEW flow, flow.container \in Scopes,
         flow.project \in Scopes \cup {NoScope}, NEW item, IsItem(item), NEW route
  PROVE  Targets(p, flow, item, route) \subseteq Scopes
<1>1. {SubjectScope[u] : u \in item.subjects} \subseteq Scopes
  BY TreeAssumption DEF IsItem
<1>2. ModuleTargets(flow) \subseteq Scopes
  <2>1. CASE Project(flow) = NoScope
    BY <2>1 DEF ModuleTargets
  <2>2. CASE Project(flow) # NoScope
    <3>1. Project(flow) \in Scopes
      BY <2>2, ProjectTyped
    <3>2. ASSUME NEW M \in ModulesTouched(Project(flow), flow.paths)
          PROVE  M \subseteq Scopes
      <4>1. PICK hit : \E best \in [hit -> Scopes] : M = Range(best)
        BY DEF ModulesTouched
      <4> QED BY <4>1 DEF Range
    <3>3. ASSUME NEW M \in ModulesTouched(Project(flow), flow.paths), Cardinality(M) = 1
          PROVE  (CHOOSE s \in M : TRUE) \in Scopes
      <4>1. M # {}
        BY <3>3, FS_EmptySet
      <4> QED BY <3>2, <4>1
    <3> QED BY <2>2, <3>1, <3>3 DEF ModuleTargets
  <2> QED BY <2>1, <2>2
<1>3. p.kind = "agent" => p.actor \in Scopes
  BY TreeAssumption DEF IsPrincipal
<1> QED BY <1>1, <1>2, <1>3 DEF Targets

-----------------------------------------------------------------------------
(* Narrower layers.                                                        *)

\* The layers of a stack are among those of a longer one, at the same places.
LEMMA Broader ==
  ASSUME NEW L, NEW broad \in Seq(L), NEW narrow \in Seq(L), NEW c
  PROVE  /\ Range(broad) \subseteq Range(broad \o narrow)
         /\ Speaking(broad, c) \subseteq Speaking(broad \o narrow, c)
         /\ Matched(broad, c) \subseteq Matched(broad \o narrow, c)
         /\ \A p \in Matched(broad, c) : StrategyAt(broad \o narrow, p) = StrategyAt(broad, p)
<1>1. \A i \in DOMAIN broad : i \in DOMAIN (broad \o narrow) /\ (broad \o narrow)[i] = broad[i]
  OBVIOUS
<1> DEFINE all == broad \o narrow
<1>2. \A i \in DOMAIN broad : i \in DOMAIN all /\ all[i] = broad[i]
  BY <1>1
<1> HIDE DEF all
<1>3. Range(broad) \subseteq Range(all)
  BY <1>2 DEF Range
<1>4. Speaking(broad, c) \subseteq Speaking(all, c)
  BY <1>3 DEF Speaking
<1>5. \A p \in Matched(broad, c) : p \in Matched(all, c) /\ StrategyAt(all, p) = StrategyAt(broad, p)
  <2> SUFFICES ASSUME NEW i \in DOMAIN broad, NEW j \in Matching(broad[i], c)
               PROVE  /\ <<i, j>> \in Matched(all, c)
                      /\ StrategyAt(all, <<i, j>>) = StrategyAt(broad, <<i, j>>)
    BY DEF Matched
  <2>1. i \in DOMAIN all /\ all[i] = broad[i]
    BY <1>2
  <2> QED BY <2>1 DEF Matched, StrategyAt
<1> QED BY <1>3, <1>4, <1>5 DEF all

\* What a stack has decided, narrower layers only tighten: the verdict on a write, once
\* some layer speaks, the gate of a promotion, the floor of the sensitivity and the
\* periods (evaluate, promotion_gate, retention_override).
THEOREM NarrowerOnlyTightens ==
  ASSUME NEW L, \A l \in L : WellFormed(l),
         NEW broad \in Seq(L), NEW narrow \in Seq(L), NEW c,
         NEW categories, NEW x \in Crossings, NEW class
  PROVE  /\ Speaking(broad, c) # {} =>
              Strictness[Decision(broad, c)] <= Strictness[Decision(broad \o narrow, c)]
         /\ Strictness[PromotionGate(broad, x, class)]
              <= Strictness[PromotionGate(broad \o narrow, x, class)]
         /\ SensitivityFloor(broad, c) <= SensitivityFloor(broad \o narrow, c)
         /\ Ttl(broad \o narrow, c) <= Ttl(broad, c)
         /\ RetentionOverride(broad \o narrow, categories) <= RetentionOverride(broad, categories)
<1> DEFINE all == broad \o narrow
<1>1. all \in Seq(L)
  OBVIOUS
<1>2. /\ Range(broad) \subseteq Range(all) /\ Speaking(broad, c) \subseteq Speaking(all, c)
      /\ Matched(broad, c) \subseteq Matched(all, c)
      /\ \A p \in Matched(broad, c) : StrategyAt(all, p) = StrategyAt(broad, p)
  BY Broader
<1> HIDE DEF all
<1>3. Range(all) \subseteq L
  BY <1>1 DEF Range
<1>4. /\ \A l \in Range(all) : WellFormed(l)
      /\ \A l \in Speaking(all, c) : WellFormed(l) /\ Matching(l, c) # {}
  BY <1>3 DEF Speaking
<1>5. \A p \in Matched(all, c) : Sensible(StrategyAt(all, p))
  <2> SUFFICES ASSUME NEW i \in DOMAIN all, NEW j \in Matching(all[i], c)
               PROVE  Sensible(all[i].strategies[j])
    BY DEF Matched, StrategyAt
  <2>1. WellFormed(all[i]) /\ j \in DOMAIN all[i].strategies
    BY <1>4 DEF Matching, Range
  <2> QED BY <2>1 DEF WellFormed, Range
<1>6. \A l \in Speaking(all, c) : Sensible(Deciding(l, c))
  <2> SUFFICES ASSUME NEW l \in Speaking(all, c)
               PROVE  Sensible(Deciding(l, c))
    OBVIOUS
  <2>1. WellFormed(l) /\ Deciding(l, c) \in Range(l.strategies)
    BY <1>4, DecidingTyped
  <2> QED BY <2>1 DEF WellFormed
<1>7. ASSUME NEW T \in SUBSET Decisions, NEW S \in SUBSET T, S # {}
      PROVE  Strictness[Strictest(S)] <= Strictness[Strictest(T)]
  <2>1. Strictest(S) \in T
    BY <1>7, StrictestIn
  <2> QED BY <1>7, <2>1, StrictestIn
<1>8. Speaking(broad, c) # {} => Strictness[Decision(broad, c)] <= Strictness[Decision(all, c)]
  <2> DEFINE S == {LayerDecision(l, c) : l \in Speaking(broad, c)}
             T == {LayerDecision(l, c) : l \in Speaking(all, c)}
  <2>1. S \subseteq T
    BY <1>2
  <2>2. T \subseteq Decisions
    BY <1>4, DecidingTyped
  <2>3. /\ Decision(broad, c) = IF S = {} THEN "deny" ELSE Strictest(S)
        /\ Decision(all, c) = IF T = {} THEN "deny" ELSE Strictest(T)
    BY DEF Decision
  <2>4. Speaking(broad, c) # {} => S # {}
    OBVIOUS
  <2> HIDE DEF S, T
  <2> QED BY <1>7, <2>1, <2>2, <2>3, <2>4
<1>9. Strictness[PromotionGate(broad, x, class)] <= Strictness[PromotionGate(all, x, class)]
  <2> DEFINE S == ({"ask"} \cup {l.promotion[x] : l \in Range(broad)}) \ {"none"}
             T == ({"ask"} \cup {l.promotion[x] : l \in Range(all)}) \ {"none"}
  <2>1. S \subseteq T /\ S # {}
    <3>1. "ask" \in S
      OBVIOUS
    <3>2. S \subseteq T
      BY <1>2
    <3> HIDE DEF S, T
    <3> QED BY <3>1, <3>2
  <2>2. T \subseteq Decisions
    BY <1>4 DEF WellFormed, Decisions
  <2>3. Strictness[Strictest(S)] <= Strictness[Strictest(T)]
    <3> HIDE DEF S, T
    <3> QED BY <1>7, <2>1, <2>2
  <2>4. \/ PromotionGate(broad, x, class) = PromotionGate(all, x, class)
        \/ /\ PromotionGate(broad, x, class) = Strictest(S)
           /\ PromotionGate(all, x, class) = Strictest(T)
    BY DEF PromotionGate
  <2>5. PromotionGate(all, x, class) \in Decisions
    BY <1>4, GateTyped
  <2>6. Strictness[PromotionGate(all, x, class)] \in Int
    BY <2>5 DEF Strictness, Decisions
  <2> HIDE DEF S, T
  <2> QED BY <2>3, <2>4, <2>6
<1>10. SensitivityFloor(broad, c) <= SensitivityFloor(all, c)
  <2> DEFINE S == {0} \cup {StrategyAt(broad, p).floor : p \in Matched(broad, c)}
             T == {0} \cup {StrategyAt(all, p).floor : p \in Matched(all, c)}
  <2>1. S \subseteq T
    BY <1>2
  <2>2. T \subseteq Ranks
    BY <1>5 DEF Sensible, Ranks
  <2>3. S # {}
    OBVIOUS
  <2>4. SensitivityFloor(broad, c) = Max(S) /\ SensitivityFloor(all, c) = Max(T)
    BY DEF SensitivityFloor
  <2> HIDE DEF S, T
  <2>5. Max(S) \in S
    <3>1. S \in SUBSET Ranks
      BY <2>1, <2>2
    <3> QED BY <2>3, <3>1, GreatestRank
  <2> QED BY <2>1, <2>2, <2>4, <2>5, GreatestRank
<1>11. Ttl(all, c) <= Ttl(broad, c)
  <2> DEFINE S == {Forever} \cup {Deciding(l, c).ttl : l \in Speaking(broad, c)}
                  \cup {StrategyAt(broad, p).ttl : p \in Routing(broad, c)}
             T == {Forever} \cup {Deciding(l, c).ttl : l \in Speaking(all, c)}
                  \cup {StrategyAt(all, p).ttl : p \in Routing(all, c)}
  <2>1. S \subseteq T
    BY <1>2 DEF Routing
  <2>2. T \subseteq 0..Forever
    BY <1>5, <1>6, ForeverAssumption DEF Routing, Sensible
  <2>3. S # {}
    OBVIOUS
  <2>4. Ttl(broad, c) = Min(S) /\ Ttl(all, c) = Min(T)
    BY DEF Ttl
  <2> HIDE DEF S, T
  <2>5. Min(S) \in S
    <3>1. S \in SUBSET Nat
      BY <2>1, <2>2
    <3> QED BY <2>3, <3>1, LeastOf
  <2> QED BY <2>1, <2>2, <2>4, <2>5, LeastPeriod
<1>12. RetentionOverride(all, categories) <= RetentionOverride(broad, categories)
  <2> DEFINE S == {Forever} \cup
                  {o.ttl : o \in {o \in UNION {l.retention : l \in Range(broad)} :
                                    o.categories \cap categories # {}}}
             T == {Forever} \cup
                  {o.ttl : o \in {o \in UNION {l.retention : l \in Range(all)} :
                                    o.categories \cap categories # {}}}
  <2>1. S \subseteq T
    BY <1>2
  <2>2. T \subseteq 0..Forever
    BY <1>4, ForeverAssumption DEF WellFormed
  <2>3. S # {}
    OBVIOUS
  <2>4. RetentionOverride(broad, categories) = Min(S) /\ RetentionOverride(all, categories) = Min(T)
    BY DEF RetentionOverride
  <2> HIDE DEF S, T
  <2>5. Min(S) \in S
    <3>1. S \in SUBSET Nat
      BY <2>1, <2>2
    <3> QED BY <2>3, <3>1, LeastOf
  <2> QED BY <2>1, <2>2, <2>4, <2>5, LeastPeriod
<1> QED BY <1>8, <1>9, <1>10, <1>11, <1>12 DEF all

-----------------------------------------------------------------------------
(* The types of the tables.                                                *)

AskTyped(ask) ==
  /\ AskOK(ask)
  /\ ask.action = "remember" => ask.floor \in Ranks

TypeInv ==
  /\ GovernanceTypeOK
  /\ \A a \in Open : AskTyped(asks[a])

\* Tables other than those of memories and questions.
RulesTyped ==
  known \subseteq Scopes /\ rel \subseteq Tuples /\ globs \subseteq Scopes \X Globs
  /\ frozen \subseteq Agents

\* What a step puts in the two tables is typed.
Typed(m) == m \in Stored' => RowOK(mem'[m])
RowsTyped == \A m \in Mem : mem'[m] = mem[m] \/ Typed(m)
QuestionsTyped == \A a \in Slots : asks'[a] = NoAsk \/ asks'[a] = asks[a] \/ AskTyped(asks'[a])

\* A write stores a typed row.
LEMMA WriteTyped ==
  ASSUME GInv, BInv, NEW p \in Principals, NEW flow, NEW item \in Items,
         NEW target \in Scopes, NEW staged \in BOOLEAN,
         NEW ttl \in 0..Forever, NEW floor \in Ranks,
         EnactWrite(p, flow, item, target, staged, ttl, floor)
  PROVE  RowsTyped
<1>1. CASE mem' = mem
  BY <1>1 DEF RowsTyped
<1>2. CASE mem' # mem
  <2> DEFINE kept == RetentionOverride(Layers(p.actor, flow.surface, item.subjects),
                                       Categories(item))
             least == Min({ttl, kept})
             most == Max({item.sensitivity, floor})
             clear == Clear(item.persons, EffectiveUser(p), target)'
             row == [scope |-> target, by |-> p.actor, for |-> p.user, item |-> item,
                     clear |-> clear, staged |-> staged, ttl |-> least,
                     sensitivity |-> most, from |-> Nowhere]
  <2>1. Insert(row)
    BY <1>2 DEF EnactWrite
  <2>2. clear \subseteq item.persons
    BY DEF Clear
  <2>3. least \in 0..Forever
    <3>1. kept \in 0..Forever
      BY StackLimits
    <3> HIDE DEF kept
    <3> QED BY <3>1, LeastPeriod
  <2>4. most \in Ranks
    <3>1. item.sensitivity \in Ranks
      BY CallerAssumption DEF Items, IsItem
    <3> QED BY <3>1, GreatestRank
  <2>5. p.actor \in Users \cup Agents \cup {Service} /\ p.user \in Users \cup {NoUser}
    BY CallerAssumption DEF Principals, IsPrincipal
  <2>6. RowOK(row)
    <3> HIDE DEF least, most, clear
    <3> QED BY <2>2, <2>3, <2>4, <2>5 DEF RowOK
  <2> HIDE DEF row
  <2>7. PICK n \in Mem \ Stored : mem' = [mem EXCEPT ![n] = row]
    BY <2>1 DEF Insert
  <2> QED BY <2>6, <2>7 DEF GInv, RowsTyped, Typed
<1> QED BY <1>1, <1>2

\* A promotion leaves a typed row where it was or adds one.
LEMMA PromotionTyped ==
  ASSUME GInv, NEW p \in Principals, NEW m \in Stored, RowOK(mem[m]), NEW target \in Scopes,
         EnactPromotion(p, m, target)
  PROVE  RowsTyped
<1>0. IsRow(mem[m]) /\ m \in Mem
  BY DEF GInv, RowInv, Stored
<1>1. p.actor \in Users \cup Agents \cup {Service} /\ p.user \in Users \cup {NoUser}
  BY CallerAssumption DEF Principals, IsPrincipal
<1>2. CASE mem' = [mem EXCEPT ![m].scope = target]
  <2>1. PICK row : row = [mem[m] EXCEPT !.scope = target] /\ mem' = [mem EXCEPT ![m] = row]
    BY <1>2
  <2>2. /\ row.scope = target /\ row.by = mem[m].by /\ row.for = mem[m].for
        /\ row.item = mem[m].item /\ row.clear = mem[m].clear /\ row.staged = mem[m].staged
        /\ row.ttl = mem[m].ttl /\ row.sensitivity = mem[m].sensitivity
        /\ row.from = mem[m].from
    BY <1>0, <2>1 DEF IsRow
  <2>3. RowOK(row)
    BY <2>2 DEF RowOK
  <2> QED BY <1>0, <2>1, <2>3 DEF GInv, RowsTyped, Typed
<1>3. CASE ~(mem' = [mem EXCEPT ![m].scope = target])
  <2>1. PICK clear, row, n :
          /\ n \in Mem \ Stored /\ clear = Clear(mem[m].clear, NoUser, target)
          /\ row = [mem[m] EXCEPT !.scope = target, !.clear = clear, !.by = p.actor,
                                  !.for = p.user, !.from = m]
          /\ mem' = [mem EXCEPT ![n] = row]
    BY <1>3 DEF EnactPromotion, Insert
  <2>2. /\ row.scope = target /\ row.by = p.actor /\ row.for = p.user
        /\ row.item = mem[m].item /\ row.clear = clear /\ row.staged = mem[m].staged
        /\ row.ttl = mem[m].ttl /\ row.sensitivity = mem[m].sensitivity /\ row.from = m
    BY <1>0, <2>1 DEF IsRow
  <2>3. clear \subseteq mem[m].clear
    BY <2>1 DEF Clear
  <2>4. RowOK(row)
    BY <1>0, <1>1, <2>2, <2>3 DEF RowOK
  <2> QED BY <2>1, <2>4 DEF GInv, RowsTyped, Typed
<1> QED BY <1>2, <1>3

\* A typed question that is parked leaves the questions typed.
LEMMA ParkTyped ==
  ASSUME GInv, NEW ask, AskTyped(ask), Park(ask)
  PROVE  QuestionsTyped
<1>1. PICK k \in Slots \ Open : asks' = [asks EXCEPT ![k] = ask]
  BY DEF Park
<1> QED BY <1>1 DEF GInv, QuestionsTyped

\* remember provisions scopes, and stores and asks what is typed.
LEMMA RememberTyped ==
  ASSUME GInv, BInv, TypeInv, NEW call \in Calls, Remember(call.p, call.flow, call.item)
  PROVE  RulesTyped' /\ RowsTyped /\ QuestionsTyped
<1> DEFINE p == call.p
           flow == call.flow
           item == call.item
           layers  == Layers(p.actor, flow.surface, item.subjects)
           c       == Candidate(item, flow, flow.surface, Class[flow.container])
           verdict == Verdict(p, layers, c)
           ttl == Ttl(layers, c)
           floor == SensitivityFloor(layers, c)
<1>1. /\ IsPrincipal(p) /\ IsItem(item) /\ flow.project \in Scopes \cup {NoScope}
      /\ p \in Principals /\ item \in Items
  BY CallerAssumption DEF Principals, Items
<1>2. flow.container \in Scopes /\ UNCHANGED <<globs, frozen>>
  BY DEF Remember, TypeInv, GovernanceTypeOK
<1>3. ttl \in 0..Forever /\ floor \in Ranks
  BY StackLimits
<1>4. PICK target :
        /\ \E route : target \in Targets(p, flow, item, route)
        /\ Provision(target)
        /\ \/ UNCHANGED <<mem, asks>>
           \/ /\ Park([action |-> "remember", p |-> p, flow |-> flow, item |-> item,
                       source |-> flow.container, target |-> target,
                       confirmer |-> "flow_user", ttl |-> ttl, floor |-> floor])
              /\ UNCHANGED mem
           \/ /\ EnactWrite(p, flow, item, target,
                            verdict = "stage" \/ item.origin \notin {"explicit_user_ask", "consolidated"},
                            ttl, floor)
              /\ UNCHANGED asks
  <2> HIDE DEF verdict, ttl, floor
  <2> QED BY DEF Remember, verdict, ttl, floor
<1>5. target \in Scopes
  BY <1>1, <1>2, <1>4, TargetsTyped
<1>6. RulesTyped'
  <2>1. known' \subseteq Scopes
    BY <1>4, <1>5 DEF Provision, TypeInv, GovernanceTypeOK
  <2>2. rel' \subseteq Tuples
    BY <1>4, <1>5 DEF Provision, TypeInv, GovernanceTypeOK, Tuples, Relations
  <2> QED BY <1>2, <2>1, <2>2 DEF RulesTyped, TypeInv, GovernanceTypeOK
<1> HIDE DEF p, flow, item, verdict, ttl, floor
<1>7. CASE UNCHANGED <<mem, asks>>
  BY <1>6, <1>7 DEF RowsTyped, QuestionsTyped
<1>8. CASE /\ Park([action |-> "remember", p |-> p, flow |-> flow, item |-> item,
                    source |-> flow.container, target |-> target,
                    confirmer |-> "flow_user", ttl |-> ttl, floor |-> floor])
           /\ UNCHANGED mem
  <2> DEFINE ask == [action |-> "remember", p |-> p, flow |-> flow, item |-> item,
                     source |-> flow.container, target |-> target,
                     confirmer |-> "flow_user", ttl |-> ttl, floor |-> floor]
  <2>1. AskTyped(ask)
    BY <1>1, <1>2, <1>3, <1>5 DEF AskTyped, AskOK
  <2> HIDE DEF ask
  <2>2. QuestionsTyped
    BY <1>8, <2>1, ParkTyped DEF ask
  <2> QED BY <1>6, <1>8, <2>2 DEF RowsTyped
<1>9. CASE /\ EnactWrite(p, flow, item, target,
                         verdict = "stage" \/ item.origin \notin {"explicit_user_ask", "consolidated"},
                         ttl, floor)
           /\ UNCHANGED asks
  <2>1. RowsTyped
    BY <1>1, <1>3, <1>5, <1>9, WriteTyped
  <2> QED BY <1>6, <1>9, <2>1 DEF QuestionsTyped
<1> QED BY <1>4, <1>7, <1>8, <1>9

\* So does promote, and it leaves the rules.
LEMMA PromoteTyped ==
  ASSUME GInv, TypeInv, NEW request \in Promotions, NEW m \in Mem,
         Promote(request.p, request.flow, m, request.target)
  PROVE  UNCHANGED rulesVars /\ RowsTyped /\ QuestionsTyped
<1>1. /\ request.p \in Principals /\ m \in Stored /\ request.target \in Scopes
      /\ RowOK(mem[m]) /\ UNCHANGED rulesVars
  BY DEF Promote, Principals, TypeInv, GovernanceTypeOK
<1>2. CASE EnactPromotion(request.p, m, request.target) /\ UNCHANGED asks
  BY <1>1, <1>2, PromotionTyped DEF QuestionsTyped
<1>3. CASE ~(EnactPromotion(request.p, m, request.target) /\ UNCHANGED asks)
  <2>1. PICK confirmer :
          /\ Park([action |-> "promote", p |-> request.p, mem |-> m, source |-> mem[m].scope,
                   target |-> request.target, confirmer |-> confirmer])
          /\ UNCHANGED mem
    BY <1>3 DEF Promote
  <2> DEFINE ask == [action |-> "promote", p |-> request.p, mem |-> m,
                     source |-> mem[m].scope, target |-> request.target,
                     confirmer |-> confirmer]
  <2>2. AskTyped(ask)
    BY <1>1 DEF AskTyped, AskOK, RowOK
  <2> HIDE DEF ask
  <2>3. QuestionsTyped
    BY <2>1, <2>2, ParkTyped DEF ask
  <2> QED BY <1>1, <2>1, <2>3 DEF RowsTyped
<1> QED BY <1>2, <1>3

\* And an answer, which closes its question.
LEMMA AnswerTyped ==
  ASSUME GInv, BInv, TypeInv, NEW u, NEW k \in Open,
         ApproveWrite(u, k) \/ ApprovePromotion(u, k) \/ Decline(u, k)
  PROVE  UNCHANGED rulesVars /\ RowsTyped /\ QuestionsTyped
<1>1. asks' = [asks EXCEPT ![k] = NoAsk] /\ UNCHANGED rulesVars
  BY DEF ApproveWrite, ApprovePromotion, Decline
<1>2. QuestionsTyped
  BY <1>1 DEF QuestionsTyped, GInv
<1>3. AskTyped(asks[k])
  BY DEF TypeInv
<1>4. CASE ApproveWrite(u, k)
  <2>1. PICK flow : /\ asks[k].action = "remember"
                    /\ EnactWrite(asks[k].p, flow, asks[k].item, asks[k].target, FALSE,
                                  asks[k].ttl, asks[k].floor)
    BY <1>4 DEF ApproveWrite
  <2>2. /\ asks[k].p \in Principals /\ asks[k].item \in Items /\ asks[k].target \in Scopes
        /\ asks[k].ttl \in 0..Forever /\ asks[k].floor \in Ranks
    BY <1>3, <2>1 DEF AskTyped, AskOK
  <2>3. RowsTyped
    BY <2>1, <2>2, WriteTyped
  <2> QED BY <1>1, <1>2, <2>3
<1>5. CASE ApprovePromotion(u, k)
  <2>1. asks[k].action = "promote" /\ EnactPromotion(asks[k].p, asks[k].mem, asks[k].target)
    BY <1>5 DEF ApprovePromotion
  <2>2. asks[k].p \in Principals /\ asks[k].mem \in Stored /\ asks[k].target \in Scopes
    BY <1>3, <2>1 DEF AskTyped, AskOK
  <2>3. RowOK(mem[asks[k].mem])
    BY <2>2 DEF TypeInv, GovernanceTypeOK
  <2>4. RowsTyped
    BY <2>1, <2>2, <2>3, PromotionTyped
  <2> QED BY <1>1, <1>2, <2>4
<1>6. CASE Decline(u, k)
  BY <1>1, <1>2, <1>6 DEF Decline, RowsTyped
<1> QED BY <1>4, <1>5, <1>6

\* Administration keeps the types of the rules, and leaves memories and questions.
LEMMA AdministerTyped ==
  ASSUME TypeInv, Administer
  PROVE  RulesTyped' /\ RowsTyped /\ QuestionsTyped
<1>1. RulesTyped
  BY DEF RulesTyped, TypeInv, GovernanceTypeOK
<1>2. RowsTyped /\ QuestionsTyped
  BY DEF Administer, RowsTyped, QuestionsTyped
<1>3. ASSUME NEW s \in Scopes, CreateScope(s), UNCHANGED <<book, frozen>>
      PROVE  RulesTyped'
  BY <1>1, <1>3 DEF CreateScope, RulesTyped
<1>4. ASSUME NEW t \in Grants, NEW remove \in BOOLEAN, SetRelation(t, remove),
             UNCHANGED <<book, frozen>>
      PROVE  RulesTyped'
  BY <1>1, <1>4, TableAssumption DEF SetRelation, RulesTyped
<1>5. ASSUME NEW p, NEW map \in PathSets, SetModulePaths(p, map.module, map.globs),
             UNCHANGED <<book, frozen>>
      PROVE  RulesTyped'
  <2>1. map.module \in Scopes /\ map.globs \subseteq Globs
    BY <1>1, <1>5, CallerAssumption DEF SetModulePaths, RulesTyped
  <2> QED BY <1>1, <1>5, <2>1 DEF SetModulePaths, RulesTyped
<1>6. ASSUME NEW p, NEW d, PutPolicy(p, d)
      PROVE  RulesTyped'
  BY <1>1, <1>6 DEF PutPolicy, RulesTyped, accessVars
<1>7. ASSUME NEW p, NEW a \in Agents, NEW on, SetFreeze(p, a, on)
      PROVE  RulesTyped'
  BY <1>1, <1>7 DEF SetFreeze, RulesTyped, accessVars
<1> QED BY <1>2, <1>3, <1>4, <1>5, <1>6, <1>7 DEF Administer

\* Every step keeps the types.
LEMMA NextTyped ==
  ASSUME GInv, BInv, TypeInv, [Next]_govVars
  PROVE  RulesTyped' /\ RowsTyped /\ QuestionsTyped
<1>0. RulesTyped
  BY DEF RulesTyped, TypeInv, GovernanceTypeOK
<1>1. UNCHANGED rulesVars => RulesTyped'
  BY <1>0 DEF RulesTyped, rulesVars, accessVars
<1>2. CASE Serve
  BY <1>1, <1>2, RememberTyped, PromoteTyped, AnswerTyped DEF Serve
<1>3. CASE Administer
  BY <1>3, AdministerTyped
<1>4. CASE UNCHANGED govVars
  BY <1>1, <1>4 DEF govVars, RowsTyped, QuestionsTyped
<1> QED BY <1>2, <1>3, <1>4 DEF Next

LEMMA TypeKept ==
  ASSUME GInv, BInv, TypeInv, [Next]_govVars
  PROVE  TypeInv'
<1>1. RulesTyped' /\ RowsTyped /\ QuestionsTyped
  BY NextTyped
<1>2. GInv' /\ Stored \subseteq Stored'
  BY NextGood, GoodStepKeeps, StoredStay
<1>3. \A m \in Stored' : RowOK(mem'[m])
  BY <1>1 DEF RowsTyped, Typed, Stored, TypeInv, GovernanceTypeOK
<1>4. \A ask : AskTyped(ask) => AskTyped(ask)'
  BY <1>2 DEF AskTyped, AskOK
<1>5. (\A a \in Open : AskTyped(asks[a]))'
  <2>1. ASSUME NEW a \in Open'
        PROVE  AskTyped(asks[a])'
    <3>1. AskTyped(asks'[a])
      BY <1>1 DEF QuestionsTyped, Open, TypeInv
    <3> QED BY <1>4, <3>1 DEF AskTyped, AskOK
  <2> QED BY <2>1
<1>6. GovernanceTypeOK'
  BY <1>1, <1>2, <1>3, <1>5 DEF GovernanceTypeOK, RulesTyped, AskTyped, GInv
<1> QED BY <1>5, <1>6 DEF TypeInv

\* The tables keep their types, and a question to promote names a memory there is
\* (GovernanceTypeOK), for any tree, policies, requests and administration.
THEOREM GovernanceTypes == Spec => []GovernanceTypeOK
<1>1. Init => TypeInv
  BY TableAssumption, GovernanceBounds DEF Init, TypeInv, GovernanceTypeOK, Stored, Open
<1>2. TypeInv => GovernanceTypeOK
  BY DEF TypeInv
<1> QED BY <1>1, <1>2, TypeKept, GovernanceInductive, BookAlways, PTL DEF Spec
=============================================================================
