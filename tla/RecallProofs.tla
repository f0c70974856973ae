----------------------------- MODULE RecallProofs -----------------------------
(***************************************************************************)
(* Proofs about the read path, for any scopes, layers, memberships and     *)
(* bounds, whatever changes between two statements of a read: nothing is   *)
(* handed out that the reader could at no time of the read see, and who    *)
(* has left a synced scope reads of it no longer than the bounds say.      *)
(***************************************************************************)
EXTENDS Recall, GovernanceProofs

-----------------------------------------------------------------------------
(* What a read looks like.                                                 *)

IsRead(r) ==
  /\ r = [phase |-> r.phase, p |-> r.p, flow |-> r.flow, chain |-> r.chain, open |-> r.open,
          time |-> r.time, overtaken |-> r.overtaken, gates |-> r.gates, served |-> r.served]
  /\ r.phase \in {"resolving", "dated", "ruled", "served"}
  /\ r.time \in 0..ReadTime
  /\ r.p.kind # "system"
  /\ r.phase # "resolving" => r.open = {}
  /\ r.phase = "served" => \A x \in r.served : x[2] \in r.chain

ReadInv == req = Idle \/ IsRead(req)

\* Read r goes on as q, with what it has learnt as it was.
SameRead(r, q) ==
  /\ q.phase = r.phase /\ q.p = r.p /\ q.flow = r.flow /\ q.chain = r.chain
  /\ q.open = r.open /\ q.gates = r.gates /\ q.served = r.served

\* The ways a read changes.
Opened(r, chain) ==
  [phase |-> "resolving", p |-> r.p, flow |-> r.flow, chain |-> chain,
   open |-> chain \X Questions, time |-> 0, overtaken |-> {}, gates |-> NoGates, served |-> {}]

Starts ==
  /\ req.phase \in {"idle", "served"}
  /\ \E r \in Reads : \E chain : req' = Opened(r, chain)

Waits == req' = req \/ (req # Idle /\ IsRead(req') /\ SameRead(req, req'))

Moves ==
  \/ \E s \in Scopes, q \in Questions : Check(s, q)
  \/ CheckStaleness \/ ReadGates \/ Deliver

\* A read that runs is not idle.
LEMMA Running ==
  ASSUME ReadInv
  PROVE  /\ req = Idle <=> req.phase = "idle"
         /\ req # Idle => IsRead(req)
  BY DEF ReadInv, IsRead, Idle

\* A statement of a read starts it, moves it or ends it.
LEMMA ReadingSteps ==
  ASSUME Reading
  PROVE  Starts \/ Moves \/ req' = Idle
  <1>1. ASSUME NEW r \in Reads, Begin(r.p, r.flow)
        PROVE  Starts
    <2>1. PICK chain : req' = Opened(r, chain)
      BY <1>1 DEF Begin, Opened
    <2>2. req.phase \in {"idle", "served"}
      BY <1>1 DEF Begin
    <2> QED BY <2>1, <2>2 DEF Starts
  <1> QED BY <1>1 DEF Reading, Moves, Finish

\* Every step of the system starts, moves or ends a read, or lets it wait; a step that
\* moves it leaves all else alone.
LEMMA ReadSteps ==
  ASSUME ReadInv, [RecallNext]_recallVars
  PROVE  Starts \/ Waits \/ (Moves /\ RecallNext) \/ req' = Idle
  <1>1. CASE Outside
    <2>1. CASE req = Idle
      BY <1>1, <2>1 DEF Outside, Leave, Return, Snapshot, ApplyOne, Heartbeat, GiveUp, Tick,
                        syncVars, Waits
    <2>2. CASE req # Idle
      <3>1. IsRead(req)
        BY <2>2, Running
      <3>2. req' = req \/ (\E o : req' = [req EXCEPT !.overtaken = o])
            \/ (req.time < ReadTime /\ req' = [req EXCEPT !.time = @ + 1])
        BY <1>1, <2>2 DEF Outside, Leave, Return, Snapshot, ApplyOne, Heartbeat, GiveUp, Tick,
                          syncVars
      <3>3. ASSUME NEW o, req' = [req EXCEPT !.overtaken = o]
            PROVE  Waits
        <4>1. IsRead(req') /\ SameRead(req, req')
          BY <3>1, <3>3 DEF IsRead, SameRead
        <4> QED BY <2>2, <4>1 DEF Waits
      <3>4. ASSUME req.time < ReadTime, req' = [req EXCEPT !.time = @ + 1]
            PROVE  Waits
        <4>1. IsRead(req') /\ SameRead(req, req')
          BY <3>1, <3>4, TimeAssumption DEF IsRead, SameRead
        <4> QED BY <2>2, <4>1 DEF Waits
      <3> QED BY <3>2, <3>3, <3>4 DEF Waits
    <2> QED BY <2>1, <2>2
  <1>2. CASE Reading /\ RecallNext
    BY <1>2, ReadingSteps
  <1>3. CASE Next /\ UNCHANGED <<syncVars, req>>
    BY <1>3 DEF Waits
  <1>4. CASE UNCHANGED recallVars
    BY <1>4 DEF recallVars, Waits
  <1> QED BY <1>1, <1>2, <1>3, <1>4 DEF RecallNext


-----------------------------------------------------------------------------
(* What is decided stays as it is while nothing is written.                *)

\* Who may look where depends on the tuples.
LEMMA AnswersStay ==
  ASSUME UNCHANGED govVars, NEW p, NEW s, NEW q
  PROVE  Answer(p, s, q)' = Answer(p, s, q)
  BY DEF govVars, rulesVars, accessVars, Answer, OwnNotebook, Enrolled, Holds, Sees,
         UserCanSee, Insiders

\* The gates depend on the layers.
LEMMA GatesStay ==
  ASSUME UNCHANGED govVars, NEW p, NEW flow
  PROVE  Gates(p, flow)' = Gates(p, flow)
  BY DEF govVars, rulesVars, Gates, Layers, Slot, InForce

\* What runs beside the governed requests writes no memory and asks nothing.
LEMMA OutsideGood ==
  ASSUME GInv, [RecallNext]_recallVars
  PROVE  GoodStep /\ AsksKept
<1>1. CASE Outside \/ Reading \/ UNCHANGED recallVars
  <2>1. UNCHANGED <<mem, asks>>
    BY <1>1 DEF Outside, Leave, Return, Snapshot, ApplyOne, Heartbeat, GiveUp, Tick,
                Reading, Begin, Check, CheckStaleness, ReadGates, Deliver, Finish,
                recallVars, govVars
  <2> QED BY <2>1 DEF GInv, GoodStep, AsksKept
<1>2. CASE Next
  BY <1>2, NextGood
<1> QED BY <1>1, <1>2 DEF RecallNext

\* What retrieval looks at in a memory never changes once it is stored.
LEMMA ViewsStay ==
  ASSUME GInv, [RecallNext]_recallVars, NEW m \in Stored
  PROVE  m \in Stored' /\ View(m)' = View(m)
<1>1. GoodStep /\ AsksKept /\ GInv'
  BY OutsideGood, GoodStepKeeps
<1>2. m \in Stored'
  BY <1>1, StoredStay
<1>3. /\ mem'[m].item = mem[m].item /\ mem'[m].staged = mem[m].staged
      /\ mem'[m].sensitivity = mem[m].sensitivity
  BY <1>1 DEF GoodStep, AddsOne, MovesOne, Stored, GInv
<1> QED BY <1>2, <1>3 DEF View

-----------------------------------------------------------------------------
(* What a read has not seen yet is all that may be barred to it.           *)

Barred(q, scopes, mems) ==
  /\ \A x \in (q.chain \X Questions) \ q.open : x \notin scopes
  /\ q.phase = "ruled" => \A m \in mems : m \in Stored /\ ~Passes(q.gates, View(m))
  /\ q.phase = "served" => \A x \in q.served : /\ x[1] \notin mems
                                               /\ ({x[2]} \X Questions) \cap scopes = {}

SeenInv == req # Idle => Barred(req, barred.scopes, barred.mems)

\* What is barred only gets less while a read goes on.
LEMMA BarredShrinks ==
  ASSUME [RecallNext]_recallVars, ~Begins
  PROVE  barred'.scopes \subseteq barred.scopes /\ barred'.mems \subseteq barred.mems
  BY DEF RecallNext, Note, recallVars

\* And is not what can be seen after the step.
LEMMA BarredUnseen ==
  ASSUME RecallNext, req' # Idle, UNCHANGED govVars
  PROVE  /\ \A x \in barred'.scopes : ~Answer(req'.p, x[1], x[2])
         /\ \A m \in barred'.mems : /\ m \in Stored
                                    /\ ~Passes(Gates(req'.p, req'.flow), View(m))
<1>1. /\ barred'.scopes \subseteq Unseen'.scopes
      /\ barred'.mems \subseteq Unseen'.mems
  BY DEF RecallNext, Note
<1>2. /\ Unseen'.scopes = {x \in req'.chain \X Questions : ~Answer(req.p, x[1], x[2])'}
      /\ Unseen'.mems = {m \in Stored' : ~Passes(Gates(req.p, req.flow)', View(m)')}
  BY DEF Unseen
<1>3. Gates(req.p, req.flow)' = Gates(req'.p, req'.flow) /\ Stored' = Stored
      /\ \A m : View(m)' = View(m)
  BY DEF govVars, rulesVars, Gates, Layers, Slot, InForce, Stored, View
<1>4. \A s, q : Answer(req.p, s, q)' = Answer(req'.p, s, q)
  BY DEF govVars, rulesVars, accessVars, Answer, OwnNotebook, Enrolled, Holds, Sees,
         UserCanSee, Insiders
<1> QED BY <1>1, <1>2, <1>3, <1>4

\* A read that waits has seen what it had seen.
LEMMA WaitingSees ==
  ASSUME GInv, ReadInv, SeenInv, [RecallNext]_recallVars, Waits
  PROVE  SeenInv'
<1> SUFFICES ASSUME req' # Idle
             PROVE  Barred(req, barred.scopes, barred.mems)'
  BY DEF SeenInv
<1>1. req # Idle /\ SameRead(req, req')
  BY DEF Waits, SameRead
<1>2. ~Begins
  BY <1>1, Running DEF Begins, SameRead, IsRead
<1>3. Barred(req, barred.scopes, barred.mems)
  BY <1>1 DEF SeenInv
<1>4. barred'.scopes \subseteq barred.scopes /\ barred'.mems \subseteq barred.mems
  BY <1>2, BarredShrinks
<1>5. \A m \in Stored : m \in Stored' /\ View(m)' = View(m)
  BY ViewsStay
<1>6. \A x \in (req'.chain \X Questions) \ req'.open : x \notin barred'.scopes
  BY <1>1, <1>3, <1>4 DEF Barred, SameRead
<1>7. req'.phase = "ruled" => \A m \in barred'.mems : m \in Stored' /\ ~Passes(req'.gates, View(m)')
  BY <1>1, <1>3, <1>4, <1>5 DEF Barred, SameRead
<1>8. req'.phase = "served" =>
        \A x \in req'.served : /\ x[1] \notin barred'.mems
                               /\ ({x[2]} \X Questions) \cap barred'.scopes = {}
  BY <1>1, <1>3, <1>4 DEF Barred, SameRead
<1> QED BY <1>6, <1>7, <1>8 DEF Barred

\* A read that starts has seen nothing.
LEMMA StartingSees ==
  ASSUME Starts
  PROVE  SeenInv' /\ ReadInv'
<1>1. PICK r \in Reads : \E chain : req' = Opened(r, chain)
  BY DEF Starts
<1> PICK chain : req' = Opened(r, chain)
  BY <1>1
<1>2. /\ req'.phase = "resolving" /\ req'.open = req'.chain \X Questions
      /\ IsRead(req')
  BY TimeAssumption, ReaderAssumption DEF Opened, IsRead
<1> QED BY <1>2 DEF SeenInv, ReadInv, Barred

\* Read r a statement later.
Moved(r, phase, chain, open, gates, served) ==
  [phase |-> phase, p |-> r.p, flow |-> r.flow, chain |-> chain, open |-> open,
   time |-> r.time, overtaken |-> r.overtaken, gates |-> gates, served |-> served]

LEMMA MovedRead ==
  ASSUME NEW r, IsRead(r), NEW chain, NEW open, NEW gates, NEW served
  PROVE  /\ IsRead(Moved(r, "resolving", chain, open, gates, served))
         /\ IsRead(Moved(r, "dated", chain, {}, gates, served))
         /\ IsRead(Moved(r, "ruled", chain, {}, gates, served))
         /\ (\A x \in served : x[2] \in chain) => IsRead(Moved(r, "served", chain, {}, gates, served))
<1>1. IsRead(Moved(r, "resolving", chain, open, gates, served))
  BY DEF IsRead, Moved
<1>2. IsRead(Moved(r, "dated", chain, {}, gates, served))
  BY DEF IsRead, Moved
<1>3. IsRead(Moved(r, "ruled", chain, {}, gates, served))
  BY DEF IsRead, Moved
<1>4. ASSUME \A x \in served : x[2] \in chain
      PROVE  IsRead(Moved(r, "served", chain, {}, gates, served))
  BY <1>4 DEF IsRead, Moved
<1> QED BY <1>1, <1>2, <1>3, <1>4

\* Each statement of a read leaves a read.
LEMMA MovingReads ==
  ASSUME IsRead(req), Moves
  PROVE  IsRead(req')
<1>1. CASE \E s \in Scopes, q \in Questions : Check(s, q)
  <2>1. PICK s, q : Check(s, q)
    BY <1>1
  <2>2. PICK chain, open : req' = [req EXCEPT !.chain = chain, !.open = open]
    <3>1. CASE Answer(req.p, s, q)
      <4>1. req' = [req EXCEPT !.chain = req.chain, !.open = req.open \ {<<s, q>>}]
        BY <2>1, <3>1 DEF Check, IsRead
      <4> QED BY <4>1
    <3>2. CASE ~Answer(req.p, s, q)
      BY <2>1, <3>2 DEF Check
    <3> QED BY <3>1, <3>2
  <2>3. req' = Moved(req, "resolving", chain, open, req.gates, req.served)
    BY <2>1, <2>2 DEF Check, IsRead, Moved
  <2> QED BY <2>3, MovedRead
<1>2. CASE CheckStaleness
  <2>1. PICK chain : req' = [req EXCEPT !.phase = "dated", !.chain = chain] /\ req.open = {}
    BY <1>2 DEF CheckStaleness
  <2>2. req' = Moved(req, "dated", chain, {}, req.gates, req.served)
    BY <2>1 DEF IsRead, Moved
  <2> QED BY <2>2, MovedRead
<1>3. CASE ReadGates
  <2>1. req.open = {}
    BY <1>3 DEF ReadGates, IsRead
  <2> DEFINE gates == Gates(req.p, req.flow)
  <2>2. req' = [req EXCEPT !.phase = "ruled", !.gates = gates]
    BY <1>3 DEF ReadGates
  <2> HIDE DEF gates
  <2>3. req' = Moved(req, "ruled", req.chain, {}, gates, req.served)
    BY <2>1, <2>2 DEF IsRead, Moved
  <2> QED BY <2>3, MovedRead
<1>4. CASE Deliver
  <2> DEFINE served == {<<m, mem[m].scope>> :
                          m \in {m \in Stored : /\ mem[m].scope \in req.chain
                                                /\ Passes(req.gates, View(m))}}
  <2>1. req.open = {} /\ req' = [req EXCEPT !.phase = "served", !.served = served]
    BY <1>4 DEF Deliver, IsRead
  <2>2. \A x \in served : x[2] \in req.chain
    OBVIOUS
  <2> HIDE DEF served
  <2>3. req' = Moved(req, "served", req.chain, {}, req.gates, served)
    BY <2>1 DEF IsRead, Moved
  <2> QED BY <2>2, <2>3, MovedRead
<1> QED BY <1>1, <1>2, <1>3, <1>4 DEF Moves

\* The statements of a read change the read only.
LEMMA MovingAlone ==
  ASSUME ReadInv, Moves
  PROVE  UNCHANGED <<govVars, syncVars>> /\ IsRead(req) /\ ~Begins /\ IsRead(req')
<1>1. UNCHANGED <<govVars, syncVars>> /\ req.phase \notin {"idle", "served"}
  BY DEF Moves, Check, CheckStaleness, ReadGates, Deliver
<1>2. IsRead(req)
  BY <1>1, Running
<1> QED BY <1>1, <1>2, MovingReads DEF Begins

\* A statement of a read rules out what it finds to be seen, and hands out nothing that
\* was not seen.
LEMMA MovingSees ==
  ASSUME GInv, ReadInv, SeenInv, RecallNext, Moves
  PROVE  SeenInv'
<1>0. UNCHANGED govVars /\ ~Begins /\ IsRead(req) /\ IsRead(req')
  BY MovingAlone
<1>1. req # Idle /\ req' # Idle /\ Barred(req, barred.scopes, barred.mems)
  BY <1>0 DEF IsRead, Idle, SeenInv
<1>2. barred'.scopes \subseteq barred.scopes /\ barred'.mems \subseteq barred.mems
  BY <1>0, BarredShrinks
<1>3. /\ \A x \in barred'.scopes : ~Answer(req'.p, x[1], x[2])
      /\ \A m \in barred'.mems : m \in Stored /\ ~Passes(Gates(req'.p, req'.flow), View(m))
  BY <1>0, <1>1, BarredUnseen
<1>4. Stored' = Stored /\ \A m : View(m)' = View(m)
  BY <1>0 DEF govVars, Stored, View
<1>5. CASE \E s \in Scopes, q \in Questions : Check(s, q)
  <2>1. PICK s \in Scopes, q \in Questions : Check(s, q)
    BY <1>5
  <2>2. CASE Answer(req.p, s, q)
    <3>1. /\ req'.phase = "resolving" /\ req'.p = req.p /\ req'.chain = req.chain
          /\ req'.open = req.open \ {<<s, q>>}
      BY <1>0, <2>1, <2>2 DEF Check, IsRead
    <3>2. <<s, q>> \notin barred'.scopes
      BY <1>3, <2>2, <3>1
    <3> QED BY <1>1, <1>2, <3>1, <3>2 DEF SeenInv, Barred
  <2>3. CASE ~Answer(req.p, s, q)
    <3>1. /\ req'.phase = "resolving" /\ req'.chain = req.chain \ {s}
          /\ req'.open = req.open \ ({s} \X Questions)
      BY <1>0, <2>1, <2>3 DEF Check, IsRead
    <3> QED BY <1>1, <1>2, <3>1 DEF SeenInv, Barred
  <2> QED BY <2>2, <2>3
<1>6. CASE CheckStaleness
  <2>1. /\ req'.phase = "dated" /\ req'.chain \subseteq req.chain /\ req'.open = req.open
    BY <1>0, <1>6 DEF CheckStaleness, SyncedPrivate, IsRead
  <2> QED BY <1>1, <1>2, <2>1 DEF SeenInv, Barred
<1>7. CASE ReadGates
  <2>1. /\ req'.phase = "ruled" /\ req'.chain = req.chain /\ req'.open = req.open
        /\ req'.p = req.p /\ req'.flow = req.flow /\ req'.gates = Gates(req.p, req.flow)
    BY <1>0, <1>7 DEF ReadGates, IsRead
  <2>2. \A x \in (req'.chain \X Questions) \ req'.open : x \notin barred'.scopes
    BY <1>1, <1>2, <2>1 DEF Barred
  <2>3. \A m \in barred'.mems : m \in Stored' /\ ~Passes(req'.gates, View(m)')
    BY <1>3, <1>4, <2>1
  <2> QED BY <2>1, <2>2, <2>3 DEF SeenInv, Barred
<1>8. CASE Deliver
  <2>1. /\ req'.phase = "served" /\ req'.chain = req.chain /\ req'.open = req.open
        /\ req'.served = {<<m, mem[m].scope>> :
                            m \in {m \in Stored : /\ mem[m].scope \in req.chain
                                                  /\ Passes(req.gates, View(m))}}
    BY <1>0, <1>8 DEF Deliver, IsRead
  <2>2. req.open = {} /\ req.phase = "ruled"
    BY <1>0, <1>8 DEF Deliver, IsRead
  <2>3. \A x \in req.chain \X Questions : x \notin barred'.scopes
    BY <1>1, <1>2, <2>2 DEF Barred
  <2>4. \A m \in Stored : Passes(req.gates, View(m)) => m \notin barred'.mems
    BY <1>1, <1>2, <2>2 DEF Barred
  <2>5. \A x \in req'.served : x[1] \notin barred'.mems /\ x[2] \in req.chain
    BY <2>1, <2>4
  <2>6. \A x \in req'.served : ({x[2]} \X Questions) \cap barred'.scopes = {}
    BY <2>3, <2>5
  <2> QED BY <2>1, <2>3, <2>5, <2>6 DEF SeenInv, Barred
<1> QED BY <1>5, <1>6, <1>7, <1>8 DEF Moves

\* What a read of the governed tables starts from.
LEMMA RecallStarts ==
  ASSUME RecallInit
  PROVE  GInv /\ ReadInv /\ SeenInv
  BY InitGood DEF RecallInit, ReadInv, SeenInv

\* The invariant of the read: what it has found readable was readable at some time, and
\* what its gates pass was passed.
EntitledInv == GInv /\ ReadInv /\ SeenInv

LEMMA EntitledStep == EntitledInv /\ [RecallNext]_recallVars => EntitledInv'
<1> SUFFICES ASSUME EntitledInv, [RecallNext]_recallVars
             PROVE  EntitledInv'
  OBVIOUS
<1> USE DEF EntitledInv
<1>1. GInv'
  BY OutsideGood, GoodStepKeeps
<1>2. CASE Starts
  BY <1>1, <1>2, StartingSees
<1>3. CASE Waits
  <2>1. ReadInv'
    BY <1>3 DEF Waits, ReadInv
  <2> QED BY <1>1, <1>3, <2>1, WaitingSees
<1>4. CASE Moves /\ RecallNext
  <2>1. IsRead(req')
    BY <1>4, MovingAlone
  <2> QED BY <1>1, <1>4, <2>1, MovingSees DEF ReadInv
<1>5. CASE req' = Idle
  BY <1>1, <1>5 DEF ReadInv, SeenInv
<1> QED BY <1>2, <1>3, <1>4, <1>5, ReadSteps

\* What is handed out was readable, and passed its gates, at some time of the read.
THEOREM AlwaysEntitled == RecallSpec => []Entitled
<1>1. EntitledInv => Entitled
  BY Running DEF EntitledInv, SeenInv, Barred, Entitled, Idle
<1>2. RecallInit => EntitledInv
  BY RecallStarts DEF EntitledInv
<1> QED BY <1>1, <1>2, EntitledStep, PTL DEF RecallSpec

-----------------------------------------------------------------------------
(* The clocks: how long ago somebody left, and how long ago a surface was  *)
(* synced.                                                                 *)

Ages == {Never} \cup 0..Cap

\* Who is in a scope has not left it.
ClocksInv ==
  /\ gone \in [Pairs -> 0..Cap] /\ synced \in [Synced -> Ages]
  /\ \A x \in Pairs : x \in real => gone[x] = 0

IsCycle(c) ==
  /\ c = [surface |-> c.surface, snap |-> c.snap, age |-> c.age]
  /\ c.surface \in Synced /\ c.age \in 0..CycleTime
  /\ \A x \in Pairs : x \in c.snap => gone[x] <= c.age

\* Whoever is in the snapshot of a cycle was there when the cycle began.
CycleInv == cycle = NoCycle \/ IsCycle(cycle)

\* What is known of a surface was true at most a cycle before its sync.
Recent(x) ==
  LET age == synced[Surface[x[1]]]
  IN  Surface[x[1]] \in Synced => age = Never \/ gone[x] <= age + CycleTime

\* Members of a synced scope are members only, and were there of late.
TuplesInv ==
  /\ \A s \in SyncScopes, u \in Users : <<s, "owner", u>> \notin rel
  /\ \A x \in Pairs : <<x[1], "member", x[2]>> \in rel => Recent(x)

\* What a read that no sync has overtaken has found out rests on such members, and on a
\* sync within the bound once that has been looked at.
Knows(q, x) ==
  /\ x[1] \in q.chain /\ <<x[1], "sees">> \notin q.open
  /\ x[2] = EffectiveUser(q.p)
  /\ Surface[x[1]] = q.flow.surface /\ q.flow.surface \in Synced \ q.overtaken
  /\ synced[q.flow.surface] # Never

Fresh(q) ==
  \A x \in Pairs : Knows(q, x) =>
    /\ gone[x] <= synced[q.flow.surface] + CycleTime
    /\ q.phase # "resolving" => synced[q.flow.surface] - q.time <= Bound

FreshInv == req # Idle => Fresh(req)

\* Numbers.
LEMMA AgesGrow ==
  ASSUME NEW age \in Ages
  PROVE  /\ Later(age) \in Ages /\ (Later(age) = Never <=> age = Never)
         /\ Later(age) <= age + 1
         /\ age # Never => Later(age) = age + 1 \/ (age = Cap /\ Later(age) = Cap)
  BY TimeAssumption DEF Ages, Later, Never, Cap

\* Who sees a private scope is among its insiders.
LEMMA PrivateSeen ==
  ASSUME NEW s \in Scopes, Class[s] = "private", NEW u, UserCanSee(u, s)
  PROVE  u \in Insiders(s)
<1> DEFINE up == Up[s]
           stops == {i \in DOMAIN up : Insiders(up[i]) # {} \/ Class[up[i]] = "private"}
<1>1. up \in Seq(Scopes) /\ up # <<>> /\ up[1] = s
  BY WalkAssumption DEF Up
<1>2. DOMAIN up = 1..Len(up) /\ Len(up) \in Nat \ {0}
  BY <1>1
<1>3. 1 \in stops /\ stops \subseteq Nat \ {0}
  BY <1>1, <1>2
<1>4. Min(stops) = 1
  BY <1>3 DEF Min
<1>5. u \in Insiders(up[Min(stops)])
  BY DEF UserCanSee
<1> QED BY <1>1, <1>4, <1>5

\* A governed request adds tuples that are granted, or owners of subject scopes.
LEMMA NewTuples ==
  ASSUME Next, NEW t, t \in rel'
  PROVE  t \in rel \/ t \in Grants \/ \E w \in Users : t = <<SubjectScope[w], "owner", w>>
<1>1. CASE Serve
  <2> DEFINE Writes == \E call \in Calls : Remember(call.p, call.flow, call.item)
  <2>1. ASSUME NEW target, Provision(target)
        PROVE  t \in rel \/ \E w \in Users : t = <<SubjectScope[w], "owner", w>>
    BY <2>1 DEF Provision
  <2>2. ASSUME NEW p, NEW flow, NEW item, Remember(p, flow, item)
        PROVE  \E target : Provision(target)
    BY <2>2 DEF Remember
  <2>3. ASSUME NEW request, NEW m, Promote(request.p, request.flow, m, request.target)
        PROVE  rel' = rel
    BY <2>3 DEF Promote, rulesVars, accessVars
  <2>4. ASSUME NEW w, NEW a, ApproveWrite(w, a) \/ ApprovePromotion(w, a) \/ Decline(w, a)
        PROVE  rel' = rel
    BY <2>4 DEF ApproveWrite, ApprovePromotion, Decline, rulesVars, accessVars
  <2>5. \/ Writes
        \/ \E request \in Promotions, m \in Mem :
             Promote(request.p, request.flow, m, request.target)
        \/ \E w \in Users, a \in Open :
             ApproveWrite(w, a) \/ ApprovePromotion(w, a) \/ Decline(w, a)
    BY <1>1 DEF Serve
  <2>6. CASE Writes
    <3>1. \E target : Provision(target)
      BY <2>2, <2>6
    <3> QED BY <2>1, <3>1
  <2> HIDE DEF Writes
  <2>7. CASE ~Writes
    <3>1. rel' = rel
      BY <2>3, <2>4, <2>5, <2>7
    <3> QED BY <3>1
  <2> QED BY <2>6, <2>7
<1>2. CASE Administer
  <2>1. rel' = rel \/ \E g \in Grants, remove \in BOOLEAN : SetRelation(g, remove)
    BY <1>2 DEF Administer, CreateScope, SetModulePaths, PutPolicy, SetFreeze, accessVars
  <2> QED BY <2>1 DEF SetRelation
<1> QED BY <1>1, <1>2 DEF Next

\* So none makes anybody a member or an owner of a synced scope.
LEMMA TuplesKept ==
  ASSUME Next, NEW s \in SyncScopes, NEW r \in {"member", "owner"}, NEW u,
         <<s, r, u>> \in rel'
  PROVE  <<s, r, u>> \in rel
  BY NewTuples, SyncAssumption

\* All but what happens on the surface leaves the clocks and the cycle alone.
LEMMA Inside ==
  ASSUME [RecallNext]_recallVars, ~Outside
  PROVE  UNCHANGED <<real, gone, cycle, synced>>
  BY DEF RecallNext, recallVars, syncVars, Reading, Begin, Check, CheckStaleness, ReadGates,
         Deliver, Finish

\* The clocks count.
LEMMA ClocksKeep ==
  ASSUME ClocksInv, [RecallNext]_recallVars
  PROVE  ClocksInv'
<1>0. 0 \in 0..Cap /\ 0 \in Ages
  BY TimeAssumption DEF Cap, Ages
<1>1. ASSUME NEW x \in Pairs, Leave(x[1], x[2])
      PROVE  ClocksInv'
  BY <1>1 DEF Leave, ClocksInv
<1>2. ASSUME NEW x \in Pairs, Return(x[1], x[2])
      PROVE  ClocksInv'
  <2>1. x = <<x[1], x[2]>>
    BY DEF Pairs
  <2>2. real' = real \cup {x} /\ gone' = [gone EXCEPT ![x] = 0] /\ synced' = synced
    BY <1>2, <2>1 DEF Return
  <2> QED BY <1>0, <2>2 DEF ClocksInv
<1>3. CASE Heartbeat
  <2>1. real' = real /\ gone' = gone /\ synced' = [synced EXCEPT ![cycle.surface] = 0]
    BY <1>3 DEF Heartbeat
  <2> QED BY <1>0, <2>1 DEF ClocksInv
<1>4. CASE Tick
  <2>1. /\ real' = real /\ synced' = [s \in Synced |-> Later(synced[s])]
        /\ gone' = [x \in Pairs |-> IF x \in real THEN 0 ELSE Later(gone[x])]
    BY <1>4 DEF Tick
  <2>2. \A n \in 0..Cap : Later(n) \in 0..Cap
    BY TimeAssumption DEF Later, Cap, Never
  <2>3. \A s \in Synced : Later(synced[s]) \in Ages
    BY AgesGrow DEF ClocksInv
  <2> QED BY <1>0, <2>1, <2>2, <2>3 DEF ClocksInv
<1>5. CASE UNCHANGED <<real, gone, synced>>
  BY <1>5 DEF ClocksInv
<1> QED BY <1>1, <1>2, <1>3, <1>4, <1>5, Inside
        DEF Outside, Snapshot, ApplyOne, GiveUp, syncVars

\* A cycle carries on with its snapshot, or ends.
LEMMA CycleKeeps ==
  ASSUME ClocksInv, CycleInv, [RecallNext]_recallVars
  PROVE  CycleInv'
<1>1. ASSUME NEW x \in Pairs, Return(x[1], x[2])
      PROVE  CycleInv'
  <2>1. x = <<x[1], x[2]>>
    BY DEF Pairs
  <2>2. gone' = [gone EXCEPT ![x] = 0] /\ cycle' = cycle
    BY <1>1, <2>1 DEF Return
  <2>3. \A y \in Pairs : gone'[y] = gone[y] \/ gone'[y] = 0
    BY <2>2 DEF ClocksInv
  <2> QED BY <2>2, <2>3 DEF CycleInv, IsCycle
<1>2. ASSUME NEW s \in Synced, Snapshot(s)
      PROVE  CycleInv'
  <2>1. /\ cycle' = [surface |-> s, snap |-> On(s, real), age |-> 0] /\ gone' = gone
        /\ On(s, real) \subseteq real
    BY <1>2 DEF Snapshot, On
  <2>2. \A x \in Pairs : x \in cycle'.snap => gone'[x] <= cycle'.age
    BY <2>1 DEF ClocksInv
  <2> QED BY <2>1, <2>2, TimeAssumption DEF CycleInv, IsCycle
<1>3. CASE Tick
  <2>1. CASE cycle = NoCycle
    BY <1>3, <2>1 DEF Tick, CycleInv
  <2>2. CASE cycle # NoCycle
    <3>1. /\ cycle.age < CycleTime /\ cycle' = [cycle EXCEPT !.age = @ + 1]
          /\ gone' = [x \in Pairs |-> IF x \in real THEN 0 ELSE Later(gone[x])]
      BY <1>3, <2>2 DEF Tick
    <3>2. /\ cycle = [surface |-> cycle.surface, snap |-> cycle.snap, age |-> cycle.age]
          /\ cycle.surface \in Synced /\ cycle.age \in 0..CycleTime
          /\ \A x \in Pairs : x \in cycle.snap => gone[x] <= cycle.age
      BY <2>2 DEF CycleInv, IsCycle
    <3>3. /\ cycle' = [surface |-> cycle.surface, snap |-> cycle.snap, age |-> cycle.age + 1]
          /\ cycle.age + 1 \in 0..CycleTime
      BY <3>1, <3>2, TimeAssumption
    <3>4. \A x \in Pairs : gone[x] \in Nat /\ (gone'[x] = 0 \/ gone'[x] <= gone[x] + 1)
      BY <3>1, TimeAssumption DEF ClocksInv, Later, Cap
    <3>5. \A x \in Pairs : x \in cycle.snap => gone'[x] <= cycle.age + 1
      <4> SUFFICES ASSUME NEW x \in Pairs, x \in cycle.snap
                   PROVE  gone'[x] <= cycle.age + 1
        OBVIOUS
      <4>1. cycle.age \in Int /\ cycle.age >= 0 /\ gone[x] <= cycle.age
        BY <3>2, TimeAssumption
      <4>2. gone[x] \in Nat /\ (gone'[x] = 0 \/ gone'[x] <= gone[x] + 1)
        BY <3>4
      <4>3. gone'[x] \in Int
        BY <3>1, TimeAssumption DEF ClocksInv, Later, Cap
      <4> QED BY <4>1, <4>2, <4>3
    <3> QED BY <3>2, <3>3, <3>5 DEF CycleInv, IsCycle
  <2> QED BY <2>1, <2>2
<1>4. CASE cycle' = NoCycle \/ UNCHANGED <<gone, cycle>>
  BY <1>4 DEF CycleInv, IsCycle
<1> QED BY <1>1, <1>2, <1>3, <1>4, Inside
        DEF Outside, Leave, ApplyOne, Heartbeat, GiveUp, syncVars

\* The relation is one of triples.
TriplesInv == \A t \in rel : t = <<t[1], t[2], t[3]>>

LEMMA TriplesKeep ==
  ASSUME TriplesInv, [RecallNext]_recallVars
  PROVE  TriplesInv'
<1>1. CASE Next
  <2>1. \A t \in Grants : t = <<t[1], t[2], t[3]>>
    BY TableAssumption DEF Tuples
  <2> QED BY <1>1, <2>1, NewTuples DEF TriplesInv
<1>2. CASE ApplyOne
  <2>1. PICK s, u : rel' \subseteq rel \cup {<<s, "member", u>>}
    BY <1>2 DEF ApplyOne, SetRelation
  <2> QED BY <2>1 DEF TriplesInv
<1>3. CASE ~Next /\ ~ApplyOne
  <2>1. UNCHANGED rel
    BY <1>3 DEF RecallNext, Outside, Leave, Return, Snapshot, Heartbeat, GiveUp, Tick, Reading,
                Begin, Check, CheckStaleness, ReadGates, Deliver, Finish, recallVars, govVars,
                rulesVars, accessVars
  <2> QED BY <2>1 DEF TriplesInv
<1> QED BY <1>1, <1>2, <1>3

\* Later, a member was there a tick longer ago, and so was the sync.
LEMMA RecentTicks ==
  ASSUME ClocksInv, Tick, NEW x \in Pairs, Recent(x)
  PROVE  Recent(x)'
<1> SUFFICES ASSUME Surface[x[1]] \in Synced
             PROVE  synced'[Surface[x[1]]] = Never \/ gone'[x] <= synced'[Surface[x[1]]] + CycleTime
  BY DEF Recent
<1> DEFINE age == synced[Surface[x[1]]]
<1>1. /\ synced'[Surface[x[1]]] = Later(age) /\ age \in Ages
      /\ gone'[x] = IF x \in real THEN 0 ELSE Later(gone[x])
  BY DEF Tick, ClocksInv
<1>2. age = Never \/ gone[x] <= age + CycleTime
  BY DEF Recent
<1>3. gone[x] \in 0..Cap
  BY DEF ClocksInv
<1>4. gone'[x] \in 0..Cap /\ gone'[x] <= gone[x] + 1
  BY <1>1, <1>3, TimeAssumption DEF Later, Cap, Never
<1> HIDE DEF age
<1>5. CASE age = Never
  BY <1>1, <1>5, AgesGrow
<1>6. CASE age = Cap /\ Later(age) = Cap
  BY <1>1, <1>4, <1>6, TimeAssumption DEF Cap
<1>7. CASE age # Never /\ Later(age) = age + 1
  <2>1. age \in Int /\ gone[x] \in Int /\ gone'[x] \in Int /\ CycleTime \in Int
    BY <1>1, <1>3, <1>4, TimeAssumption DEF Ages, Cap, Never
  <2>2. gone'[x] <= (age + 1) + CycleTime
    BY <1>2, <1>4, <1>7, <2>1
  <2> QED BY <1>1, <1>7, <2>2
<1> QED BY <1>1, <1>5, <1>6, <1>7, AgesGrow

\* Where nobody has left for longer, and the surface was synced no later, all is as
\* recent as it was.
LEMMA RecentStays ==
  ASSUME ClocksInv, ClocksInv', UNCHANGED synced, NEW x \in Pairs, Recent(x),
         gone'[x] = gone[x] \/ gone'[x] = 0
  PROVE  Recent(x)'
<1> SUFFICES ASSUME Surface[x[1]] \in Synced
             PROVE  synced[Surface[x[1]]] = Never \/ gone'[x] <= synced[Surface[x[1]]] + CycleTime
  BY DEF Recent
<1>1. synced[Surface[x[1]]] \in Ages
  BY DEF ClocksInv
<1> QED BY <1>1, TimeAssumption DEF Recent, Ages, Never

\* Tuples of a synced scope come from a snapshot.
LEMMA TuplesKeep ==
  ASSUME ClocksInv, CycleInv, TuplesInv, [RecallNext]_recallVars
  PROVE  TuplesInv'
<1>0. ClocksInv'
  BY ClocksKeep
<1>1. ASSUME UNCHANGED synced,
             \A s \in SyncScopes, r \in {"member", "owner"}, u \in Users :
               <<s, r, u>> \in rel' => <<s, r, u>> \in rel,
             \A x \in Pairs : gone'[x] = gone[x] \/ gone'[x] = 0
      PROVE  TuplesInv'
  <2>1. \A x \in Pairs : Recent(x) => Recent(x)'
    BY <1>0, <1>1, RecentStays
  <2> QED BY <1>1, <2>1 DEF TuplesInv, Pairs
<1>2. ASSUME NEW x \in Pairs, Leave(x[1], x[2])
      PROVE  TuplesInv'
  BY <1>1, <1>2 DEF Leave, govVars, rulesVars, accessVars
<1>3. ASSUME NEW x \in Pairs, Return(x[1], x[2])
      PROVE  TuplesInv'
  <2>1. gone' = [gone EXCEPT ![<<x[1], x[2]>>] = 0]
    BY <1>3 DEF Return
  <2>2. \A y \in Pairs : gone'[y] = gone[y] \/ gone'[y] = 0
    BY <2>1 DEF ClocksInv
  <2>3. UNCHANGED <<synced, rel>>
    BY <1>3 DEF Return, govVars, rulesVars, accessVars
  <2> QED BY <1>1, <2>2, <2>3
<1>4. CASE (\E s \in Synced : Snapshot(s)) \/ GiveUp
  BY <1>1, <1>4 DEF Snapshot, GiveUp, govVars, rulesVars, accessVars
<1>5. CASE ApplyOne
  <2>1. IsCycle(cycle) /\ UNCHANGED <<synced, gone>>
    BY <1>5 DEF ApplyOne, CycleInv, syncVars
  <2>2. PICK x \in Pairs :
          rel' = IF x \notin cycle.snap THEN rel \ {<<x[1], "member", x[2]>>}
                 ELSE rel \cup {<<x[1], "member", x[2]>>}
    BY <1>5 DEF ApplyOne, Differences, On, SetRelation
  <2>3. x \in cycle.snap => Recent(x)
    <3>1. CycleTime \in Nat /\ gone[x] \in Int /\ cycle.age <= CycleTime /\ cycle.age \in Int
          /\ (x \in cycle.snap => gone[x] <= cycle.age)
      BY <2>1, TimeAssumption DEF IsCycle, ClocksInv, Cap
    <3>2. Surface[x[1]] \in Synced => synced[Surface[x[1]]] \in Ages
      BY DEF ClocksInv
    <3>3. ASSUME NEW age \in Ages, age # Never, x \in cycle.snap
          PROVE  gone[x] <= age + CycleTime
      <4>1. age \in Nat
        BY <3>3, TimeAssumption DEF Ages, Never, Cap
      <4> QED BY <3>1, <3>3, <4>1
    <3> QED BY <3>2, <3>3 DEF Recent
  <2>4. \A y \in Pairs : Recent(y)' = Recent(y)
    BY <2>1 DEF Recent
  <2>5. \A y \in Pairs : <<y[1], "member", y[2]>> \in rel' =>
          <<y[1], "member", y[2]>> \in rel \/ (y = x /\ x \in cycle.snap)
    BY <2>2 DEF Pairs
  <2>6. \A s \in SyncScopes, u \in Users : <<s, "owner", u>> \notin rel'
    BY <2>2 DEF TuplesInv
  <2> QED BY <2>3, <2>4, <2>5, <2>6 DEF TuplesInv
<1>6. CASE Heartbeat
  <2>1. /\ IsCycle(cycle) /\ rel' = rel /\ gone' = gone /\ Differences = {}
        /\ synced' = [synced EXCEPT ![cycle.surface] = 0]
    BY <1>6 DEF Heartbeat, CycleInv, govVars, rulesVars, accessVars
  <2>2. ASSUME NEW x \in Pairs, <<x[1], "member", x[2]>> \in rel
        PROVE  Recent(x)'
    <3>1. CASE Surface[x[1]] = cycle.surface
      <4>1. x \in cycle.snap
        BY <2>1, <2>2, <3>1 DEF Differences, On
      <4>2. gone[x] <= cycle.age /\ cycle.age <= CycleTime /\ synced'[Surface[x[1]]] = 0
        BY <2>1, <3>1, <4>1, TimeAssumption DEF IsCycle, ClocksInv
      <4>3. gone[x] \in Int /\ cycle.age \in Int /\ CycleTime \in Int
        BY <2>1, TimeAssumption DEF IsCycle, ClocksInv, Cap
      <4> QED BY <2>1, <4>2, <4>3 DEF Recent
    <3>2. CASE Surface[x[1]] # cycle.surface
      BY <2>1, <2>2, <3>2 DEF Recent, TuplesInv, ClocksInv
    <3> QED BY <3>1, <3>2
  <2> QED BY <2>1, <2>2 DEF TuplesInv
<1>7. CASE Tick
  <2>1. rel' = rel
    BY <1>7 DEF Tick, govVars, rulesVars, accessVars
  <2> QED BY <1>7, <2>1, RecentTicks DEF TuplesInv
<1>8. CASE ~Outside
  <2>1. UNCHANGED <<gone, synced>>
    BY <1>8, Inside
  <2>2. \A s \in SyncScopes, r \in {"member", "owner"}, u \in Users :
          <<s, r, u>> \in rel' => <<s, r, u>> \in rel
    <3>1. CASE Next
      BY <3>1, TuplesKept
    <3>2. CASE ~Next
      BY <1>8, <3>2 DEF RecallNext, Reading, Begin, Check, CheckStaleness, ReadGates, Deliver,
                        Finish, recallVars, govVars, rulesVars, accessVars
    <3> QED BY <3>1, <3>2
  <2> QED BY <1>1, <2>1, <2>2
<1> QED BY <1>2, <1>3, <1>4, <1>5, <1>6, <1>7, <1>8 DEF Outside

\* A read that waits knows no more than it knew, and is not overtaken unnoticed.
LEMMA FreshTicks ==
  ASSUME ClocksInv, IsRead(req), Fresh(req), Tick
  PROVE  Fresh(req)'
<1>1. /\ synced' = [s \in Synced |-> Later(synced[s])]
      /\ gone' = [x \in Pairs |-> IF x \in real THEN 0 ELSE Later(gone[x])]
      /\ req.time < ReadTime /\ req' = [req EXCEPT !.time = @ + 1]
  BY DEF Tick, IsRead, Idle
<1>2. /\ req'.phase = req.phase /\ req'.p = req.p /\ req'.flow = req.flow
      /\ req'.chain = req.chain /\ req'.open = req.open /\ req'.overtaken = req.overtaken
      /\ req'.time = req.time + 1
  BY <1>1 DEF IsRead
<1>3. SUFFICES ASSUME NEW x \in Pairs, Knows(req, x)'
               PROVE  /\ gone'[x] <= synced'[req'.flow.surface] + CycleTime
                      /\ req'.phase # "resolving" =>
                           synced'[req'.flow.surface] - req'.time <= Bound
  BY DEF Fresh
<1> DEFINE age == synced[req.flow.surface]
<1>4. req.flow.surface \in Synced /\ synced'[req'.flow.surface] = Later(age) /\ age \in Ages
  BY <1>1, <1>2, <1>3 DEF Knows, ClocksInv
<1>5. age # Never /\ Knows(req, x)
  BY <1>1, <1>2, <1>3, <1>4, AgesGrow DEF Knows, EffectiveUser
<1>6. gone[x] <= age + CycleTime /\ (req.phase # "resolving" => age - req.time <= Bound)
  BY <1>5 DEF Fresh
<1>7. gone[x] \in 0..Cap /\ gone'[x] \in 0..Cap /\ gone'[x] <= gone[x] + 1
  <2>1. gone[x] \in 0..Cap /\ gone'[x] = IF x \in real THEN 0 ELSE Later(gone[x])
    BY <1>1 DEF ClocksInv
  <2> QED BY <2>1, TimeAssumption DEF Later, Cap, Never
<1> HIDE DEF age
<1>8. /\ Later(age) <= age + 1
      /\ Later(age) = age + 1 \/ (age = Cap /\ Later(age) = Cap)
      /\ age \in Int /\ Later(age) \in Int /\ gone[x] \in Int /\ gone'[x] \in Int
      /\ req.time \in Int /\ CycleTime \in Nat /\ Bound \in Nat /\ Cap \in Int
      /\ gone'[x] <= Cap
  BY <1>4, <1>5, <1>7, AgesGrow, TimeAssumption DEF Ages, Cap, Never, IsRead
<1>9. gone'[x] <= Later(age) + CycleTime
  BY <1>6, <1>7, <1>8
<1>10. req.phase # "resolving" => Later(age) - (req.time + 1) <= Bound
  BY <1>6, <1>8
<1> QED BY <1>2, <1>4, <1>9, <1>10

\* While the clocks stand still.
LEMMA FreshWaits ==
  ASSUME ClocksInv, IsRead(req), Fresh(req), SameRead(req, req'), req'.time = req.time,
         req.overtaken \subseteq req'.overtaken,
         \A x \in Pairs : gone'[x] = gone[x] \/ gone'[x] = 0,
         \A s \in Synced \ req'.overtaken : synced'[s] = synced[s]
  PROVE  Fresh(req)'
<1>1. SUFFICES ASSUME NEW x \in Pairs, Knows(req, x)'
               PROVE  /\ gone'[x] <= synced'[req'.flow.surface] + CycleTime
                      /\ req'.phase # "resolving" =>
                           synced'[req'.flow.surface] - req'.time <= Bound
  BY DEF Fresh
<1>2. synced'[req'.flow.surface] = synced[req.flow.surface]
  BY <1>1 DEF Knows, SameRead
<1>3. Knows(req, x)
  BY <1>1, <1>2 DEF Knows, SameRead, EffectiveUser
<1>4. /\ gone[x] <= synced[req.flow.surface] + CycleTime
      /\ req.phase # "resolving" => synced[req.flow.surface] - req.time <= Bound
  BY <1>3 DEF Fresh
<1>5. synced[req.flow.surface] \in Nat
  BY <1>3, TimeAssumption DEF Knows, ClocksInv, Ages, Cap, Never
<1> QED BY <1>1, <1>2, <1>4, <1>5, TimeAssumption DEF SameRead

\* Once the answer is in, the scope is one the reader was a member of.
LEMMA FreshMoves ==
  ASSUME ClocksInv, TriplesInv, TuplesInv, ReadInv, FreshInv, Moves
  PROVE  FreshInv'
<1>1. UNCHANGED <<gone, synced>> /\ IsRead(req) /\ IsRead(req') /\ Fresh(req)
  <2>1. UNCHANGED <<govVars, syncVars>> /\ IsRead(req) /\ IsRead(req')
    BY MovingAlone
  <2> QED BY <2>1 DEF syncVars, FreshInv, IsRead, Idle
<1>2. SUFFICES ASSUME NEW x \in Pairs, Knows(req, x)'
               PROVE  /\ gone[x] <= synced[req'.flow.surface] + CycleTime
                      /\ req'.phase # "resolving" =>
                           synced[req'.flow.surface] - req'.time <= Bound
  BY <1>1 DEF FreshInv, Fresh
<1>3. ASSUME Knows(req, x)
      PROVE  /\ gone[x] <= synced[req.flow.surface] + CycleTime
             /\ req.phase # "resolving" => synced[req.flow.surface] - req.time <= Bound
  BY <1>1, <1>3 DEF Fresh
<1>4. CASE \E s \in Scopes, q \in Questions : Check(s, q)
  <2>1. PICK s \in Scopes, q \in Questions : Check(s, q)
    BY <1>4
  <2>2. /\ req'.phase = "resolving" /\ req'.p = req.p /\ req'.flow = req.flow
        /\ req'.chain \subseteq req.chain /\ req'.overtaken = req.overtaken
        /\ Answer(req.p, s, q) => req'.open = req.open \ {<<s, q>>}
        /\ ~Answer(req.p, s, q) =>
             req'.chain = req.chain \ {s} /\ req'.open = req.open \ ({s} \X Questions)
    BY <1>1, <2>1 DEF Check, IsRead
  <2>3. /\ x[1] \in req'.chain /\ <<x[1], "sees">> \notin req'.open
        /\ x[2] = EffectiveUser(req.p)
        /\ Surface[x[1]] = req.flow.surface /\ req.flow.surface \in Synced \ req.overtaken
        /\ synced[req.flow.surface] # Never
    BY <1>1, <1>2, <2>2 DEF Knows, EffectiveUser
  <2>4. CASE <<x[1], "sees">> \notin req.open
    BY <1>3, <2>2, <2>3, <2>4 DEF Knows
  <2>5. CASE <<x[1], "sees">> \in req.open
    <3>1. Answer(req.p, x[1], "sees")
      BY <2>2, <2>3, <2>5 DEF Questions
    <3>2. x[1] \in SyncScopes /\ x[2] \in Users /\ x = <<x[1], x[2]>>
      BY DEF Pairs
    <3>3. x[1] \in Scopes /\ Class[x[1]] = "private" /\ Family[x[1]] # "agent"
      BY <3>2, SyncAssumption
    <3>4. Sees(req.p, x[1])
      BY <3>1, <3>3 DEF Answer
    <3>5. UserCanSee(x[2], x[1])
      BY <1>1, <2>3, <3>2, <3>4, TreeAssumption DEF Sees, IsRead
    <3>6. x[2] \in Insiders(x[1])
      BY <3>3, <3>5, PrivateSeen
    <3>7. <<x[1], "member", x[2]>> \in rel \/ <<x[1], "owner", x[2]>> \in rel
      <4>1. PICK t \in rel : t[3] = x[2] /\ t[1] = x[1] /\ t[2] \in {"member", "owner"}
        BY <3>6 DEF Insiders
      <4>2. t = <<t[1], t[2], t[3]>>
        BY DEF TriplesInv
      <4> QED BY <4>1, <4>2
    <3>8. Recent(x)
      BY <3>2, <3>7 DEF TuplesInv
    <3> QED BY <2>2, <2>3, <3>8 DEF Recent
  <2> QED BY <2>4, <2>5
<1>5. CASE CheckStaleness
  <2>1. /\ req'.phase = "dated" /\ req'.p = req.p /\ req'.flow = req.flow
        /\ req'.open = req.open /\ req'.overtaken = req.overtaken /\ req'.time = req.time
        /\ req'.chain = IF Stale(req.flow.surface) THEN req.chain \ SyncedPrivate(req.chain)
                        ELSE req.chain
    BY <1>1, <1>5 DEF CheckStaleness, IsRead
  <2>2. Knows(req, x)
    BY <1>1, <1>2, <2>1 DEF Knows, EffectiveUser, SyncedPrivate
  <2>3. x[1] \in SyncedPrivate(req.chain)
    BY <2>2, SyncAssumption DEF Knows, SyncedPrivate, Pairs
  <2>4. ~Stale(req.flow.surface)
    BY <1>2, <2>1, <2>3 DEF Knows
  <2>5. synced[req.flow.surface] - req.time <= Bound
    <3>1. synced[req.flow.surface] \in Int /\ req.time \in Int /\ Bound \in Int
      BY <1>1, <2>2, TimeAssumption DEF Knows, ClocksInv, Ages, Never, Cap, IsRead
    <3> QED BY <2>2, <2>4, <3>1 DEF Stale, Knows
  <2> QED BY <1>3, <2>1, <2>2, <2>5
<1>6. CASE ReadGates \/ Deliver
  <2>1. /\ req.phase # "resolving" /\ req'.p = req.p /\ req'.flow = req.flow
        /\ req'.open = req.open /\ req'.overtaken = req.overtaken /\ req'.time = req.time
        /\ req'.chain = req.chain
    BY <1>1, <1>6 DEF ReadGates, Deliver, IsRead
  <2>2. Knows(req, x)
    BY <1>1, <1>2, <2>1 DEF Knows, EffectiveUser
  <2> QED BY <1>3, <2>1, <2>2
<1> QED BY <1>4, <1>5, <1>6 DEF Moves

\* What happens on the surface meanwhile.
LEMMA FreshOutside ==
  ASSUME ClocksInv, IsRead(req), Fresh(req), Outside
  PROVE  Fresh(req)'
<1>0. req # Idle
  BY DEF IsRead, Idle
<1>1. CASE Tick
  BY <1>1, FreshTicks
<1>2. CASE ~Tick /\ ~Heartbeat
  <2>1. req' = req /\ synced' = synced
        /\ (gone' = gone \/ \E x \in Pairs : gone' = [gone EXCEPT ![<<x[1], x[2]>>] = 0])
    BY <1>2 DEF Outside, Leave, Return, Snapshot, ApplyOne, GiveUp, syncVars
  <2>2. \A y \in Pairs : gone'[y] = gone[y] \/ gone'[y] = 0
    BY <2>1 DEF ClocksInv
  <2> QED BY <2>1, <2>2, FreshWaits DEF SameRead
<1>3. CASE Heartbeat
  <2>1. /\ gone' = gone /\ synced' = [synced EXCEPT ![cycle.surface] = 0]
        /\ req' = [req EXCEPT !.overtaken = @ \cup {cycle.surface}]
    BY <1>0, <1>3 DEF Heartbeat
  <2>2. /\ SameRead(req, req') /\ req'.time = req.time
        /\ req'.overtaken = req.overtaken \cup {cycle.surface}
    BY <2>1 DEF IsRead, SameRead
  <2>3. \A s \in Synced \ req'.overtaken : synced'[s] = synced[s]
    BY <2>1, <2>2 DEF ClocksInv
  <2> QED BY <2>1, <2>2, <2>3, FreshWaits
<1> QED BY <1>1, <1>2, <1>3

\* So a read rests on members that were there of late, unless a sync overtakes it.
LEMMA FreshKeep ==
  ASSUME ClocksInv, TriplesInv, TuplesInv, ReadInv, FreshInv, [RecallNext]_recallVars
  PROVE  FreshInv'
<1>1. CASE Starts
  <2>1. PICK r \in Reads : \E chain : req' = Opened(r, chain)
    BY <1>1 DEF Starts
  <2> PICK chain : req' = Opened(r, chain)
    BY <2>1
  <2>2. \A x \in Pairs : ~Knows(req, x)'
    BY DEF Opened, Knows, Questions
  <2> QED BY <2>2 DEF FreshInv, Fresh
<1>2. CASE Moves
  BY <1>2, FreshMoves
<1>3. CASE Waits
  <2> SUFFICES ASSUME req' # Idle
               PROVE  Fresh(req)'
    BY DEF FreshInv
  <2>1. req # Idle /\ IsRead(req) /\ Fresh(req)
    BY <1>3, Running DEF Waits, FreshInv
  <2>2. CASE Outside
    BY <2>1, <2>2, FreshOutside
  <2>3. CASE ~Outside
    <3>1. UNCHANGED <<gone, synced>>
      BY <2>3, Inside
    <3>2. req' = req \/ Moves \/ Starts
      BY <2>3, ReadingSteps DEF RecallNext, recallVars
    <3>3. CASE req' = req
      BY <2>1, <3>1, <3>3, FreshWaits DEF SameRead
    <3> QED BY <1>1, <1>2, <3>2, <3>3 DEF FreshInv
  <2> QED BY <2>2, <2>3
<1>4. CASE req' = Idle
  BY <1>4 DEF FreshInv
<1> QED BY <1>1, <1>2, <1>3, <1>4, ReadSteps

\* At first the surfaces are in sync.
LEMMA FreshStarts ==
  ASSUME RecallInit
  PROVE  ClocksInv /\ CycleInv /\ TriplesInv /\ TuplesInv /\ FreshInv
<1>1. /\ rel = FirstTuples /\ cycle = NoCycle /\ req = Idle
      /\ real = {<<t[1], t[3]>> : t \in SyncedRelation}
      /\ gone = [x \in Pairs |-> IF x \in real THEN 0 ELSE Cap]
      /\ synced \in [Synced -> {Never, 0}]
  BY DEF RecallInit, Init
<1>2. ClocksInv
  BY <1>1, TimeAssumption DEF ClocksInv, Ages, Cap
<1>3. TriplesInv
  BY <1>1, TableAssumption DEF TriplesInv, Tuples
<1>4. TuplesInv
  <2>1. ASSUME NEW x \in Pairs, <<x[1], "member", x[2]>> \in rel
        PROVE  Recent(x)
    <3>1. x = <<x[1], x[2]>> /\ x[1] \in SyncScopes
      BY DEF Pairs
    <3>2. <<x[1], "member", x[2]>> \in SyncedRelation
      BY <2>1, <3>1 DEF SyncedRelation
    <3>3. x \in real
      BY <1>1, <3>1, <3>2
    <3>4. gone[x] = 0
      BY <1>1, <3>3
    <3> QED BY <1>1, <3>4, TimeAssumption DEF Recent, Never
  <2> QED BY <1>1, <2>1, SyncAssumption DEF TuplesInv
<1> QED BY <1>1, <1>2, <1>3, <1>4 DEF CycleInv, FreshInv

StaleInv == ClocksInv /\ CycleInv /\ TriplesInv /\ TuplesInv /\ FreshInv

\* Who has left a synced scope reads nothing of it once the bound on the sync and the
\* time a sync takes have passed, whatever administration and reads run meanwhile.
THEOREM StaleAlwaysBounded == RecallSpec => []StaleBounded
<1>1. EntitledInv /\ StaleInv /\ [RecallNext]_recallVars => StaleInv'
  BY ClocksKeep, CycleKeeps, TriplesKeep, TuplesKeep, FreshKeep DEF StaleInv, EntitledInv
<1>2. EntitledInv /\ StaleInv => StaleBounded
  <2> SUFFICES ASSUME EntitledInv, StaleInv, req.phase = "served", NEW x \in req.served,
                      NEW pair, pair = <<x[2], EffectiveUser(req.p)>>,
                      pair \in Pairs, Surface[x[2]] = req.flow.surface,
                      req.flow.surface \in Synced \ req.overtaken,
                      synced[req.flow.surface] # Never
               PROVE  gone[pair] - req.time <= Bound + CycleTime
    BY DEF StaleBounded
  <2>1. IsRead(req) /\ req # Idle
    BY Running DEF EntitledInv, IsRead, Idle
  <2>2. x[2] \in req.chain /\ req.open = {} /\ req.phase # "resolving"
    BY <2>1 DEF IsRead
  <2>3. Knows(req, pair)
    BY <2>2 DEF Knows
  <2>4. /\ gone[pair] <= synced[req.flow.surface] + CycleTime
        /\ synced[req.flow.surface] - req.time <= Bound
    BY <2>1, <2>2, <2>3 DEF StaleInv, FreshInv, Fresh
  <2>5. gone[pair] \in Int /\ synced[req.flow.surface] \in Int /\ req.time \in Int
    BY <2>1, TimeAssumption DEF StaleInv, ClocksInv, Ages, Cap, Never, IsRead
  <2> QED BY <2>4, <2>5, TimeAssumption
<1>3. RecallInit => EntitledInv /\ StaleInv
  BY RecallStarts, FreshStarts DEF EntitledInv, StaleInv
<1> QED BY <1>1, <1>2, <1>3, EntitledStep, PTL DEF RecallSpec
=============================================================================
