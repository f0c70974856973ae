----------------------------- MODULE ActionProofs -----------------------------
(***************************************************************************)
(* What a step of the service may do to a memory.  Every step turns every  *)
(* row in one of four ways (Turn): it alters the row without touching its  *)
(* lineage, it replaces it by a successor, it lets a challenger win, or it *)
(* inserts the row.  The action properties of the whole service follow     *)
(* from that relation, with the references between the rows (Linked).      *)
(* At the end: the jobs, the write path by itself, and that the parts that *)
(* are checked by themselves take steps of the whole.                      *)
(***************************************************************************)
EXTENDS MemoramumProofs

\* A staged row becomes active: confirmed, or past the floor that applies to it.
Rises(old, new) ==
  /\ old.status = "staged" /\ new.status = "active"
  /\ new.confirmed \/ (FloorApplies(new) => new.age >= FloorAge)

\* An allocated row is written; who it derives from and what replaced it stay.
Alters(old, new) ==
  \/ new = old
  \/ /\ old.status # "none" /\ new.status # "none"
     /\ new.superBy = old.superBy /\ new.from = old.from
     /\ new.held \in {NoMem, old.held}
     /\ \/ new.status = old.status
        \/ new.status \in {"archived", "tombstoned"}
        \/ Rises(old, new)

\* A row gives way to a successor: a human decided so, the row was staged, or the
\* successor of the active row says the same or is active and as trusted.
Replaced(t, u, m) ==
  LET new == u[m].superBy
  IN  /\ t[m].status # "none" /\ u[m].status = "deprecated"
      /\ new \in Rows(u) /\ u[new].held = NoMem
      /\ u[m].from = t[m].from /\ u[m].held = t[m].held
      /\ \/ t[new].held = m
         \/ t[m].status = "staged"
         \/ /\ t[m].status = "active"
            /\ \/ u[new].fact = t[m].fact
               \/ u[new].status = "active" /\ u[new].trust >= t[m].trust

\* A challenger wins: it now derives from the row it contradicted.
Wins(t, u, m) ==
  /\ t[m].status # "none"
  /\ u[m].held = NoMem /\ u[m].superBy = t[m].superBy
  /\ u[m].from \subseteq t[m].from \cup Rows(t)
  /\ u[m].status = t[m].status \/ Rises(t[m], u[m])

\* No more trusted than what the new row derives from, and staged with it.
Weakest(t, u, n) ==
  (u[n].origin = "consolidated" /\ ~u[n].confirmed)
  => \A s \in u[n].from :
       (u[s].superBy # n \/ u[s].fact = u[n].fact)
       => /\ u[n].trust <= t[s].trust
          /\ t[s].status = "staged" => u[n].status = "staged"

\* A row is inserted: it replaces nothing it is held against.
Enters(t, u, n) ==
  /\ t[n].status = "none" /\ u[n].status # "none"
  /\ u[n].superBy = NoMem
  /\ u[n].from \subseteq Rows(t)
  /\ u[n].held \in {NoMem} \cup (Rows(t) \ u[n].from)
  /\ Weakest(t, u, n)

Turn(t, u, m) ==
  \/ Alters(t[m], u[m])
  \/ Replaced(t, u, m)
  \/ Wins(t, u, m)
  \/ Enters(t, u, m)

Turns(t, u) == \A m \in Mem : Turn(t, u, m)

\* Rows name allocated rows only, and an id that is not allocated holds nothing.
Linked(t) ==
  \A m \in Mem :
    /\ t[m].status = "none" => t[m] = Unallocated
    /\ t[m].held # NoMem => t[m].held \in Rows(t)
    /\ t[m].superBy # NoMem => t[m].superBy \in Rows(t)
    /\ t[m].from \subseteq Rows(t)

\* No open contradiction is settled on the memory side.
Open(t) ==
  \A c \in Mem : LET old == t[c].held
                 IN  old # NoMem => t[old].superBy # c /\ old \notin t[c].from

-----------------------------------------------------------------------------
(* What the relation keeps.                                                *)

\* An allocated row stays allocated.
LEMMA RowsGrow ==
  ASSUME NEW t, NEW u, Turns(t, u)
  PROVE  Rows(t) \subseteq Rows(u)
  BY DEF Turns, Turn, Alters, Replaced, Wins, Rises, Enters, Rows

\* The references between the rows survive every turn.
LEMMA LinkedStep ==
  ASSUME NEW t, NEW u, Linked(t), Turns(t, u)
  PROVE  Linked(u)
<1> SUFFICES ASSUME NEW m \in Mem
             PROVE  /\ u[m].status = "none" => u[m] = Unallocated
                    /\ u[m].held # NoMem => u[m].held \in Rows(u)
                    /\ u[m].superBy # NoMem => u[m].superBy \in Rows(u)
                    /\ u[m].from \subseteq Rows(u)
  BY DEF Linked
<1>1. Rows(t) \subseteq Rows(u)
  BY RowsGrow
<1>2. /\ t[m].status = "none" => t[m] = Unallocated
      /\ t[m].held # NoMem => t[m].held \in Rows(t)
      /\ t[m].superBy # NoMem => t[m].superBy \in Rows(t)
      /\ t[m].from \subseteq Rows(t)
  BY DEF Linked
<1>3. CASE Alters(t[m], u[m])
  BY <1>1, <1>2, <1>3 DEF Alters
<1>4. CASE Replaced(t, u, m)
  BY <1>1, <1>2, <1>4 DEF Replaced
<1>5. CASE Wins(t, u, m)
  BY <1>1, <1>2, <1>5 DEF Wins, Rises
<1>6. CASE Enters(t, u, m)
  BY <1>1, <1>2, <1>6 DEF Enters
<1> QED BY <1>3, <1>4, <1>5, <1>6 DEF Turns, Turn

\* Contradictions stay open on both sides.
LEMMA OpenStep ==
  ASSUME NEW t, NEW u, Linked(t), Open(t), Turns(t, u), u \in [Mem -> Row]
  PROVE  Open(u)
<1> SUFFICES ASSUME NEW c \in Mem, u[c].held # NoMem
             PROVE  u[u[c].held].superBy # c /\ u[c].held \notin u[c].from
  BY DEF Open
<1> DEFINE old == u[c].held
<1>1. \/ u[c].held = t[c].held /\ u[c].from = t[c].from
      \/ /\ t[c].status = "none"
         /\ old \in Rows(t) \ u[c].from
  BY DEF Turns, Turn, Alters, Replaced, Wins, Enters
<1>2. old \notin u[c].from
  BY <1>1 DEF Open
<1>3. old \in Mem /\ t[old].superBy # c
  <2>1. CASE u[c].held = t[c].held /\ u[c].from = t[c].from
    BY <2>1 DEF Open, Linked, Rows
  <2>2. CASE t[c].status = "none" /\ old \in Rows(t)
    BY <2>2, MemNat DEF Linked, Rows
  <2> QED BY <1>1, <2>1, <2>2
<1>4. u[old].superBy \in {t[old].superBy, NoMem} \/ u[u[old].superBy].held = NoMem
  <2> HIDE DEF old
  <2> QED BY <1>3 DEF Turns, Turn, Alters, Replaced, Wins, Enters
<1>5. c # NoMem
  BY MemNat
<1> QED BY <1>2, <1>3, <1>4, <1>5

-----------------------------------------------------------------------------
(* Updates of one row.                                                     *)

\* A step that alters every row, or leaves it, turns every row.
LEMMA AltersAll ==
  ASSUME NEW t, NEW u, \A m \in Mem : Alters(t[m], u[m])
  PROVE  Turns(t, u)
  BY DEF Turns, Turn

\* A step that alters one row.
LEMMA AltersOne ==
  ASSUME NEW t \in [Mem -> Row], NEW m \in Mem, NEW row, Alters(t[m], row)
  PROVE  Turns(t, [t EXCEPT ![m] = row])
<1> DEFINE u == [t EXCEPT ![m] = row]
<1>1. u[m] = row /\ \A k \in Mem \ {m} : u[k] = t[k]
  OBVIOUS
<1> HIDE DEF u
<1>2. \A k \in Mem : Alters(t[k], u[k])
  BY <1>1 DEF Alters
<1>3. Turns(t, u)
  BY <1>2, AltersAll
<1> QED BY <1>3 DEF u

\* A row whose status and lineage do not change.
LEMMA Touched ==
  ASSUME NEW t \in [Mem -> Row], NEW m \in Rows(t), NEW row,
         row.status = t[m].status, row.superBy = t[m].superBy,
         row.from = t[m].from, row.held \in {NoMem, t[m].held}
  PROVE  Alters(t[m], row)
  BY DEF Rows, Alters

\* The micro-run of status promotion on a row that was touched.
LEMMA PromotedTurns ==
  ASSUME NEW t \in [Mem -> Row], NEW m \in Rows(t), NEW row \in Row,
         row.status = t[m].status, row.superBy = t[m].superBy,
         row.from = t[m].from, row.held = t[m].held
  PROVE  Turns(t, MaybePromote([t EXCEPT ![m] = row], m))
<1> DEFINE touched == [t EXCEPT ![m] = row]
<1>1. m \in Mem /\ touched \in [Mem -> Row] /\ touched[m] = row
  BY DEF Rows
<1>2. Alters(t[m], row)
  BY Touched
<1>3. CASE ~PromotionDue(touched, m)
  BY <1>1, <1>2, <1>3, AltersOne DEF MaybePromote
<1>4. CASE PromotionDue(touched, m)
  <2> DEFINE risen == [row EXCEPT !.status = "active"]
  <2>1. MaybePromote(touched, m) = [t EXCEPT ![m] = risen]
    BY <1>1, <1>4 DEF MaybePromote, Promote
  <2>2. /\ row.status = "staged"
        /\ row.confirmed \/ (FloorApplies(row) => row.age >= FloorAge)
    BY <1>1, <1>4 DEF PromotionDue
  <2>3. Rises(t[m], risen)
    BY <2>2 DEF Rises, FloorApplies, Row
  <2>4. Alters(t[m], risen)
    BY <2>3 DEF Alters, Rises, Row
  <2> HIDE DEF risen
  <2>5. Turns(t, [t EXCEPT ![m] = risen])
    BY <1>1, <2>4, AltersOne
  <2> QED BY <2>1, <2>5
<1> QED BY <1>3, <1>4

\* Archiving and erasing a row that was touched.
LEMMA EndsTurns ==
  ASSUME NEW t \in [Mem -> Row], NEW m \in Rows(t), NEW r \in Row,
         r.superBy = t[m].superBy, r.from = t[m].from, r.held \in {NoMem, t[m].held}
  PROVE  /\ Turns(t, [t EXCEPT ![m] = [r EXCEPT !.status = "archived"]])
         /\ Turns(t, [t EXCEPT ![m] = [r EXCEPT !.status = "tombstoned", !.fact = Blank]])
<1> DEFINE gone == [r EXCEPT !.status = "archived"]
           wiped == [r EXCEPT !.status = "tombstoned", !.fact = Blank]
<1>1. m \in Mem /\ t[m].status # "none"
  BY DEF Rows
<1>2. Alters(t[m], gone)
  BY <1>1 DEF Alters, Row
<1>3. Alters(t[m], wiped)
  BY <1>1 DEF Alters, Row
<1> HIDE DEF gone, wiped
<1>4. Turns(t, [t EXCEPT ![m] = gone]) /\ Turns(t, [t EXCEPT ![m] = wiped])
  BY <1>1, <1>2, <1>3, AltersOne
<1> QED BY <1>4 DEF gone, wiped

\* Forgetting a row that was touched.
LEMMA ForgetTurns ==
  ASSUME NEW t \in [Mem -> Row], NEW m \in Rows(t), NEW mode, NEW r \in Row,
         r.superBy = t[m].superBy, r.from = t[m].from, r.held = t[m].held
  PROVE  Turns(t, EnactForget([t EXCEPT ![m] = r], m, mode))
<1>0. m \in Mem
  BY DEF Rows
<1>1. EnactForget([t EXCEPT ![m] = r], m, mode)
        \in {[t EXCEPT ![m] = [r EXCEPT !.status = "archived"]],
             [t EXCEPT ![m] = [r EXCEPT !.status = "tombstoned", !.fact = Blank]]}
  BY <1>0 DEF EnactForget, Archive, Tombstone
<1> QED BY <1>1, EndsTurns

-----------------------------------------------------------------------------
(* Callers and reviewers.                                                  *)

\* The store is well formed, and an id that holds anything is allocated.
LEMMA StoreAt ==
  ASSUME IInv, Linked(mem), NEW m \in Mem
  PROVE  /\ mem \in [Mem -> Row] /\ mem[m] \in Row
         /\ (mem[m].status # "none" \/ mem[m].held # NoMem \/ mem[m].doubts > 0
             \/ mem[m].quarantine > 0) => m \in Rows(mem)
<1>1. mem[m].status = "none" => mem[m] = Unallocated
  BY DEF Linked
<1> QED BY <1>1, SoundAt DEF IInv, Rows, Unallocated, NoMem

\* The confirmation of a row, as the row it writes.
LEMMA ConfirmRow ==
  ASSUME NEW t \in [Mem -> Row], NEW m \in Mem
  PROVE  LET row == [t[m] EXCEPT !.confirmed = TRUE, !.used = TRUE]
         IN  /\ Confirm(t, m) = [t EXCEPT ![m] = row]
             /\ row \in Row /\ row.status = t[m].status /\ row.held = t[m].held
             /\ row.superBy = t[m].superBy /\ row.from = t[m].from /\ row.confirmed
<1>1. t[m] \in Row
  OBVIOUS
<1>2. Confirm(t, m) = [t EXCEPT ![m] = [t[m] EXCEPT !.confirmed = TRUE, !.used = TRUE]]
  BY DEF Confirm
<1> QED BY <1>1, <1>2 DEF Row

LEMMA DeliverTurns ==
  ASSUME IInv, Linked(mem), NEW m \in Mem, Deliver(m)
  PROVE  Turns(mem, mem')
<1> DEFINE row == [mem[m] EXCEPT !.used = TRUE]
<1>1. mem \in [Mem -> Row] /\ mem[m] \in Row /\ m \in Rows(mem)
  BY StoreAt DEF Deliver, Recallable, IsLive, Live
<1>2. mem' = [mem EXCEPT ![m] = row]
  BY <1>1 DEF Deliver
<1>3. Alters(mem[m], row)
  BY <1>1, Touched DEF Row
<1> HIDE DEF row
<1> QED BY <1>1, <1>2, <1>3, AltersOne

LEMMA ReinforceUsefulTurns ==
  ASSUME IInv, Linked(mem), NEW m \in Mem, ReinforceUseful(m)
  PROVE  Turns(mem, mem')
<1> DEFINE count == IF mem[m].useful < PromoteUseful THEN mem[m].useful + 1
                    ELSE mem[m].useful
           row == [mem[m] EXCEPT !.useful = count, !.used = TRUE]
<1>1. mem \in [Mem -> Row] /\ mem[m] \in Row /\ m \in Rows(mem)
  BY StoreAt DEF ReinforceUseful, IsLive, Live
<1>2. mem' = MaybePromote([mem EXCEPT ![m] = row], m)
  <2>1. [mem EXCEPT ![m].useful = IF @ < PromoteUseful THEN @ + 1 ELSE @,
                    ![m].used = TRUE] = [mem EXCEPT ![m] = row]
    BY <1>1
  <2> QED BY <2>1 DEF ReinforceUseful
<1>3. mem[m].useful \in 0..PromoteUseful
  BY <1>1 DEF Row
<1>4. count \in 0..PromoteUseful
  BY <1>3, BoundAssumption
<1> HIDE DEF count
<1>5. /\ row \in Row /\ row.status = mem[m].status /\ row.superBy = mem[m].superBy
      /\ row.from = mem[m].from /\ row.held = mem[m].held
  BY <1>1, <1>4 DEF Row
<1> HIDE DEF row
<1> QED BY <1>1, <1>2, <1>5, PromotedTurns

LEMMA ReinforceWrongTurns ==
  ASSUME IInv, Linked(mem), NEW m \in Mem, ReinforceWrong(m)
  PROVE  Turns(mem, mem')
<1> DEFINE row == [mem[m] EXCEPT !.doubts = @ + 1, !.used = TRUE]
<1>1. mem \in [Mem -> Row] /\ mem[m] \in Row /\ m \in Rows(mem)
  BY StoreAt DEF ReinforceWrong, IsLive, Live
<1>2. mem' = [mem EXCEPT ![m] = row]
  BY <1>1 DEF ReinforceWrong
<1>3. Alters(mem[m], row)
  <2>1. /\ row.status = mem[m].status /\ row.superBy = mem[m].superBy
        /\ row.from = mem[m].from /\ row.held = mem[m].held
    BY <1>1 DEF Row
  <2> HIDE DEF row
  <2> QED BY <1>1, <2>1, Touched
<1> HIDE DEF row
<1> QED BY <1>1, <1>2, <1>3, AltersOne

LEMMA ReviewConfirmTurns ==
  ASSUME IInv, Linked(mem), NEW m \in Mem, ReviewConfirm(m)
  PROVE  Turns(mem, mem')
<1> DEFINE row == [mem[m] EXCEPT !.confirmed = TRUE, !.used = TRUE, !.status = "active"]
<1>1. mem \in [Mem -> Row] /\ mem[m] \in Row
  BY StoreAt
<1>2. mem' = [mem EXCEPT ![m] = row]
  BY <1>1 DEF ReviewConfirm, Promote, Confirm
<1>3. Rises(mem[m], row)
  BY <1>1 DEF ReviewConfirm, Rises, Row
<1>4. Alters(mem[m], row)
  BY <1>1, <1>3 DEF Alters, Rises, Row
<1> HIDE DEF row
<1> QED BY <1>1, <1>2, <1>4, AltersOne

\* A row goes, or stays, and its item is closed.
LEMMA ClosedTurns ==
  ASSUME NEW t \in [Mem -> Row], NEW m \in Rows(t)
  PROVE  /\ Turns(t, [Archive(t, m) EXCEPT ![m].held = NoMem])
         /\ Turns(t, [t EXCEPT ![m].held = NoMem])
<1> DEFINE gone == [t[m] EXCEPT !.status = "archived", !.held = NoMem]
           open == [t[m] EXCEPT !.held = NoMem]
<1>1. m \in Mem /\ t[m] \in Row /\ t[m].status # "none"
  BY DEF Rows
<1>2. [Archive(t, m) EXCEPT ![m].held = NoMem] = [t EXCEPT ![m] = gone]
  BY <1>1 DEF Archive
<1>3. [t EXCEPT ![m].held = NoMem] = [t EXCEPT ![m] = open]
  BY <1>1
<1>4. Alters(t[m], gone)
  BY <1>1 DEF Alters, Row
<1>5. Alters(t[m], open)
  BY <1>1 DEF Alters, Row
<1> HIDE DEF gone, open
<1>6. Turns(t, [t EXCEPT ![m] = gone]) /\ Turns(t, [t EXCEPT ![m] = open])
  BY <1>1, <1>4, <1>5, AltersOne
<1> QED BY <1>2, <1>3, <1>6

LEMMA ReviewRejectTurns ==
  ASSUME IInv, Linked(mem), NEW m \in Mem, ReviewReject(m)
  PROVE  Turns(mem, mem')
  BY StoreAt, ClosedTurns DEF ReviewReject

LEMMA ResolveRejectTurns ==
  ASSUME IInv, Linked(mem), NEW c \in Mem, ResolveReject(c)
  PROVE  Turns(mem, mem')
<1>1. mem \in [Mem -> Row] /\ c \in Rows(mem)
  BY StoreAt DEF ResolveReject
<1>2. mem' \in {[Archive(mem, c) EXCEPT ![c].held = NoMem], [mem EXCEPT ![c].held = NoMem]}
  BY DEF ResolveReject
<1> QED BY <1>1, <1>2, ClosedTurns

LEMMA ResolveDoubtTurns ==
  ASSUME IInv, Linked(mem), NEW m \in Mem, ResolveDoubt(m)
  PROVE  Turns(mem, mem')
<1> DEFINE row == [mem[m] EXCEPT !.doubts = @ - 1]
<1>1. mem \in [Mem -> Row] /\ mem[m] \in Row /\ m \in Rows(mem)
  BY StoreAt DEF ResolveDoubt
<1>2. mem' = [mem EXCEPT ![m] = row]
  BY <1>1 DEF ResolveDoubt
<1>3. Alters(mem[m], row)
  BY <1>1, Touched DEF Row
<1> HIDE DEF row
<1> QED BY <1>1, <1>2, <1>3, AltersOne

\* The acceptance of a challenger, as the row it writes.
LEMMA AcceptRow ==
  ASSUME NEW t \in [Mem -> Row], NEW c \in Mem
  PROVE  LET row == [t[c] EXCEPT !.status = IF t[c].status = "staged" THEN "active" ELSE @,
                                 !.confirmed = TRUE, !.used = TRUE, !.held = NoMem]
         IN  /\ Accept(t, c) = [t EXCEPT ![c] = row] /\ row \in Row
             /\ row.held = NoMem /\ row.superBy = t[c].superBy /\ row.from = t[c].from
             /\ row.status = t[c].status \/ Rises(t[c], row)
<1> DEFINE row == [t[c] EXCEPT !.status = IF t[c].status = "staged" THEN "active" ELSE @,
                               !.confirmed = TRUE, !.used = TRUE, !.held = NoMem]
<1>1. t[c] \in Row
  OBVIOUS
<1>2. Accept(t, c) = [t EXCEPT ![c] = row]
  BY <1>1 DEF Accept, Promote, Confirm, Row
<1>3. row.held = NoMem /\ row.superBy = t[c].superBy /\ row.from = t[c].from
  BY <1>1 DEF Row
<1>4. row.status = t[c].status \/ Rises(t[c], row)
  BY <1>1 DEF Rises, Row
<1>5. 0 \in 0..MaxMem
  BY BoundAssumption
<1>6. row \in Row
  BY <1>1, <1>5 DEF Row, Statuses, Live, NoMem
<1> QED BY <1>2, <1>3, <1>4, <1>6

LEMMA ResolveSupersedeTurns ==
  ASSUME IInv, Linked(mem), NEW c \in Mem, ResolveSupersede(c)
  PROVE  Turns(mem, mem')
<1> DEFINE old == mem[c].held
           won == [mem[c] EXCEPT
                     !.status = IF mem[c].status = "staged" THEN "active" ELSE @,
                     !.confirmed = TRUE, !.used = TRUE, !.held = NoMem]
           t   == [mem EXCEPT ![c] = won]
<1>1. /\ mem \in [Mem -> Row] /\ c \in Rows(mem) /\ mem[c] \in Row
      /\ old # NoMem
  BY StoreAt DEF ResolveSupersede
<1>2. old \in Rows(mem) /\ old \in Mem /\ old # c
  <2>1. old \in Mem /\ old < c
    BY <1>1, HeldOlder
  <2> QED BY <1>1, <2>1 DEF Linked, Mem
<1>3. /\ Accept(mem, c) = t /\ won \in Row /\ won.held = NoMem
      /\ won.superBy = mem[c].superBy /\ won.from = mem[c].from
      /\ won.status = mem[c].status \/ Rises(mem[c], won)
  BY <1>1, AcceptRow
<1>4. mem' = Supersede(t, old, c)
  BY <1>3 DEF ResolveSupersede
<1> HIDE DEF won
<1>5. /\ mem'[old] = [mem[old] EXCEPT !.status = "deprecated", !.closed = TRUE, !.superBy = c]
      /\ mem'[c] = [won EXCEPT !.from = @ \cup {old}]
      /\ \A m \in Mem \ {old, c} : mem'[m] = mem[m]
  BY <1>1, <1>2, <1>4 DEF Supersede
<1> HIDE DEF t, old
<1>6. Wins(mem, mem', c)
  <2>1. /\ mem'[c].held = NoMem /\ mem'[c].superBy = mem[c].superBy
        /\ mem'[c].from = mem[c].from \cup {old}
    BY <1>3, <1>5 DEF Row
  <2>2. mem'[c].status = mem[c].status \/ Rises(mem[c], mem'[c])
    BY <1>3, <1>5 DEF Row, Rises, FloorApplies
  <2> QED BY <1>1, <1>2, <2>1, <2>2 DEF Wins, Rows
<1>7. Replaced(mem, mem', old)
  <2>1. mem[old] \in Row
    BY <1>1, <1>2
  <2>2. /\ mem'[old].status = "deprecated" /\ mem'[old].superBy = c
        /\ mem'[old].from = mem[old].from /\ mem'[old].held = mem[old].held
    BY <1>5, <2>1 DEF Row
  <2>3. mem'[c].held = NoMem /\ c \in Rows(mem')
    BY <1>1, <1>6 DEF Wins, Rises, Rows
  <2>4. mem[c].held = old
    BY DEF old
  <2> QED BY <1>2, <2>2, <2>3, <2>4 DEF Replaced, Rows
<1> QED BY <1>5, <1>6, <1>7 DEF Turns, Turn, Alters

LEMMA ResolveKeepBothTurns ==
  ASSUME IInv, Linked(mem), NEW c \in Mem, ResolveKeepBoth(c)
  PROVE  Turns(mem, mem')
<1> DEFINE old == mem[c].held
           won == [mem[c] EXCEPT
                     !.status = IF mem[c].status = "staged" THEN "active" ELSE @,
                     !.confirmed = TRUE, !.used = TRUE, !.held = NoMem]
           t   == [mem EXCEPT ![c] = won]
<1>1. /\ mem \in [Mem -> Row] /\ c \in Rows(mem) /\ mem[c] \in Row
      /\ old # NoMem
  BY StoreAt DEF ResolveKeepBoth
<1>2. old \in Rows(mem) /\ old \in Mem /\ old # c
  <2>1. old \in Mem /\ old < c
    BY <1>1, HeldOlder
  <2> QED BY <1>1, <2>1 DEF Linked, Mem
<1>3. /\ Accept(mem, c) = t /\ won \in Row /\ won.held = NoMem
      /\ won.superBy = mem[c].superBy /\ won.from = mem[c].from
      /\ won.status = mem[c].status \/ Rises(mem[c], won)
  BY <1>1, AcceptRow
<1>4. mem' = [t EXCEPT ![old].closed = TRUE, ![old].confirmed = TRUE, ![old].used = TRUE]
  BY <1>3 DEF ResolveKeepBoth
<1> HIDE DEF won
<1>5. /\ mem'[old] = [mem[old] EXCEPT !.closed = TRUE, !.confirmed = TRUE, !.used = TRUE]
      /\ mem'[c] = won
      /\ \A m \in Mem \ {old, c} : mem'[m] = mem[m]
  BY <1>1, <1>2, <1>4
<1> HIDE DEF t, old
<1>6. Wins(mem, mem', c)
  BY <1>1, <1>3, <1>5 DEF Wins, Rows
<1>7. Alters(mem[old], mem'[old])
  <2>1. mem[old] \in Row
    BY <1>1, <1>2
  <2>2. /\ mem'[old].status = mem[old].status /\ mem'[old].superBy = mem[old].superBy
        /\ mem'[old].from = mem[old].from /\ mem'[old].held = mem[old].held
    BY <1>5, <2>1 DEF Row
  <2> QED BY <1>2, <2>2 DEF Alters, Rows
<1> QED BY <1>5, <1>6, <1>7 DEF Turns, Turn, Alters

-----------------------------------------------------------------------------
(* Calls that may park, and what becomes of them.                          *)

\* The id of an insertion is not allocated, and the others keep their order.
LEMMA FreshId ==
  ASSUME NEW t, NEW n \in Mem, Fresh(t, n)
  PROVE  t[n].status = "none" /\ \A m \in Rows(t) : m \in Mem /\ m # n
  BY BoundAssumption DEF Fresh, Rows, Mem

\* Writing a new row under a fresh id.
LEMMA InsertTurns ==
  ASSUME NEW t \in [Mem -> Row], NEW n \in Mem, Fresh(t, n), NEW m \in Rows(t),
         NEW r, Alters(t[m], r), NEW row, row.status # "none",
         row.superBy = NoMem, row.from = {m}, row.held = NoMem,
         row.trust <= t[m].trust, t[m].status = "staged" => row.status = "staged"
  PROVE  Turns(t, [[t EXCEPT ![m] = r] EXCEPT ![n] = row])
<1> DEFINE u == [[t EXCEPT ![m] = r] EXCEPT ![n] = row]
<1>1. t[n].status = "none" /\ m \in Mem /\ m # n
  BY FreshId
<1>2. u[n] = row /\ u[m] = r /\ \A k \in Mem \ {m, n} : u[k] = t[k]
  BY <1>1
<1> HIDE DEF u
<1>3. Weakest(t, u, n)
  BY <1>2 DEF Weakest
<1>4. Enters(t, u, n)
  BY <1>1, <1>2, <1>3 DEF Enters
<1>5. Turns(t, u)
  BY <1>2, <1>4 DEF Turns, Turn, Alters
<1> QED BY <1>5 DEF u

\* A memory that was touched moves, or gets a promoted form.
LEMMA PromotionTurns ==
  ASSUME NEW t \in [Mem -> Row], NEW m \in Rows(t), NEW r \in Row, NEW u,
         r.status = t[m].status, r.trust = t[m].trust, r.superBy = t[m].superBy,
         r.from = t[m].from, r.held = t[m].held, NEW a, NEW s,
         EnactPromotion([t EXCEPT ![m] = r], u, m, a, s)
  PROVE  Turns(t, u)
<1> DEFINE v == [t EXCEPT ![m] = r]
<1>0. m \in Mem /\ v[m] = r /\ t[m] \in Row
  BY DEF Rows
<1>1. CASE u = [v EXCEPT ![m].scope = s]
  <2> DEFINE moved == [r EXCEPT !.scope = s]
  <2>1. u = [t EXCEPT ![m] = moved]
    BY <1>0, <1>1
  <2>2. /\ moved.status = t[m].status /\ moved.superBy = t[m].superBy
        /\ moved.from = t[m].from /\ moved.held = t[m].held
    BY DEF Row
  <2> HIDE DEF moved
  <2>3. Alters(t[m], moved)
    BY <2>2, Touched
  <2> QED BY <1>0, <2>1, <2>3, AltersOne
<1>2. ASSUME NEW n \in Mem, Fresh(v, n), u = [v EXCEPT ![n] = PromotedCopy(v, m, a, s)]
      PROVE  Turns(t, u)
  <2> DEFINE row == PromotedCopy(v, m, a, s)
  <2>1. Fresh(t, n)
    <3>1. \A k \in Mem : (v[k].status = "none") <=> (t[k].status = "none")
      BY <1>0
    <3> HIDE DEF v
    <3> QED BY <1>2, <3>1 DEF Fresh
  <2>2. /\ row.status = t[m].status /\ row.superBy = NoMem /\ row.from = {m}
        /\ row.held = NoMem /\ row.trust = t[m].trust
    BY <1>0 DEF PromotedCopy, Unallocated
  <2>3. t[m].trust <= t[m].trust /\ t[m].status # "none"
    BY <1>0 DEF Row, TrustLevels, Rows
  <2>4. Alters(t[m], r)
    BY Touched
  <2> HIDE DEF row
  <2>5. Turns(t, [[t EXCEPT ![m] = r] EXCEPT ![n] = row])
    BY <2>1, <2>2, <2>3, <2>4, InsertTurns
  <2> QED BY <1>2, <2>5 DEF row
<1> QED BY <1>1, <1>2 DEF EnactPromotion

LEMMA PromoteScopeTurns ==
  ASSUME IInv, Linked(mem), NEW a \in Agents, NEW m \in Mem, NEW s \in Scopes,
         PromoteScope(a, m, s)
  PROVE  Turns(mem, mem')
<1>1. mem \in [Mem -> Row] /\ mem[m] \in Row /\ m \in Rows(mem)
  BY StoreAt DEF PromoteScope, Promotable, IsLive, Live
<1>2. mem = [mem EXCEPT ![m] = mem[m]]
  BY <1>1
<1>3. EnactPromotion([mem EXCEPT ![m] = mem[m]], mem', m, a, s)
  BY <1>2 DEF PromoteScope
<1> QED BY <1>1, <1>3, PromotionTurns

LEMMA ApprovePromoteTurns ==
  ASSUME IInv, Linked(mem), NEW p \in Slot, ApprovePromote(p)
  PROVE  Turns(mem, mem')
<1> DEFINE m == asks[p].about
           row == [mem[m] EXCEPT !.confirmed = TRUE, !.used = TRUE]
<1>1. m \in Rows(mem) /\ m \in Mem /\ mem \in [Mem -> Row] /\ mem[m] \in Row
  BY SoundAt DEF ApprovePromote, StillThere, Rows, IInv
<1> HIDE DEF m
<1>2. /\ Confirm(mem, m) = [mem EXCEPT ![m] = row] /\ row \in Row
      /\ row.status = mem[m].status /\ row.held = mem[m].held
      /\ row.superBy = mem[m].superBy /\ row.from = mem[m].from
  BY <1>1, ConfirmRow
<1>3. row.trust = mem[m].trust
  BY <1>1 DEF Row
<1>4. EnactPromotion([mem EXCEPT ![m] = row], mem', m, asks[p].by, asks[p].target)
  BY <1>2 DEF ApprovePromote, m
<1> HIDE DEF row
<1> QED BY <1>1, <1>2, <1>3, <1>4, PromotionTurns

LEMMA ApproveForgetTurns ==
  ASSUME IInv, Linked(mem), NEW p \in Slot, ApproveForget(p)
  PROVE  Turns(mem, mem')
<1> DEFINE m == asks[p].about
           row == [mem[m] EXCEPT !.confirmed = TRUE, !.used = TRUE]
<1>1. m \in Rows(mem) /\ m \in Mem /\ mem \in [Mem -> Row] /\ mem[m] \in Row
  BY SoundAt DEF ApproveForget, StillThere, Rows, IInv
<1> HIDE DEF m
<1>2. /\ Confirm(mem, m) = [mem EXCEPT ![m] = row] /\ row \in Row
      /\ row.status = mem[m].status /\ row.held = mem[m].held
      /\ row.superBy = mem[m].superBy /\ row.from = mem[m].from
  BY <1>1, ConfirmRow
<1>3. mem' = EnactForget([mem EXCEPT ![m] = row], m, asks[p].mode)
  BY <1>2 DEF ApproveForget, m
<1> HIDE DEF row
<1> QED BY <1>1, <1>2, <1>3, ForgetTurns

\* An agent or a user forgets a row of the store.
LEMMA ForgottenTurns ==
  ASSUME IInv, Linked(mem), NEW m \in Mem, NEW mode, mem[m].status # "none",
         mem' = EnactForget(mem, m, mode)
  PROVE  Turns(mem, mem')
<1>1. mem \in [Mem -> Row] /\ mem[m] \in Row /\ m \in Rows(mem)
  BY StoreAt
<1>2. mem = [mem EXCEPT ![m] = mem[m]]
  BY <1>1
<1>3. mem' = EnactForget([mem EXCEPT ![m] = mem[m]], m, mode)
  BY <1>2
<1> QED BY <1>1, <1>3, ForgetTurns

-----------------------------------------------------------------------------
(* Time, the nightly jobs and the quarantine.                              *)

LEMMA ElapseTurns ==
  ASSUME IInv, Elapse
  PROVE  Turns(mem, mem')
<1>1. PICK k \in Rows(mem) :
        mem' = [m \in Mem |-> IF m \in Rows(mem) /\ m <= k /\ mem[m].age < MaxAge
                              THEN [mem[m] EXCEPT !.age = @ + 1] ELSE mem[m]]
  BY DEF Elapse
<1>2. ASSUME NEW m \in Mem PROVE Alters(mem[m], mem'[m])
  <2>1. mem[m] \in Row
    BY SoundAt DEF IInv
  <2>2. CASE m \in Rows(mem) /\ m <= k /\ mem[m].age < MaxAge
    <3> DEFINE age == mem[m].age + 1
    <3>1. mem'[m] = [mem[m] EXCEPT !.age = age]
      BY <1>1, <2>2
    <3> HIDE DEF age
    <3>2. /\ mem'[m].status = mem[m].status /\ mem'[m].superBy = mem[m].superBy
          /\ mem'[m].from = mem[m].from /\ mem'[m].held = mem[m].held
      BY <2>1, <3>1 DEF Row
    <3> QED BY <2>2, <3>2 DEF Alters, Rows
  <2>3. CASE ~(m \in Rows(mem) /\ m <= k /\ mem[m].age < MaxAge)
    BY <1>1, <2>3 DEF Alters
  <2> QED BY <2>2, <2>3
<1> QED BY <1>2, AltersAll

LEMMA ReviewContradictionsTurns ==
  ASSUME IInv, Linked(mem), ReviewContradictions
  PROVE  Turns(mem, mem')
<1>1. ASSUME NEW m \in Mem PROVE Alters(mem[m], mem'[m])
  <2>1. mem[m] \in Row
    BY SoundAt DEF IInv
  <2>2. CASE mem[m].held # NoMem /\ mem[m].age >= ReviewAge
    <3> DEFINE status == IF mem[m].status = "staged" THEN "archived" ELSE mem[m].status
    <3>1. mem'[m] = [mem[m] EXCEPT !.held = NoMem, !.status = status]
      BY <2>2 DEF ReviewContradictions
    <3>2. mem[m].status # "none"
      BY <2>2, StoreAt DEF Rows
    <3>3. status = "archived" \/ status = mem[m].status
      OBVIOUS
    <3> HIDE DEF status
    <3> QED BY <2>1, <3>1, <3>2, <3>3 DEF Alters, Row
  <2>3. CASE ~(mem[m].held # NoMem /\ mem[m].age >= ReviewAge)
    BY <2>3 DEF Alters, ReviewContradictions
  <2> QED BY <2>2, <2>3
<1> QED BY <1>1, AltersAll

LEMMA PromoteStagedTurns ==
  ASSUME IInv, PromoteStaged
  PROVE  Turns(mem, mem')
<1>1. ASSUME NEW m \in Mem PROVE Alters(mem[m], mem'[m])
  <2>1. mem[m] \in Row
    BY SoundAt DEF IInv
  <2>2. CASE PromotionDue(mem, m)
    <3>1. mem'[m] = [mem[m] EXCEPT !.status = "active"]
      BY <2>2 DEF PromoteStaged
    <3>2. /\ mem[m].status = "staged"
          /\ mem[m].confirmed \/ (FloorApplies(mem[m]) => mem[m].age >= FloorAge)
      BY <2>2 DEF PromotionDue
    <3>3. Rises(mem[m], mem'[m])
      BY <2>1, <3>1, <3>2 DEF Rises, FloorApplies, Row
    <3> QED BY <2>1, <3>1, <3>2, <3>3 DEF Alters, Rises, Row
  <2>3. CASE ~PromotionDue(mem, m)
    BY <2>3 DEF Alters, PromoteStaged
  <2> QED BY <2>2, <2>3
<1> QED BY <1>1, AltersAll

\* A sweep archives, erases or marks a row that is live or deprecated.
LEMMA SweptAlters ==
  ASSUME NEW row \in Row, NEW faded \in BOOLEAN, NEW expired \in BOOLEAN,
         NEW hard \in BOOLEAN, NEW lapsed \in BOOLEAN
  PROVE  Alters(row, Swept(row, faded, expired, hard, lapsed))
<1> DEFINE idle    == IF Idle(row) THEN [row EXCEPT !.status = "archived"] ELSE row
           decayed == IF idle.status = "active" /\ faded
                      THEN IF row.proposed THEN [idle EXCEPT !.status = "archived"]
                                           ELSE [idle EXCEPT !.proposed = TRUE]
                      ELSE idle
           ended   == IF IsLive(decayed) /\ expired
                      THEN IF hard
                           THEN [decayed EXCEPT !.status = "tombstoned", !.fact = Blank]
                           ELSE [decayed EXCEPT !.status = "archived"]
                      ELSE decayed
           Ok(r)   == r \in Row /\ Alters(row, r)
<1>1. ASSUME NEW r, Ok(r), row.status # "none"
      PROVE  Ok([r EXCEPT !.status = "archived"])
  BY <1>1 DEF Row, Alters, Statuses
<1>2. ASSUME NEW r, Ok(r), row.status # "none" PROVE Ok([r EXCEPT !.proposed = TRUE])
  BY <1>2 DEF Row, Alters, Rises, FloorApplies
<1>3. ASSUME NEW r, Ok(r), row.status # "none"
      PROVE  Ok([r EXCEPT !.status = "tombstoned", !.fact = Blank])
  <2> DEFINE wiped == [r EXCEPT !.status = "tombstoned", !.fact = Blank]
  <2>1. wiped \in Row
    BY <1>3 DEF Row, Statuses
  <2>2. Alters(row, wiped)
    BY <1>3 DEF Row, Alters
  <2> QED BY <2>1, <2>2
<1>4. Ok(row)
  BY DEF Alters
<1>5. CASE row.status = "none"
  BY <1>5 DEF Swept, Idle, IsLive, Live, Alters
<1>6. CASE row.status # "none"
  <2> HIDE DEF Ok
  <2>1. Ok(idle)
    BY <1>1, <1>4, <1>6
  <2> HIDE DEF idle
  <2>2. Ok(decayed)
    BY <1>1, <1>2, <1>6, <2>1
  <2> HIDE DEF decayed
  <2>3. Ok(ended)
    BY <1>1, <1>3, <1>6, <2>2
  <2> HIDE DEF ended
  <2>4. Ok(IF row.status = "deprecated" /\ lapsed
           THEN [ended EXCEPT !.status = "archived"] ELSE ended)
    BY <1>1, <1>6, <2>3
  <2> QED BY <2>4 DEF Swept, Ok, idle, decayed, ended
<1> QED BY <1>5, <1>6

LEMMA SweepTurns ==
  ASSUME IInv, SweepNext
  PROVE  Turns(mem, mem')
<1> SUFFICES ASSUME NEW faded, NEW expired, NEW hard, NEW lapsed,
                    Sweep(faded, expired, hard, lapsed)
             PROVE  Turns(mem, mem')
  BY DEF SweepNext
<1>1. ASSUME NEW m \in Mem PROVE Alters(mem[m], mem'[m])
  <2>1. mem[m] \in Row
    BY SoundAt DEF IInv
  <2>2. mem'[m] = Swept(mem[m], m \in faded, m \in expired, m \in hard, m \in lapsed)
    BY DEF Sweep
  <2>3. /\ (m \in faded) \in BOOLEAN /\ (m \in expired) \in BOOLEAN
        /\ (m \in hard) \in BOOLEAN /\ (m \in lapsed) \in BOOLEAN
    OBVIOUS
  <2> QED BY <2>1, <2>2, <2>3, SweptAlters
<1> QED BY <1>1, AltersAll

\* A quarantine item is opened or closed.
LEMMA ItemAlters ==
  ASSUME NEW row \in Row, row.status # "none", NEW i
  PROVE  Alters(row, [row EXCEPT !.quarantine = i])
  BY DEF Alters, Row

LEMMA HygieneTurns ==
  ASSUME IInv, NEW blocked, Hygiene(blocked)
  PROVE  Turns(mem, mem')
<1>1. ASSUME NEW m \in Mem PROVE Alters(mem[m], mem'[m])
  <2>1. mem[m] \in Row
    BY SoundAt DEF IInv
  <2>2. CASE m \in blocked
    <3>1. mem'[m] = [mem[m] EXCEPT !.quarantine = mem[m].quarantine + 1]
      BY <2>2 DEF Hygiene
    <3>2. mem[m].status # "none"
      BY <2>2 DEF Hygiene, IsLive, Live
    <3> QED BY <2>1, <3>1, <3>2, ItemAlters
  <2>3. CASE m \notin blocked /\ mem[m].status = "tombstoned"
    <3>1. mem'[m] = [mem[m] EXCEPT !.fact = Blank]
      BY <2>3 DEF Hygiene
    <3> QED BY <2>1, <2>3, <3>1 DEF Row, Alters
  <2>4. CASE m \notin blocked /\ mem[m].status # "tombstoned"
    BY <2>4 DEF Hygiene, Alters
  <2> QED BY <2>2, <2>3, <2>4
<1> QED BY <1>1, AltersAll

LEMMA QuarantineTurns ==
  ASSUME IInv, NEW seeds, Quarantine(seeds)
  PROVE  Turns(mem, mem')
<1>1. ASSUME NEW m \in Mem PROVE Alters(mem[m], mem'[m])
  <2>1. mem[m] \in Row
    BY SoundAt DEF IInv
  <2>2. \/ mem'[m] = mem[m]
        \/ /\ mem[m].status # "none"
           /\ mem'[m] = [mem[m] EXCEPT !.quarantine = mem[m].quarantine + 1]
    BY DEF Quarantine, Quarantined, Live
  <2>3. CASE mem'[m] = mem[m]
    BY <2>3 DEF Alters
  <2> QED BY <2>1, <2>2, <2>3, ItemAlters
<1> QED BY <1>1, AltersAll

LEMMA RestoreItemTurns ==
  ASSUME IInv, Linked(mem), NEW m \in Mem, RestoreItem(m)
  PROVE  Turns(mem, mem')
<1> DEFINE i == mem[m].quarantine - 1
<1>1. mem \in [Mem -> Row] /\ mem[m] \in Row /\ m \in Rows(mem)
  BY StoreAt DEF RestoreItem
<1>2. mem' = [mem EXCEPT ![m] = [mem[m] EXCEPT !.quarantine = i]]
  BY <1>1 DEF RestoreItem
<1> HIDE DEF i
<1>3. Alters(mem[m], [mem[m] EXCEPT !.quarantine = i])
  BY <1>1, ItemAlters DEF Rows
<1> QED BY <1>1, <1>2, <1>3, AltersOne

LEMMA TombstoneItemTurns ==
  ASSUME IInv, Linked(mem), NEW m \in Mem, TombstoneItem(m)
  PROVE  Turns(mem, mem')
<1> DEFINE i == mem[m].quarantine - 1
           row == [mem[m] EXCEPT !.status = "tombstoned", !.fact = Blank, !.quarantine = i]
<1>1. mem \in [Mem -> Row] /\ mem[m] \in Row /\ m \in Rows(mem)
  BY StoreAt DEF TombstoneItem
<1>2. mem' = [mem EXCEPT ![m] = row]
  BY <1>1 DEF TombstoneItem, Tombstone
<1> HIDE DEF i
<1>3. Alters(mem[m], row)
  BY <1>1 DEF Alters, Row, Rows
<1> HIDE DEF row
<1> QED BY <1>1, <1>2, <1>3, AltersOne

-----------------------------------------------------------------------------
(* The write pipeline.                                                     *)

\* What a candidate's row says when it is written.
LEMMA NewRowFields ==
  ASSUME NEW t, NEW w, NEW status
  PROVE  LET row == NewRow(t, w, status)
         IN  /\ row.status = status /\ row.entered = status
             /\ row.fact = w.fact /\ row.scope = w.scope
             /\ row.trust = DeriveTrust(t, w) /\ row.origin = w.origin
             /\ row.superBy = NoMem /\ row.from = w.srcs /\ row.held = NoMem
             /\ ~row.confirmed /\ ~row.reobserved
             /\ row.evidence = EvidenceOf(w) \cup UNION {t[s].evidence : s \in w.srcs}
<1> DEFINE trust == DeriveTrust(t, w)
           evidence == EvidenceOf(w) \cup UNION {t[s].evidence : s \in w.srcs}
<1>1. NewRow(t, w, status)
        = [Unallocated EXCEPT
             !.status = status, !.entered = status, !.fact = w.fact, !.scope = w.scope,
             !.trust = trust, !.origin = w.origin, !.agent = w.agent,
             !.about = w.about, !.from = w.srcs, !.evidence = evidence]
  BY DEF NewRow
<1> HIDE DEF trust, evidence
<1>2. LET row == NewRow(t, w, status)
      IN  /\ row.status = status /\ row.entered = status
          /\ row.fact = w.fact /\ row.scope = w.scope
          /\ row.trust = trust /\ row.origin = w.origin
          /\ row.superBy = NoMem /\ row.from = w.srcs /\ row.held = NoMem
          /\ ~row.confirmed /\ ~row.reobserved
          /\ row.evidence = evidence
  BY <1>1 DEF Unallocated
<1> QED BY <1>2 DEF trust, evidence

\* What an insertion writes: the new row, the row it replaces, and nothing else.
Inserted(t, u, n, w, status, old, hold, confirmed) ==
  /\ \A k \in Mem \ {n, old} : u[k] = t[k]
  /\ old # NoMem =>
       u[old] = IF hold THEN t[old]
                ELSE [t[old] EXCEPT !.status = "deprecated", !.closed = TRUE, !.superBy = n]
  /\ u[n].status = IF confirmed /\ status = "staged" /\ ~hold THEN "active" ELSE status
  /\ u[n].entered = status /\ u[n].fact = w.fact /\ u[n].scope = w.scope
  /\ u[n].trust = DeriveTrust(t, w) /\ u[n].origin = w.origin
  /\ u[n].confirmed = confirmed /\ ~u[n].reobserved
  /\ u[n].superBy = NoMem
  /\ u[n].from = IF old # NoMem /\ ~hold THEN w.srcs \cup {old} ELSE w.srcs
  /\ u[n].held = IF hold THEN old ELSE NoMem
  /\ u[n].evidence = EvidenceOf(w) \cup UNION {t[s].evidence : s \in w.srcs}

\* The insertion, computed from the row of the candidate.
Written(t, n, row, status, old, hold, confirmed) ==
  LET inserted == [t EXCEPT ![n] = row]
      linked   == IF old = NoMem THEN inserted
                  ELSE IF hold THEN [inserted EXCEPT ![n].held = old]
                  ELSE Supersede(inserted, old, n)
  IN  IF ~confirmed THEN linked
      ELSE IF status = "staged" /\ ~hold THEN Promote(Confirm(linked, n), n)
      ELSE Confirm(linked, n)

\* What it writes, in terms of that row.
WrittenRows(t, u, n, row, status, old, hold, confirmed) ==
  /\ \A k \in Mem \ {n, old} : u[k] = t[k]
  /\ old # NoMem =>
       u[old] = IF hold THEN t[old]
                ELSE [t[old] EXCEPT !.status = "deprecated", !.closed = TRUE, !.superBy = n]
  /\ u[n].status = IF confirmed /\ status = "staged" /\ ~hold THEN "active" ELSE row.status
  /\ u[n].entered = row.entered /\ u[n].fact = row.fact /\ u[n].scope = row.scope
  /\ u[n].trust = row.trust /\ u[n].origin = row.origin
  /\ u[n].confirmed = (row.confirmed \/ confirmed)
  /\ u[n].reobserved = row.reobserved
  /\ u[n].superBy = row.superBy
  /\ u[n].from = IF old # NoMem /\ ~hold THEN row.from \cup {old} ELSE row.from
  /\ u[n].held = IF hold THEN old ELSE row.held
  /\ u[n].evidence = row.evidence

\* Every field but those of the review and of the lineage is as the row has it.
LEMMA InsertedRow ==
  ASSUME NEW t \in [Mem -> Row], NEW n \in Mem, NEW old, old = NoMem \/ old \in Mem,
         old # n, NEW row \in Row, NEW status, NEW hold \in BOOLEAN,
         hold => old # NoMem, NEW confirmed \in BOOLEAN, NEW u,
         u = Written(t, n, row, status, old, hold, confirmed)
  PROVE  WrittenRows(t, u, n, row, status, old, hold, confirmed)
<1> DEFINE inserted == [t EXCEPT ![n] = row]
           linked   == IF old = NoMem THEN inserted
                       ELSE IF hold THEN [inserted EXCEPT ![n].held = old]
                       ELSE Supersede(inserted, old, n)
           from == IF old # NoMem /\ ~hold THEN row.from \cup {old} ELSE row.from
           held == IF hold THEN old ELSE row.held
           made == [row EXCEPT !.from = from, !.held = held]
           replaced == [t[old] EXCEPT !.status = "deprecated", !.closed = TRUE, !.superBy = n]
<1>1. /\ linked[n] = made
      /\ old # NoMem => linked[old] = IF hold THEN t[old] ELSE replaced
      /\ \A k \in Mem \ {n, old} : linked[k] = t[k]
      /\ linked = [k \in Mem |-> linked[k]]
  <2>1. CASE old = NoMem
    BY <2>1 DEF Row
  <2>2. CASE old # NoMem /\ hold
    BY <2>2 DEF Row
  <2>3. CASE old # NoMem /\ ~hold
    BY <2>3 DEF Supersede, Row
  <2> QED BY <2>1, <2>2, <2>3
<1>2. u = IF ~confirmed THEN linked
          ELSE IF status = "staged" /\ ~hold THEN Promote(Confirm(linked, n), n)
          ELSE Confirm(linked, n)
  BY DEF Written
<1> DEFINE final == [made EXCEPT
             !.confirmed = row.confirmed \/ confirmed, !.used = row.used \/ confirmed,
             !.status = IF confirmed /\ status = "staged" /\ ~hold THEN "active" ELSE @]
<1>3. final.status = IF confirmed /\ status = "staged" /\ ~hold THEN "active" ELSE row.status
  BY DEF Row
<1>4. /\ final.entered = row.entered /\ final.fact = row.fact /\ final.scope = row.scope
      /\ final.trust = row.trust /\ final.origin = row.origin
      /\ final.confirmed = (row.confirmed \/ confirmed)
      /\ final.reobserved = row.reobserved
      /\ final.superBy = row.superBy /\ final.from = from /\ final.held = held
      /\ final.evidence = row.evidence
  BY DEF Row
<1>5. /\ u[n] = final
      /\ \A k \in Mem \ {n} : u[k] = linked[k]
  <2> HIDE DEF linked, from, held, replaced
  <2>1. CASE ~confirmed
    <3>1. final = made
      BY <2>1 DEF Row
    <3> HIDE DEF final, made
    <3> QED BY <1>1, <1>2, <2>1, <3>1
  <2>2. CASE confirmed /\ status = "staged" /\ ~hold
    <3>1. u = [linked EXCEPT ![n] = [made EXCEPT !.confirmed = TRUE, !.used = TRUE,
                                                 !.status = "active"]]
      BY <1>1, <1>2, <2>2 DEF Promote, Confirm
    <3>2. final = [made EXCEPT !.confirmed = TRUE, !.used = TRUE, !.status = "active"]
      BY <2>2 DEF Row
    <3> HIDE DEF final, made
    <3> QED BY <1>1, <3>1, <3>2
  <2>3. CASE confirmed /\ ~(status = "staged" /\ ~hold)
    <3>1. u = [linked EXCEPT ![n] = [made EXCEPT !.confirmed = TRUE, !.used = TRUE]]
      BY <1>1, <1>2, <2>3 DEF Confirm
    <3>2. final = [made EXCEPT !.confirmed = TRUE, !.used = TRUE]
      BY <2>3 DEF Row
    <3> HIDE DEF final, made
    <3> QED BY <1>1, <3>1, <3>2
  <2> QED BY <2>1, <2>2, <2>3
<1> HIDE DEF final, linked, made
<1> QED BY <1>1, <1>3, <1>4, <1>5 DEF WrittenRows

\* _enact_write past the duplicate check, as Inserted describes it.
LEMMA EnactedRows ==
  ASSUME NEW t, Sound(t), NEW w \in Candidate, NEW n \in Mem, NEW allow \in BOOLEAN,
         NEW old, old = NoMem \/ (old \in Mem /\ old # n), NEW confirmed \in BOOLEAN,
         \A s \in w.srcs : s < n
  PROVE  LET status == EnteredStatus(t, w, allow)
             hold   == old # NoMem /\ MustHold(status, DeriveTrust(t, w), t[old])
         IN  Inserted(t, Enacted(t, n, w, allow, old, confirmed), n, w, status, old, hold,
                      confirmed)
<1> DEFINE status == EnteredStatus(t, w, allow)
           trust  == DeriveTrust(t, w)
           hold   == old # NoMem /\ MustHold(status, trust, t[old])
           row    == NewRow(t, w, status)
           u      == Enacted(t, n, w, allow, old, confirmed)
           inserted == [t EXCEPT ![n] = row]
<1>1. row \in Row
  BY NewRowSound
<1>2. /\ row.status = status /\ row.entered = status
      /\ row.fact = w.fact /\ row.scope = w.scope
      /\ row.trust = trust /\ row.origin = w.origin
      /\ row.superBy = NoMem /\ row.from = w.srcs /\ row.held = NoMem
      /\ ~row.confirmed /\ ~row.reobserved
      /\ row.evidence = EvidenceOf(w) \cup UNION {t[s].evidence : s \in w.srcs}
  <2> HIDE DEF status
  <2> QED BY NewRowFields
<1>3. t \in [Mem -> Row] /\ inserted[n].trust = trust
  BY <1>2 DEF Sound
<1>4. u = Written(t, n, row, status, old, hold, confirmed)
  <2> HIDE DEF status, row, trust
  <2> QED BY <1>3 DEF Enacted, Written, status, row
<1>5. hold \in BOOLEAN /\ (hold => old # NoMem) /\ old # n /\ (old = NoMem \/ old \in Mem)
  BY MemNat DEF MustHold
<1> HIDE DEF hold, row, status, trust, u
<1>6. WrittenRows(t, u, n, row, status, old, hold, confirmed)
  BY <1>1, <1>3, <1>4, <1>5, InsertedRow
<1>7. (row.confirmed \/ confirmed) = confirmed
  BY <1>2
<1>8. Inserted(t, u, n, w, status, old, hold, confirmed)
  BY <1>2, <1>6, <1>7 DEF WrittenRows, Inserted, trust
<1> QED BY <1>8 DEF hold, status, trust, u

\* Depth is a position of the chain.
LEMMA DepthNat ==
  ASSUME NEW s \in Scopes, NEW r \in ChainSet(s)
  PROVE  Depth(s, r) \in Nat
<1>1. Chain[s] \in Seq(Scopes)
  BY ChainAssumption
<1>2. \E i \in DOMAIN Chain[s] : Chain[s][i] = r
  BY DEF ChainSet, Range
<1>3. Depth(s, r) \in DOMAIN Chain[s]
  BY <1>2 DEF Depth
<1> QED BY <1>1, <1>3

\* Where a live row of the chain says the same, the duplicate check finds one.
LEMMA CopyFound ==
  ASSUME NEW t, NEW w \in Candidate, NEW m \in Mem, IsLive(t[m]), t[m].fact = w.fact,
         t[m].scope \in ChainSet(w.scope)
  PROVE  Duplicates(t, w) # {}
<1> DEFINE copies == {k \in Mem : /\ IsLive(t[k]) /\ t[k].fact = w.fact
                                  /\ t[k].scope \in ChainSet(w.scope)}
           depths == {Depth(w.scope, t[k].scope) : k \in copies}
<1>1. w.scope \in Scopes
  BY DEF Candidate
<1>2. depths \in SUBSET Nat /\ depths # {}
  BY <1>1, DepthNat
<1>3. PICK d \in depths : \A e \in depths : d <= e
  BY <1>2, LeastNat
<1>4. PICK k \in copies : d = Depth(w.scope, t[k].scope)
  OBVIOUS
<1>5. \A j \in copies : Depth(w.scope, t[k].scope) <= Depth(w.scope, t[j].scope)
  BY <1>3, <1>4
<1>6. k \in Duplicates(t, w)
  BY <1>4, <1>5 DEF Duplicates
<1> QED BY <1>6

\* A write that became a reinforcement touches the duplicate, and may promote it.
LEMMA ReobservedTurns ==
  ASSUME NEW t, Sound(t), NEW d \in Rows(t), NEW w \in Candidate
  PROVE  Turns(t, Reobserved(t, d, w))
<1> DEFINE confirm == w.origin = "explicit_user_ask"
           row == [t[d] EXCEPT !.evidence = @ \cup EvidenceOf(w), !.used = TRUE,
                               !.confirmed = @ \/ confirm, !.reobserved = @ \/ ~confirm]
           reinforced == [t EXCEPT ![d].evidence = @ \cup EvidenceOf(w), ![d].used = TRUE,
                                   ![d].confirmed = @ \/ confirm,
                                   ![d].reobserved = @ \/ ~confirm]
<1>1. d \in Mem /\ t \in [Mem -> Row] /\ t[d] \in Row
  BY SoundAt DEF Rows
<1>2. EvidenceOf(w) \in SUBSET Episodes
  BY EpisodeAssumption DEF EvidenceOf, Candidate
<1>3. row \in Row
  BY <1>1, <1>2 DEF Row
<1>4. /\ row.status = t[d].status /\ row.superBy = t[d].superBy
      /\ row.from = t[d].from /\ row.held = t[d].held
  BY <1>1 DEF Row
<1>5. reinforced = [t EXCEPT ![d] = row]
  BY <1>1
<1>6. Reobserved(t, d, w) \in {t, MaybePromote(reinforced, d)}
  BY DEF Reobserved
<1>7. Turns(t, t)
  BY AltersAll DEF Alters
<1> HIDE DEF row, reinforced
<1>8. Turns(t, MaybePromote([t EXCEPT ![d] = row], d))
  BY <1>1, <1>3, <1>4, PromotedTurns
<1> QED BY <1>5, <1>6, <1>7, <1>8

\* What may come to be contradicted: live rows of the chain, none of them a source
\* and, the duplicate check having found nothing, none that says the same.
LEMMA ContradictedRow ==
  ASSUME NEW t, NEW w \in Candidate, Duplicates(t, w) = {}, NEW old \in Contradicting(t, w)
  PROVE  /\ old \in Rows(t) /\ old \notin w.srcs
         /\ t[old].status \in Live /\ t[old].fact # w.fact
<1>1. /\ old \in Mem \ w.srcs /\ IsLive(t[old])
      /\ t[old].scope \in ChainSet(w.scope)
  BY DEF Contradicting, Recallable
<1>2. t[old].fact # w.fact
  BY <1>1, CopyFound
<1> QED BY <1>1, <1>2 DEF IsLive, Live, Rows

\* A consolidated candidate is no more trusted than its sources, and staged with them.
LEMMA CandidateWeakest ==
  ASSUME NEW t \in [Mem -> Row], NEW w \in Candidate, NEW allow \in BOOLEAN,
         w.origin = "consolidated", NEW s \in w.srcs
  PROVE  /\ DeriveTrust(t, w) <= t[s].trust
         /\ t[s].status = "staged" => EnteredStatus(t, w, allow) = "staged"
<1>1. w.srcs \in SUBSET Mem /\ w.srcs # {}
  BY DEF Candidate
<1>2. DeriveTrust(t, w) = MinTrust(t, w.srcs)
  BY <1>1 DEF DeriveTrust
<1>3. MinTrust(t, w.srcs) <= t[s].trust
  BY <1>1, MinTrustLevel
<1> QED BY <1>2, <1>3 DEF EnteredStatus

\* The insertion of a candidate that is no duplicate.
LEMMA InsertionTurns ==
  ASSUME NEW t, Sound(t), Linked(t), NEW w \in Candidate, w.srcs \subseteq Rows(t),
         Duplicates(t, w) = {}, NEW n \in Mem, Fresh(t, n),
         NEW old \in Contradicting(t, w) \cup {NoMem}, NEW allow \in BOOLEAN,
         NEW confirmed \in BOOLEAN
  PROVE  Turns(t, Enacted(t, n, w, allow, old, confirmed))
<1> DEFINE status == EnteredStatus(t, w, allow)
           trust  == DeriveTrust(t, w)
           hold   == old # NoMem /\ MustHold(status, trust, t[old])
           u      == Enacted(t, n, w, allow, old, confirmed)
<1>1. /\ t[n].status = "none" /\ t \in [Mem -> Row]
      /\ \A m \in Rows(t) : m \in Mem /\ m # n
  BY FreshId DEF Sound
<1>2. old # NoMem => /\ old \in Rows(t) /\ old \notin w.srcs /\ old \in Mem /\ old # n
                     /\ t[old].status \in Live /\ t[old].fact # w.fact
  BY <1>1, ContradictedRow
<1>3. Inserted(t, u, n, w, status, old, hold, confirmed)
  <2>1. \A s \in w.srcs : s < n
    BY FreshAbove
  <2>2. old = NoMem \/ (old \in Mem /\ old # n)
    BY <1>2
  <2> QED BY <2>1, <2>2, EnactedRows
<1>4. status \in {"staged", "active"}
  BY DEF EnteredStatus, EntryStatus
<1>5. ~hold /\ old # NoMem =>
        \/ t[old].status = "staged"
        \/ t[old].status = "active" /\ status # "staged" /\ ~(trust < t[old].trust)
  BY <1>2 DEF MustHold, Live
<1>6. hold => old # NoMem
  OBVIOUS
<1>7. w.origin = "consolidated" =>
        \A s \in w.srcs : /\ trust <= t[s].trust
                          /\ t[s].status = "staged" => status = "staged"
  BY <1>1, CandidateWeakest
<1>8. trust \in TrustLevels
  BY DerivedTrust
<1> HIDE DEF status, trust, hold, u
<1>9. n \in Rows(u) /\ n # NoMem
  BY <1>3, <1>4, MemNat DEF Inserted, Rows
<1>10. Enters(t, u, n)
  <2>1. u[n].from \subseteq Rows(t)
    BY <1>2, <1>3 DEF Inserted
  <2>2. u[n].held \in {NoMem} \cup (Rows(t) \ u[n].from)
    BY <1>2, <1>3, <1>6 DEF Inserted
  <2>3. ASSUME u[n].origin = "consolidated", ~u[n].confirmed, NEW s \in u[n].from,
               u[s].superBy # n \/ u[s].fact = u[n].fact
        PROVE  /\ u[n].trust <= t[s].trust
               /\ t[s].status = "staged" => u[n].status = "staged"
    <3>1. CASE s \in w.srcs
      BY <1>3, <1>7, <2>3, <3>1 DEF Inserted, trust
    <3>2. CASE s \notin w.srcs
      <4>1. s = old /\ old # NoMem /\ ~hold
        BY <1>3, <2>3, <3>2 DEF Inserted
      <4>2. t[old] \in Row
        BY <1>1, <1>2, <4>1
      <4>3. u[old].superBy = n /\ u[old].fact = t[old].fact
        BY <1>3, <4>1, <4>2 DEF Inserted, Row
      <4> QED BY <1>2, <1>3, <2>3, <4>1, <4>3 DEF Inserted
    <3> QED BY <3>1, <3>2
  <2>4. u[n].status # "none" /\ u[n].superBy = NoMem
    BY <1>3, <1>4 DEF Inserted
  <2> QED BY <1>1, <2>1, <2>2, <2>3, <2>4 DEF Enters, Weakest
<1>11. ASSUME old # NoMem, ~hold PROVE Replaced(t, u, old)
  <2>1. t[old] \in Row
    BY <1>1, <1>2, <1>11
  <2>2. /\ u[old].status = "deprecated" /\ u[old].superBy = n
        /\ u[old].from = t[old].from /\ u[old].held = t[old].held
    BY <1>3, <1>11, <2>1 DEF Inserted, Row
  <2>3. u[n].held = NoMem /\ u[n].trust = trust
    BY <1>3, <1>11 DEF Inserted, trust
  <2>4. t[old].status = "active" => u[n].status = "active" /\ trust >= t[old].trust
    <3>1. t[old].status = "active" => status = "active" /\ trust >= t[old].trust
      BY <1>4, <1>5, <1>8, <1>11, <2>1 DEF Row, TrustLevels
    <3> QED BY <1>3, <3>1 DEF Inserted
  <2>5. t[old].status \in {"staged", "active"}
    BY <1>5, <1>11
  <2> QED BY <1>9, <2>2, <2>3, <2>4, <2>5 DEF Replaced
<1>12. \A m \in Mem : Turn(t, u, m)
  <2> TAKE m \in Mem
  <2>1. CASE m = n  BY <1>10, <2>1 DEF Turn
  <2>2. CASE m # n /\ m = old /\ ~hold
    BY <1>11, <2>2, MemNat DEF Turn
  <2>3. CASE m # n /\ (m # old \/ hold)
    BY <1>3, <1>6, <2>3 DEF Turn, Alters, Inserted
  <2> QED BY <2>1, <2>2, <2>3
<1> QED BY <1>12 DEF Turns, u

\* The write pipeline turns the rows of the store.
LEMMA EnactWriteTurns ==
  ASSUME IInv, Linked(mem), NEW w \in Candidate, NEW allow \in BOOLEAN,
         NEW confirmed \in BOOLEAN, EnactWrite(w, allow, confirmed)
  PROVE  Turns(mem, mem')
<1>1. Sound(mem) /\ w.srcs \subseteq Rows(mem)
  BY DEF IInv, EnactWrite
<1>2. CASE \E d \in Duplicates(mem, w) : mem' = Reobserved(mem, d, w)
  <2>1. Duplicates(mem, w) \subseteq Rows(mem)
    BY DEF Duplicates, IsLive, Live, Rows
  <2> QED BY <1>1, <1>2, <2>1, ReobservedTurns
<1>3. CASE /\ Duplicates(mem, w) = {}
           /\ \E n \in Mem, old \in Contradicting(mem, w) \cup {NoMem} :
                Fresh(mem, n) /\ mem' = Enacted(mem, n, w, allow, old, confirmed)
  BY <1>1, <1>3, InsertionTurns
<1> QED BY <1>2, <1>3 DEF EnactWrite

-----------------------------------------------------------------------------
(* The merges of the consolidator and the erasure.                         *)

\* Leaders get successors of their own.
LEMMA SuccessorApart ==
  ASSUME NEW n \in Nat, NEW leaders \in SUBSET Mem, NEW k \in leaders, NEW l \in leaders,
         SuccessorOf(n, leaders, k) = SuccessorOf(n, leaders, l)
  PROVE  k = l
<1>1. ASSUME NEW i \in leaders, NEW j \in leaders, i < j
      PROVE  SuccessorOf(n, leaders, i) # SuccessorOf(n, leaders, j)
  <2> DEFINE I == {x \in leaders : x < i}
             J == {x \in leaders : x < j}
  <2>1. I \in SUBSET Mem /\ J \in SUBSET Mem
    OBVIOUS
  <2>2. IsFiniteSet(J) /\ Cardinality(I) \in Nat /\ Cardinality(J) \in Nat
    BY <2>1, MemFinite
  <2>3. I \subseteq J /\ I # J
    <3>1. \A x \in leaders : x \in Nat
      BY MemNat
    <3>2. i \in J /\ i \notin I
      BY <1>1, <3>1
    <3> QED BY <1>1, <3>1, <3>2
  <2> HIDE DEF I, J
  <2>4. Cardinality(I) < Cardinality(J)
    BY <2>2, <2>3, FS_Subset
  <2> QED BY <2>2, <2>4 DEF SuccessorOf, I, J
<1>2. k \in Nat /\ l \in Nat
  BY MemNat
<1>3. k < l \/ l < k \/ k = l
  BY <1>2
<1> QED BY <1>1, <1>3

\* What the successor of a set of inputs says.
Sums(t, inputs, winner, s, row) ==
  /\ row.status \in {"staged", "active"} /\ row.superBy = NoMem
  /\ row.held = NoMem /\ row.from = inputs /\ row.fact = t[winner].fact
  /\ row.scope = s /\ row.quarantine = 0
  /\ \A m \in inputs : /\ row.trust <= t[m].trust
                       /\ t[m].status = "staged" => row.status = "staged"
  /\ row.about = UNION {t[m].about : m \in inputs}
  /\ row.evidence = UNION {t[m].evidence : m \in inputs}

\* The row of a successor sums its inputs up.
LEMMA ConsolidatedFields ==
  ASSUME NEW t \in [Mem -> Row], NEW inputs \in SUBSET Mem, inputs # {}, NEW winner,
         NEW s, NEW who, NEW row, row = ConsolidatedRow(t, inputs, winner, s, who)
  PROVE  Sums(t, inputs, winner, s, row)
<1> DEFINE tier == IF \E m \in inputs : t[m].status = "staged" THEN "staged" ELSE "active"
           trust == MinTrust(t, inputs)
           about == UNION {t[m].about : m \in inputs}
           evidence == UNION {t[m].evidence : m \in inputs}
<1>1. row = [Unallocated EXCEPT
               !.status = tier, !.entered = tier, !.fact = t[winner].fact, !.scope = s,
               !.trust = trust, !.origin = "consolidated", !.agent = who,
               !.about = about, !.from = inputs, !.evidence = evidence]
  BY DEF ConsolidatedRow
<1>2. \A m \in inputs : trust <= t[m].trust
  BY MinTrustLevel
<1>3. /\ tier \in {"staged", "active"}
      /\ \A m \in inputs : t[m].status = "staged" => tier = "staged"
  OBVIOUS
<1> HIDE DEF tier, trust, about, evidence
<1>4. /\ row.status = tier /\ row.superBy = NoMem /\ row.held = NoMem /\ row.from = inputs
      /\ row.fact = t[winner].fact /\ row.trust = trust /\ row.scope = s
      /\ row.about = about /\ row.evidence = evidence /\ row.quarantine = 0
  BY <1>1 DEF Unallocated
<1> QED BY <1>2, <1>3, <1>4 DEF Sums, about, evidence

\* A successor of allocated rows enters.
LEMMA ConsolidatedEnters ==
  ASSUME NEW t \in [Mem -> Row], NEW inputs \in SUBSET Rows(t), inputs # {}, NEW winner,
         NEW s, NEW who, NEW u, NEW m \in Mem, t[m].status = "none",
         u[m] = ConsolidatedRow(t, inputs, winner, s, who)
  PROVE  Enters(t, u, m)
<1>1. inputs \in SUBSET Mem
  BY DEF Rows
<1>2. Sums(t, inputs, winner, s, u[m])
  BY <1>1, ConsolidatedFields
<1> QED BY <1>2 DEF Sums, Enters, Weakest

\* The ids of the successors are not allocated.
LEMMA SuccessorFresh ==
  ASSUME NEW t, NEW n \in Nat, \A m \in Rows(t) : m < n, NEW leaders \in SUBSET Mem,
         NEW l \in leaders, SuccessorOf(n, leaders, l) \in Mem
  PROVE  t[SuccessorOf(n, leaders, l)].status = "none"
<1> DEFINE new == SuccessorOf(n, leaders, l)
<1>1. new \in Nat /\ n <= new
  BY SuccessorRange
<1> HIDE DEF new
<1>2. new \notin Rows(t)
  BY <1>1
<1> QED BY <1>2 DEF Rows, new

\* In the merge from t to u, row m is the successor of the group led by l ...
Succeeds(t, u, n, m, l) ==
  /\ SuccessorOf(n, Leaders(t), l) = m
  /\ u[m] = ConsolidatedRow(t, Group(t, l), l, t[l].scope, Consolidator)

\* ... or one of its predecessors.
Precedes(t, u, n, m, l) ==
  /\ m \in Group(t, l)
  /\ u[m] = [t[m] EXCEPT !.status = "deprecated",
                          !.superBy = SuccessorOf(n, Leaders(t), l)]

\* The rows of a merge: successors, predecessors, and the rest.
LEMMA MergedRows ==
  ASSUME NEW t, NEW n \in Nat, NEW m \in Mem, NEW u, u = Merged(t, n)
  PROVE  \/ \E l \in Leaders(t) : Succeeds(t, u, n, m, l)
         \/ \E l \in Leaders(t) : Precedes(t, u, n, m, l)
         \/ (\A l \in Leaders(t) : m \notin Group(t, l)) /\ u[m] = t[m]
<1> DEFINE leaders == Leaders(t)
           new(l) == SuccessorOf(n, leaders, l)
<1>1. CASE \E l \in leaders : new(l) = m
  <2> DEFINE l == CHOOSE k \in leaders : SuccessorOf(n, leaders, k) = m
  <2>1. l \in leaders /\ SuccessorOf(n, leaders, l) = m
    BY <1>1
  <2>2. u[m] = ConsolidatedRow(t, Group(t, l), l, t[l].scope, Consolidator)
    BY <1>1 DEF Merged
  <2> HIDE DEF l
  <2> QED BY <2>1, <2>2 DEF Succeeds
<1>2. CASE /\ ~\E l \in leaders : new(l) = m
           /\ \E l \in leaders : m \in Group(t, l)
  <2> DEFINE l == CHOOSE k \in leaders : m \in Group(t, k)
  <2>1. l \in leaders /\ m \in Group(t, l)
    BY <1>2
  <2>2. u[m] = [t[m] EXCEPT !.status = "deprecated",
                             !.superBy = SuccessorOf(n, leaders, l)]
    BY <1>2 DEF Merged
  <2> HIDE DEF l
  <2> QED BY <2>1, <2>2 DEF Precedes
<1>3. CASE /\ ~\E l \in leaders : new(l) = m
           /\ ~\E l \in leaders : m \in Group(t, l)
  BY <1>3 DEF Merged
<1> QED BY <1>1, <1>2, <1>3

\* The successor of a leader, where it is written.
LEMMA SuccessorRow ==
  ASSUME NEW t, NEW n \in Nat, NEW l \in Leaders(t), SuccessorOf(n, Leaders(t), l) \in Mem
  PROVE  Merged(t, n)[SuccessorOf(n, Leaders(t), l)]
           = ConsolidatedRow(t, Group(t, l), l, t[l].scope, Consolidator)
<1> DEFINE leaders == Leaders(t)
           m == SuccessorOf(n, leaders, l)
           k == CHOOSE i \in leaders : SuccessorOf(n, leaders, i) = m
<1>1. leaders \in SUBSET Mem
  BY DEF Leaders
<1>2. k \in leaders /\ SuccessorOf(n, leaders, k) = m
  OBVIOUS
<1>3. Merged(t, n)[m] = ConsolidatedRow(t, Group(t, k), k, t[k].scope, Consolidator)
  BY DEF Merged
<1> HIDE DEF k, leaders
<1>4. k = l
  BY <1>1, <1>2, SuccessorApart DEF leaders
<1> QED BY <1>3, <1>4 DEF leaders

\* Leaders are members of their groups, and groups are working rows of the store.
LEMMA GroupRows ==
  ASSUME NEW t, NEW l \in Leaders(t)
  PROVE  /\ l \in Mem /\ l \in Group(t, l) /\ Group(t, l) \in SUBSET Rows(t)
         /\ \A m \in Group(t, l) : /\ t[m].status \in {"staged", "active"}
                                   /\ t[m].fact = t[l].fact /\ t[m].scope = t[l].scope
                                   /\ t[m].quarantine = 0
  BY DEF Leaders, Group, Working, Rows

\* The ids a run of the job hands out are ids of the store.
LEMMA SuccessorInMem ==
  ASSUME NEW n \in Mem, NEW leaders \in SUBSET Mem, n + Cardinality(leaders) - 1 \in Mem,
         NEW l \in leaders
  PROVE  SuccessorOf(n, leaders, l) \in Mem
<1>1. n \in Nat /\ 1 <= n /\ n + Cardinality(leaders) - 1 <= MaxMem
  BY BoundAssumption DEF Mem
<1>2. Cardinality(leaders) \in Nat
  BY MemFinite
<1>3. /\ SuccessorOf(n, leaders, l) \in Nat
      /\ n <= SuccessorOf(n, leaders, l)
      /\ SuccessorOf(n, leaders, l) <= n + Cardinality(leaders) - 1
  BY <1>1, SuccessorRange
<1> QED BY <1>1, <1>2, <1>3, BoundAssumption DEF Mem

\* A run of dedupe turns the rows of the store.
LEMMA MergedTurns ==
  ASSUME NEW t \in [Mem -> Row], NEW n \in Mem, Fresh(t, n),
         n + Cardinality(Leaders(t)) - 1 \in Mem
  PROVE  Turns(t, Merged(t, n))
<1> DEFINE leaders == Leaders(t)
           u == Merged(t, n)
<1>1. leaders \in SUBSET Mem /\ n \in Nat /\ \A m \in Rows(t) : m < n
  BY MemNat, FreshAbove DEF Leaders
<1>2. \A l \in leaders :
        LET new == SuccessorOf(n, leaders, l)
        IN  /\ new \in Mem /\ t[new].status = "none"
            /\ u[new] = ConsolidatedRow(t, Group(t, l), l, t[l].scope, Consolidator)
  BY <1>1, SuccessorInMem, SuccessorFresh, SuccessorRow
<1> HIDE DEF u, leaders
<1>3. \A l \in leaders : Enters(t, u, SuccessorOf(n, leaders, l))
  <2> TAKE l \in leaders
  <2>1. l \in Group(t, l) /\ Group(t, l) \in SUBSET Rows(t)
    BY GroupRows DEF leaders
  <2> QED BY <1>2, <2>1, ConsolidatedEnters
<1>4. ASSUME NEW m \in Mem, NEW l \in leaders, Precedes(t, u, n, m, l)
      PROVE  Replaced(t, u, m)
  <2> DEFINE new == SuccessorOf(n, leaders, l)
  <2>0. m \in Group(t, l) /\ u[m] = [t[m] EXCEPT !.status = "deprecated", !.superBy = new]
    BY <1>4 DEF Precedes, leaders
  <2>1. /\ l \in Group(t, l) /\ Group(t, l) \in SUBSET Mem
        /\ t[m].status \in {"staged", "active"} /\ t[m].fact = t[l].fact
    BY <2>0, GroupRows DEF leaders, Rows
  <2>2. u[new].status # "none" /\ u[new].held = NoMem /\ u[new].fact = t[l].fact
    <3>1. Sums(t, Group(t, l), l, t[l].scope, u[new])
      BY <1>2, <2>1, ConsolidatedFields
    <3> QED BY <3>1 DEF Sums
  <2>3. new \in Rows(u)
    BY <1>2, <2>2 DEF Rows
  <2> HIDE DEF new
  <2>4. /\ u[m].status = "deprecated" /\ u[m].superBy = new
        /\ u[m].from = t[m].from /\ u[m].held = t[m].held
    BY <2>0 DEF Row
  <2> QED BY <2>1, <2>2, <2>3, <2>4 DEF Replaced
<1>5. ASSUME NEW m \in Mem PROVE Turn(t, u, m)
  <2>1. CASE \E l \in leaders : Succeeds(t, u, n, m, l)
    BY <1>3, <2>1 DEF Succeeds, Turn, leaders
  <2>2. CASE \E l \in leaders : Precedes(t, u, n, m, l)
    BY <1>4, <2>2 DEF Turn
  <2>3. CASE u[m] = t[m]
    BY <2>3 DEF Turn, Alters
  <2> QED BY <1>1, <2>1, <2>2, <2>3, MergedRows DEF u, leaders
<1> QED BY <1>5 DEF Turns, u

\* What derives from allocated rows is allocated.
LEMMA ClosureRows ==
  ASSUME NEW t, Linked(t), NEW seeds \in SUBSET Rows(t)
  PROVE  DerivedClosure(t, seeds) \subseteq Rows(t)
<1>1. Rows(t) \in SUBSET Mem
  BY DEF Rows
<1>2. \A m \in Mem : t[m].status = "none" => t[m].from = {}
  <2>1. Unallocated.from = {}
    BY DEF Unallocated
  <2> QED BY <2>1 DEF Linked
<1>3. \A m \in Mem : t[m].from \cap Rows(t) # {} => m \in Rows(t)
  BY <1>2 DEF Rows
<1> QED BY <1>1, <1>3 DEF DerivedClosure

\* In the erasure from t to u, row m is generated again from what remains of r ...
Regrows(t, u, n, closure, winner, m, r) ==
  /\ SuccessorOf(n, Regenerated(t, closure), r) = m
  /\ u[m] = ConsolidatedRow(t, Survivors(t, closure, r), winner[r], t[r].scope, Person)

\* ... or is erased.
Wiped(t, u, m) == u[m] = [t[m] EXCEPT !.status = "tombstoned", !.fact = Blank]

\* A row of an erasure is generated again, erased, or left alone.
ErasedRow(t, n, closure, winner, m, u) ==
  \/ \E r \in Regenerated(t, closure) : Regrows(t, u, n, closure, winner, m, r)
  \/ m \in closure /\ Wiped(t, u, m)
  \/ m \notin closure /\ u[m] = t[m]

\* Every row of an erasure is one of the three.
LEMMA ErasedRows ==
  ASSUME NEW t, NEW n \in Nat, NEW closure, NEW winner, NEW m \in Mem, NEW u,
         u = Erased(t, n, closure, winner)
  PROVE  ErasedRow(t, n, closure, winner, m, u)
<1> DEFINE again == Regenerated(t, closure)
<1>1. CASE \E r \in again : SuccessorOf(n, again, r) = m
  <2> DEFINE r == CHOOSE k \in again : SuccessorOf(n, again, k) = m
  <2>1. r \in again /\ SuccessorOf(n, again, r) = m
    BY <1>1
  <2>2. u[m] = ConsolidatedRow(t, Survivors(t, closure, r), winner[r], t[r].scope, Person)
    BY <1>1 DEF Erased
  <2> HIDE DEF r
  <2> QED BY <2>1, <2>2 DEF Regrows, ErasedRow
<1>2. CASE ~\E r \in again : SuccessorOf(n, again, r) = m
  BY <1>2 DEF Erased, Wiped, ErasedRow
<1> QED BY <1>1, <1>2

\* What is generated again was live, and its inputs survive.
LEMMA RegeneratedRows ==
  ASSUME NEW t, Linked(t), NEW closure \in SUBSET Rows(t), NEW r \in Regenerated(t, closure)
  PROVE  /\ r \in Mem /\ r \in closure
         /\ Survivors(t, closure, r) \in SUBSET (Rows(t) \ closure)
         /\ Survivors(t, closure, r) # {}
<1>1. r \in Mem /\ r \in closure /\ Survivors(t, closure, r) # {}
  BY DEF Regenerated, Rows
<1>2. t[r].from \subseteq Rows(t)
  BY <1>1 DEF Linked
<1> QED BY <1>1, <1>2 DEF Survivors

\* An erasure turns the rows of the store.
LEMMA ErasedTurns ==
  ASSUME NEW t \in [Mem -> Row], Linked(t), NEW n \in Nat, \A m \in Rows(t) : m < n,
         NEW closure \in SUBSET Rows(t), NEW winner
  PROVE  Turns(t, Erased(t, n, closure, winner))
<1> DEFINE again == Regenerated(t, closure)
           u     == Erased(t, n, closure, winner)
<1>1. again \in SUBSET Mem
  BY DEF Regenerated, Rows
<1>2. ASSUME NEW m \in Mem PROVE Turn(t, u, m)
  <2>1. CASE \E r \in again : Regrows(t, u, n, closure, winner, m, r)
    <3>1. PICK r \in again :
               /\ SuccessorOf(n, again, r) = m
               /\ u[m] = ConsolidatedRow(t, Survivors(t, closure, r), winner[r],
                                         t[r].scope, Person)
      BY <2>1 DEF Regrows
    <3>2. t[m].status = "none"
      BY <1>1, <3>1, SuccessorFresh
    <3>3. /\ Survivors(t, closure, r) \in SUBSET Rows(t)
          /\ Survivors(t, closure, r) # {}
      BY <3>1, RegeneratedRows
    <3> HIDE DEF u
    <3>4. Enters(t, u, m)
      BY <3>1, <3>2, <3>3, ConsolidatedEnters
    <3> QED BY <3>4 DEF Turn
  <2>2. CASE m \in closure /\ Wiped(t, u, m)
    <3> HIDE DEF u
    <3>1. t[m] \in Row /\ t[m].status # "none"
      BY <2>2 DEF Rows
    <3>2. Alters(t[m], u[m])
      BY <2>2, <3>1 DEF Alters, Row, Wiped
    <3> QED BY <3>2 DEF Turn
  <2>3. CASE u[m] = t[m]
    <3> HIDE DEF u
    <3> QED BY <2>3 DEF Turn, Alters
  <2> HIDE DEF u
  <2>4. \/ \E r \in again : Regrows(t, u, n, closure, winner, m, r)
        \/ m \in closure /\ Wiped(t, u, m)
        \/ m \notin closure /\ u[m] = t[m]
    BY ErasedRows DEF u, ErasedRow
  <2> QED BY <2>1, <2>2, <2>3, <2>4
<1> QED BY <1>2 DEF Turns

-----------------------------------------------------------------------------
(* Every step turns the rows.                                              *)

\* A step that leaves the store alone.
LEMMA StoreKept ==
  ASSUME UNCHANGED mem
  PROVE  Turns(mem, mem')
  BY AltersAll DEF Alters

LEMMA CallerTurns == IInv /\ Linked(mem) /\ CallerNext => Turns(mem, mem')
<1> SUFFICES ASSUME IInv, Linked(mem), CallerNext PROVE Turns(mem, mem')
  OBVIOUS
<1>1. ASSUME NEW w \in Candidates, NEW allow \in BOOLEAN, Remember(w, allow)
      PROVE  Turns(mem, mem')
  BY <1>1, CandidateAssumption, EnactWriteTurns DEF Remember, Remembered
<1>2. CASE \E m \in Mem : Deliver(m) \/ ReinforceUseful(m) \/ ReinforceWrong(m)
  BY <1>2, DeliverTurns, ReinforceUsefulTurns, ReinforceWrongTurns
<1> QED BY <1>1, <1>2 DEF CallerNext

LEMMA ReviewerTurns == IInv /\ Linked(mem) /\ ReviewerNext => Turns(mem, mem')
  BY ReviewConfirmTurns, ReviewRejectTurns, ResolveSupersedeTurns, ResolveKeepBothTurns,
     ResolveRejectTurns, ResolveDoubtTurns DEF ReviewerNext

LEMMA MoveTurns == IInv /\ Linked(mem) /\ MoveNext => Turns(mem, mem')
<1> SUFFICES ASSUME IInv, Linked(mem), NEW m \in Mem,
                    \/ \E a \in Agents, s \in Scopes : PromoteScope(a, m, s) \/ ParkPromote(a, m, s)
                    \/ \E a \in Agents, mode \in Modes : AgentForget(a, m, mode)
                    \/ \E a \in Agents \cup {Person}, mode \in Modes : ParkForget(a, m, mode)
                    \/ \E mode \in Modes, auditor \in BOOLEAN : UserForget(m, mode, auditor)
             PROVE  Turns(mem, mem')
  BY DEF MoveNext
<1>1. CASE \E a \in Agents, s \in Scopes : PromoteScope(a, m, s) \/ ParkPromote(a, m, s)
  BY <1>1, PromoteScopeTurns, StoreKept DEF ParkPromote
<1>2. ASSUME NEW a \in Agents, NEW mode \in Modes, AgentForget(a, m, mode)
      PROVE  Turns(mem, mem')
  BY <1>2, ForgottenTurns DEF AgentForget
<1>3. ASSUME NEW a \in Agents \cup {Person}, NEW mode \in Modes, ParkForget(a, m, mode)
      PROVE  Turns(mem, mem')
  BY <1>3, StoreKept DEF ParkForget
<1>4. ASSUME NEW mode \in Modes, NEW auditor \in BOOLEAN, UserForget(m, mode, auditor)
      PROVE  Turns(mem, mem')
  BY <1>4, ForgottenTurns DEF UserForget
<1> QED BY <1>1, <1>2, <1>3, <1>4

LEMMA AskTurns == IInv /\ Linked(mem) /\ AskNext => Turns(mem, mem')
<1> SUFFICES ASSUME IInv, Linked(mem), AskNext PROVE Turns(mem, mem')
  OBVIOUS
<1>1. CASE \E w \in Candidates : ParkRemember(w)
  BY <1>1, StoreKept DEF ParkRemember, Parked
<1>2. ASSUME NEW p \in Slot, ApproveRemember(p) PROVE Turns(mem, mem')
  <2>1. asks[p].cand \in Candidate
    BY DEF IInv, TypeOK, Ask
  <2> QED BY <1>2, <2>1, EnactWriteTurns DEF ApproveRemember
<1>3. ASSUME NEW p \in Slot, Decline(p) \/ ApproveForget(p) \/ ApprovePromote(p)
      PROVE  Turns(mem, mem')
  BY <1>3, StoreKept, ApproveForgetTurns, ApprovePromoteTurns DEF Decline
<1>4. CASE \E a \in Agents : Freeze(a) \/ Unfreeze(a)
  BY <1>4, StoreKept DEF Freeze, Unfreeze
<1> QED BY <1>1, <1>2, <1>3, <1>4 DEF AskNext

LEMMA JobTurns == IInv /\ Linked(mem) /\ JobNext => Turns(mem, mem')
<1> SUFFICES ASSUME IInv, Linked(mem), JobNext PROVE Turns(mem, mem')
  OBVIOUS
<1>0. mem \in [Mem -> Row]
  BY DEF IInv, TypeOK
<1>1. CASE Dedupe
  BY <1>0, <1>1, MergedTurns DEF Dedupe
<1>2. CASE ReflectNext
  <2>1. CASE Reflect \/ \E w \in drafts : DropDraft(w)
    BY <2>1, StoreKept DEF Reflect, DropDraft
  <2>2. ASSUME NEW w \in drafts, NEW allow \in BOOLEAN, ProposeDraft(w, allow)
        PROVE  Turns(mem, mem')
    <3>1. w \in Candidate
      BY DEF IInv, TypeOK
    <3> QED BY <2>2, <3>1, EnactWriteTurns DEF ProposeDraft, Remembered
  <2> QED BY <1>2, <2>1, <2>2 DEF ReflectNext
<1>3. ASSUME NEW blocked, Hygiene(blocked) PROVE Turns(mem, mem')
  BY <1>3, HygieneTurns
<1> QED BY <1>1, <1>2, <1>3, ReviewContradictionsTurns, PromoteStagedTurns, SweepTurns
        DEF JobNext

\* What names a subject, or rests on an episode of theirs, is allocated.
LEMMA AboutRows ==
  ASSUME NEW t, NEW u
  PROVE  About(t, u) \in SUBSET Rows(t)
  BY DEF About, LearnedFrom

\* The choices of an erasure.
LEMMA ErasureChoices ==
  ASSUME IInv, Linked(mem), NEW u, EraseSubject(u)
  PROVE  LET closure == DerivedClosure(mem, About(mem, u))
         IN  /\ closure \in SUBSET Rows(mem)
             /\ \E n \in Nat : \E winner :
                  (\A m \in Rows(mem) : m < n) /\ mem' = Erased(mem, n, closure, winner)
<1> DEFINE closure == DerivedClosure(mem, About(mem, u))
<1>1. closure \in SUBSET Rows(mem)
  BY ClosureRows, AboutRows
<1> HIDE DEF closure
<1>2. PICK n \in 1..MaxMem + 1, winner \in [Regenerated(mem, closure) -> Mem] :
        Fresh(mem, n) /\ mem' = Erased(mem, n, closure, winner)
  BY DEF EraseSubject, closure
<1>3. n \in Nat /\ \A m \in Rows(mem) : m < n
  BY <1>2, BoundAssumption DEF Fresh, Rows, Mem
<1> QED BY <1>1, <1>2, <1>3 DEF closure

LEMMA IncidentTurns == IInv /\ Linked(mem) /\ IncidentNext => Turns(mem, mem')
<1> SUFFICES ASSUME IInv, Linked(mem), IncidentNext PROVE Turns(mem, mem')
  OBVIOUS
<1>1. ASSUME NEW u, EraseSubject(u) PROVE Turns(mem, mem')
  <2>1. mem \in [Mem -> Row]
    BY DEF IInv, TypeOK
  <2> QED BY <1>1, <2>1, ErasureChoices, ErasedTurns
<1> QED BY <1>1, QuarantineTurns, RestoreItemTurns, TombstoneItemTurns DEF IncidentNext

\* Every step of the service turns the rows of the store.
LEMMA NextTurns == IInv /\ Linked(mem) /\ [Next]_vars => Turns(mem, mem')
<1> SUFFICES ASSUME IInv, Linked(mem), [Next]_vars PROVE Turns(mem, mem')
  OBVIOUS
<1>1. CASE CallerNext  BY <1>1, CallerTurns
<1>2. CASE ReviewerNext  BY <1>2, ReviewerTurns
<1>3. CASE MoveNext  BY <1>3, MoveTurns
<1>4. CASE AskNext  BY <1>4, AskTurns
<1>5. CASE Elapse  BY <1>5, ElapseTurns
<1>6. CASE JobNext  BY <1>6, JobTurns
<1>7. CASE IncidentNext  BY <1>7, IncidentTurns
<1>8. CASE \E w \in drafts : ParkDraft(w)  BY <1>8, StoreKept DEF ParkDraft, Parked
<1>9. CASE UNCHANGED vars  BY <1>9, StoreKept DEF vars
<1> QED BY <1>1, <1>2, <1>3, <1>4, <1>5, <1>6, <1>7, <1>8, <1>9 DEF Next

-----------------------------------------------------------------------------
(* The service.                                                            *)

\* The invariant of the rows and of the references between them.
LInv == IInv /\ Linked(mem) /\ Open(mem)

\* The empty store, and a store with one pinned row, refer to nothing.
LEMMA InitLinked == Init => LInv
<1> SUFFICES ASSUME Init PROVE Linked(mem) /\ Open(mem)
  BY InitInv DEF LInv
<1>1. \A m \in Mem : /\ mem[m].status = "none" => mem[m] = Unallocated
                     /\ mem[m].held = NoMem /\ mem[m].superBy = NoMem /\ mem[m].from = {}
  <2>1. ASSUME NEW m \in Mem
        PROVE  EmptyStore[m] = Unallocated
    BY DEF EmptyStore
  <2>2. /\ Unallocated.held = NoMem /\ Unallocated.superBy = NoMem
        /\ Unallocated.from = {}
    BY DEF Unallocated
  <2>3. CASE mem = EmptyStore
    BY <2>1, <2>2, <2>3
  <2>4. ASSUME NEW f \in Pins, NEW s \in Scopes,
               mem = [EmptyStore EXCEPT ![1] = PinnedRow(f, s)]
        PROVE  \A m \in Mem : /\ mem[m].status = "none" => mem[m] = Unallocated
                              /\ mem[m].held = NoMem /\ mem[m].superBy = NoMem
                              /\ mem[m].from = {}
    <3> DEFINE pin == PinnedRow(f, s)
    <3>1. /\ pin.status = "invariant" /\ pin.held = NoMem /\ pin.superBy = NoMem
          /\ pin.from = {}
      BY DEF PinnedRow, Unallocated
    <3> HIDE DEF pin
    <3>2. \A m \in Mem : mem[m] = IF m = 1 THEN pin ELSE Unallocated
      BY <2>4 DEF EmptyStore, pin
    <3> QED BY <2>2, <3>1, <3>2
  <2> QED BY <2>3, <2>4 DEF Init
<1> QED BY <1>1 DEF Linked, Open

LEMMA NextLinked == LInv /\ [Next]_vars => LInv'
<1> SUFFICES ASSUME LInv, [Next]_vars PROVE LInv'
  OBVIOUS
<1>1. IInv' /\ Turns(mem, mem')
  BY NextInv, NextTurns DEF LInv
<1>2. mem' \in [Mem -> Row]
  BY <1>1 DEF IInv, TypeOK
<1>3. Linked(mem') /\ Open(mem')
  BY <1>1, <1>2, LinkedStep, OpenStep DEF LInv
<1>4. (Linked(mem))' /\ (Open(mem))'
  BY <1>3 DEF Linked, Open, Rows
<1> QED BY <1>1, <1>4 DEF LInv

\* The rows never come to name a row that is not there.
THEOREM ReferencesHold == Spec => []LInv
  BY InitLinked, NextLinked, PTL DEF Spec

\* A step of the service, from a state it can be in.
LEMMA StepTurns == LInv /\ [Next]_vars => Turns(mem, mem') /\ LInv'
  BY NextTurns, NextLinked DEF LInv

\* While a contradiction is open, the memory it contradicts has neither been
\* superseded by the challenger nor become a source of it.
THEOREM ContestAlwaysOpen == Spec => []ContestOpen
<1>1. LInv => ContestOpen
  BY DEF LInv, Open, ContestOpen
<1> QED BY <1>1, ReferencesHold, PTL

\* As long as handlers run one after another, none makes an erased memory live again,
\* whatever was parked, held or drafted when it was erased.
THEOREM DeadStaysInTurn == Spec => DeadStays
<1>1. ASSUME LInv, [Next]_vars
      PROVE  [\A m \in Mem :
                (mem[m].status # "none" /\ mem[m].fact = Blank /\ ~IsLive(mem[m]))
                => ~IsLive(mem'[m])]_vars
  <2> SUFFICES ASSUME NEW m \in Mem, mem[m].status # "none", ~IsLive(mem[m])
               PROVE  ~IsLive(mem'[m])
    OBVIOUS
  <2>1. Turn(mem, mem', m)
    BY <1>1, StepTurns DEF Turns
  <2> QED BY <2>1 DEF Turn, Alters, Replaced, Wins, Enters, Rises, IsLive, Live
<1> QED BY <1>1, ReferencesHold, PTL DEF Spec, DeadStays

\* A pinned memory is never superseded but by a human who resolves a contradiction
\* that was open against it.
THEOREM PinsAlwaysStand == Spec => PinsStand
<1>1. ASSUME LInv, [Next]_vars
      PROVE  [\A m \in Mem :
                (mem[m].status = "invariant" /\ mem'[m].status = "deprecated")
                => mem[mem'[m].superBy].held = m]_vars
  <2> SUFFICES ASSUME NEW m \in Mem, mem[m].status = "invariant",
                      mem'[m].status = "deprecated"
               PROVE  mem[mem'[m].superBy].held = m
    OBVIOUS
  <2>1. Turn(mem, mem', m)
    BY <1>1, StepTurns DEF Turns
  <2> QED BY <2>1 DEF Turn, Alters, Replaced, Wins, Enters, Rises
<1> QED BY <1>1, ReferencesHold, PTL DEF Spec, PinsStand

\* Staged or less trusted input never displaces an active memory.
THEOREM NeverAssassinated == Spec => NoAssassination
<1>1. ASSUME LInv, [Next]_vars
      PROVE  [\A m \in Mem :
                (mem[m].status = "active" /\ mem'[m].status = "deprecated")
                => LET new == mem'[m].superBy
                   IN  \/ mem'[new].fact = mem[m].fact
                       \/ mem'[new].status = "active" /\ mem'[new].trust >= mem[m].trust
                       \/ mem[new].held = m]_vars
  <2> SUFFICES ASSUME NEW m \in Mem, mem[m].status = "active",
                      mem'[m].status = "deprecated"
               PROVE  LET new == mem'[m].superBy
                      IN  \/ mem'[new].fact = mem[m].fact
                          \/ mem'[new].status = "active" /\ mem'[new].trust >= mem[m].trust
                          \/ mem[new].held = m
    OBVIOUS
  <2>1. Turn(mem, mem', m)
    BY <1>1, StepTurns DEF Turns
  <2> QED BY <2>1 DEF Turn, Alters, Replaced, Wins, Enters, Rises
<1> QED BY <1>1, ReferencesHold, PTL DEF Spec, NoAssassination

\* The staging floor holds against every way a row can rise.
THEOREM FloorAlwaysHeld == Spec => FloorHeld
<1>1. ASSUME LInv, [Next]_vars
      PROVE  [\A m \in Mem :
                (/\ mem[m].status = "staged" /\ mem'[m].status = "active"
                 /\ FloorApplies(mem'[m]) /\ ~mem'[m].confirmed)
                => mem'[m].age >= FloorAge]_vars
  <2> SUFFICES ASSUME NEW m \in Mem, mem[m].status = "staged", mem'[m].status = "active",
                      FloorApplies(mem'[m]), ~mem'[m].confirmed
               PROVE  mem'[m].age >= FloorAge
    OBVIOUS
  <2>1. Turn(mem, mem', m)
    BY <1>1, StepTurns DEF Turns
  <2> QED BY <2>1 DEF Turn, Alters, Replaced, Wins, Enters, Rises
<1> QED BY <1>1, ReferencesHold, PTL DEF Spec, FloorHeld

\* Whatever brings a consolidated row about, its trust and tier are those of its
\* weakest input.
THEOREM WeakestAlways == Spec => WeakestInput
<1>1. ASSUME LInv, [Next]_vars
      PROVE  [\A n \in Mem :
                (Born(n) /\ mem'[n].origin = "consolidated" /\ ~mem'[n].confirmed)
                => \A s \in mem'[n].from :
                     (mem'[s].superBy # n \/ mem'[s].fact = mem'[n].fact)
                     => /\ mem'[n].trust <= mem[s].trust
                        /\ mem[s].status = "staged" => mem'[n].status = "staged"]_vars
  <2> SUFFICES ASSUME NEW n \in Mem, Born(n)
               PROVE  Weakest(mem, mem', n)
    BY DEF Weakest
  <2>1. Turn(mem, mem', n)
    BY <1>1, StepTurns DEF Turns
  <2>2. Enters(mem, mem', n)
    BY <2>1 DEF Turn, Alters, Replaced, Wins, Born
  <2> QED BY <2>2 DEF Enters
<1> QED BY <1>1, ReferencesHold, PTL DEF Spec, WeakestInput

-----------------------------------------------------------------------------
(* What the jobs read and leave.                                           *)

\* Drafts are distilled by a reflection only.
LEMMA DraftsGrow == IInv /\ [Next]_vars => drafts' \subseteq drafts \/ Reflect
<1> SUFFICES ASSUME [Next]_vars PROVE drafts' \subseteq drafts \/ Reflect
  OBVIOUS
<1>1. CASE CallerNext
  BY <1>1 DEF CallerNext, Remember, Deliver, ReinforceUseful, ReinforceWrong
<1>2. CASE ReviewerNext
  BY <1>2 DEF ReviewerNext, ReviewConfirm, ReviewReject, ResolveSupersede, ResolveKeepBoth,
              ResolveReject, ResolveDoubt
<1>3. CASE MoveNext
  BY <1>3 DEF MoveNext, PromoteScope, ParkPromote, AgentForget, ParkForget, UserForget
<1>4. CASE AskNext
  BY <1>4 DEF AskNext, ParkRemember, Decline, ApproveRemember, ApproveForget,
              ApprovePromote, Freeze, Unfreeze
<1>5. CASE Elapse
  BY <1>5 DEF Elapse
<1>6. CASE JobNext
  BY <1>6 DEF JobNext, Dedupe, ReviewContradictions, PromoteStaged, SweepNext, Sweep,
              ReflectNext, ProposeDraft, DropDraft, Hygiene
<1>7. CASE IncidentNext
  BY <1>7 DEF IncidentNext, Quarantine, EraseSubject, RestoreItem, TombstoneItem
<1>8. CASE \E w \in drafts : ParkDraft(w)
  BY <1>8 DEF ParkDraft
<1>9. CASE UNCHANGED vars
  BY <1>9 DEF vars
<1> QED BY <1>1, <1>2, <1>3, <1>4, <1>5, <1>6, <1>7, <1>8, <1>9 DEF Next

\* What a run of dedupe bears derives from rows that are free of quarantine.
LEMMA MergeReads ==
  ASSUME IInv, Dedupe, NEW n \in Mem, Born(n), NEW s \in mem'[n].from
  PROVE  mem[s].quarantine = 0
<1>1. PICK i \in Mem : mem' = Merged(mem, i)
  BY DEF Dedupe
<1>2. \E l \in Leaders(mem) : Succeeds(mem, mem', i, n, l)
  <2>1. ASSUME NEW l \in Leaders(mem), Precedes(mem, mem', i, n, l) PROVE FALSE
    BY <2>1, GroupRows DEF Precedes, Born
  <2>2. mem'[n] # mem[n]
    BY DEF Born
  <2> QED BY <1>1, <2>1, <2>2, MergedRows, MemNat
<1>3. PICK l \in Leaders(mem) : Succeeds(mem, mem', i, n, l)
  BY <1>2
<1>4. l \in Group(mem, l) /\ Group(mem, l) \in SUBSET Mem
  BY GroupRows DEF Rows
<1>5. Sums(mem, Group(mem, l), l, mem[l].scope, mem'[n])
  BY <1>3, <1>4, ConsolidatedFields DEF Succeeds, IInv, TypeOK
<1>6. s \in Group(mem, l)
  BY <1>5 DEF Sums
<1> QED BY <1>6, GroupRows

\* The merges and the reflections of the consolidator read nothing under quarantine.
THEOREM QuarantineNeverRead == Spec => QuarantineNotRead
<1>1. ASSUME LInv, [Next]_vars
      PROVE  [/\ Dedupe => \A n \in Mem : Born(n) => \A s \in mem'[n].from : mem[s].quarantine = 0
              /\ \A w \in drafts' \ drafts : \A s \in w.srcs : mem[s].quarantine = 0]_vars
  <2>1. Dedupe => \A n \in Mem : Born(n) => \A s \in mem'[n].from : mem[s].quarantine = 0
    BY <1>1, MergeReads DEF LInv
  <2>2. ASSUME NEW w \in drafts' \ drafts, NEW s \in w.srcs PROVE mem[s].quarantine = 0
    <3>0. Reflect
      BY <1>1, <2>2, DraftsGrow DEF LInv
    <3>1. w \in Reflections
      BY <2>2, <3>0 DEF Reflect
    <3>2. PICK r \in Scopes : \E srcs \in Clusters(r), f \in Facts : w = Distilled(r, srcs, f)
      BY <3>1 DEF Reflections
    <3>3. w.srcs \in Clusters(r)
      BY <3>2 DEF Distilled
    <3> QED BY <3>3 DEF Clusters, Working
  <2> QED BY <2>1, <2>2
<1> QED BY <1>1, ReferencesHold, PTL DEF Spec, QuarantineNotRead

\* Two rows that dedupe would merge are in one group, which has a leader.
LEMMA GroupLed ==
  ASSUME NEW t, NEW k \in Mem, NEW m \in Group(t, k), m # k
  PROVE  \E l \in Leaders(t) : k \in Group(t, l) /\ m \in Group(t, l)
<1>1. Group(t, k) \in SUBSET Nat /\ Group(t, k) \in SUBSET Mem /\ Group(t, k) # {}
  BY MemNat DEF Group
<1>2. PICK l \in Group(t, k) : \A j \in Group(t, k) : l <= j
  BY <1>1, LeastNat
<1>3. Group(t, l) = Group(t, k)
  BY <1>2 DEF Group
<1>4. k \in Group(t, k)
  BY DEF Group
<1>5. \E j \in Group(t, l) : j # l
  BY <1>3, <1>4
<1>6. l \in Leaders(t)
  BY <1>1, <1>2, <1>3, <1>5 DEF Leaders
<1> QED BY <1>3, <1>4, <1>6

\* After a merge no two working rows of a scope say the same.
LEMMA MergeSettles ==
  ASSUME NEW t \in [Mem -> Row], NEW n \in Mem, Fresh(t, n),
         n + Cardinality(Leaders(t)) - 1 \in Mem, NEW u, u = Merged(t, n)
  PROVE  Leaders(u) = {}
<1>0. n \in Nat /\ Leaders(t) \in SUBSET Mem
  BY MemNat DEF Leaders
<1>1. ASSUME NEW m \in Mem, Working(u, m)
      PROVE  \/ \E l \in Leaders(t) :
                  /\ SuccessorOf(n, Leaders(t), l) = m
                  /\ u[m].scope = t[l].scope /\ u[m].fact = t[l].fact
             \/ (\A l \in Leaders(t) : m \notin Group(t, l)) /\ u[m] = t[m]
  <2>1. ASSUME NEW l \in Leaders(t), Succeeds(t, u, n, m, l)
        PROVE  /\ SuccessorOf(n, Leaders(t), l) = m
               /\ u[m].scope = t[l].scope /\ u[m].fact = t[l].fact
    <3>1. l \in Group(t, l) /\ Group(t, l) \in SUBSET Mem
      BY GroupRows DEF Rows
    <3>2. Sums(t, Group(t, l), l, t[l].scope, u[m])
      BY <2>1, <3>1, ConsolidatedFields DEF Succeeds
    <3> QED BY <2>1, <3>2 DEF Succeeds, Sums
  <2>2. ASSUME NEW l \in Leaders(t), Precedes(t, u, n, m, l) PROVE FALSE
    <3>1. u[m].status = "deprecated"
      BY <2>2 DEF Precedes, Row
    <3> QED BY <1>1, <3>1 DEF Working
  <2> QED BY <1>0, <2>1, <2>2, MergedRows
<1>2. ASSUME NEW m \in Mem, Working(u, m), NEW k \in Mem, Working(u, k),
             u[k].scope = u[m].scope, u[k].fact = u[m].fact,
             NEW l \in Leaders(t), SuccessorOf(n, Leaders(t), l) = m,
             u[m].scope = t[l].scope, u[m].fact = t[l].fact
      PROVE  k = m
  <2>1. l \in Mem /\ Working(t, l)
    BY DEF Leaders, Group
  <2>2. ASSUME NEW j \in Leaders(t), SuccessorOf(n, Leaders(t), j) = k,
               u[k].scope = t[j].scope, u[k].fact = t[j].fact
        PROVE  k = m
    <3>1. j \in Mem /\ Working(t, j)
      BY DEF Leaders, Group
    <3>2. j \in Group(t, l) /\ l \in Group(t, j)
      BY <1>2, <2>1, <2>2, <3>1 DEF Group
    <3>3. j <= l /\ l <= j
      BY <3>2 DEF Leaders
    <3>4. j = l
      BY <2>1, <3>1, <3>3, MemNat
    <3> QED BY <1>2, <2>2, <3>4
  <2>3. ASSUME \A j \in Leaders(t) : k \notin Group(t, j), u[k] = t[k] PROVE FALSE
    <3>1. k \in Group(t, l)
      BY <1>2, <2>1, <2>3 DEF Group, Working
    <3> QED BY <2>3, <3>1
  <2> QED BY <1>1, <1>2, <2>2, <2>3
<1>3. ASSUME NEW m \in Mem, Working(u, m), NEW k \in Mem, Working(u, k),
             u[k].scope = u[m].scope, u[k].fact = u[m].fact
      PROVE  k = m
  <2>1. CASE /\ \A l \in Leaders(t) : m \notin Group(t, l)
             /\ u[m] = t[m] /\ u[k] = t[k]
    <3>1. k \in Group(t, m)
      BY <1>3, <2>1 DEF Group, Working
    <3> QED BY <2>1, <3>1, GroupLed
  <2>2. \/ \E l \in Leaders(t) : /\ SuccessorOf(n, Leaders(t), l) = m
                                 /\ u[m].scope = t[l].scope /\ u[m].fact = t[l].fact
        \/ (\A l \in Leaders(t) : m \notin Group(t, l)) /\ u[m] = t[m]
    BY <1>1, <1>3
  <2>3. \/ \E l \in Leaders(t) : /\ SuccessorOf(n, Leaders(t), l) = k
                                 /\ u[k].scope = t[l].scope /\ u[k].fact = t[l].fact
        \/ u[k] = t[k]
    BY <1>1, <1>3
  <2>4. CASE \E l \in Leaders(t) : /\ SuccessorOf(n, Leaders(t), l) = m
                                   /\ u[m].scope = t[l].scope /\ u[m].fact = t[l].fact
    BY <1>2, <1>3, <2>4
  <2>5. CASE \E l \in Leaders(t) : /\ SuccessorOf(n, Leaders(t), l) = k
                                   /\ u[k].scope = t[l].scope /\ u[k].fact = t[l].fact
    BY <1>2, <1>3, <2>5
  <2> QED BY <2>1, <2>2, <2>3, <2>4, <2>5
<1>4. \A m \in Mem : \A k \in Group(u, m) : k = m
  BY <1>3 DEF Group
<1> QED BY <1>4 DEF Leaders

\* One run of dedupe leaves nothing for the next.
THEOREM DedupeAlwaysSettles == Spec => DedupeSettles
<1>1. ASSUME LInv, [Next]_vars
      PROVE  [Dedupe => (Leaders(mem) = {})']_vars
  <2> SUFFICES ASSUME Dedupe PROVE (Leaders(mem) = {})'
    OBVIOUS
  <2>1. mem \in [Mem -> Row]
    BY <1>1 DEF LInv, IInv, TypeOK
  <2>2. Leaders(mem') = {}
    BY <2>1, MergeSettles DEF Dedupe
  <2> QED BY <2>2 DEF Leaders, Group, Working
<1> QED BY <1>1, ReferencesHold, PTL DEF Spec, DedupeSettles

-----------------------------------------------------------------------------
(* Lineage quarantine and erasure.                                         *)

\* The closure holds its seeds, and what derives from it.
LEMMA ClosureHolds ==
  ASSUME NEW t, NEW seeds \in SUBSET Mem
  PROVE  LET closure == DerivedClosure(t, seeds)
         IN  /\ seeds \subseteq closure
             /\ \A m \in Mem : t[m].from \cap closure # {} => m \in closure
  BY DEF DerivedClosure

\* It lies within every set that does.
LEMMA ClosureLeast ==
  ASSUME NEW t, NEW seeds, NEW S \in SUBSET Mem, seeds \subseteq S,
         \A m \in Mem : t[m].from \cap S # {} => m \in S
  PROVE  DerivedClosure(t, seeds) \subseteq S
  BY DEF DerivedClosure

\* A quarantine changes the count of open items only.
LEMMA QuarantinedFields ==
  ASSUME NEW t \in [Mem -> Row], NEW seeds, NEW m \in Mem, NEW u, u = Quarantined(t, seeds)
  PROVE  /\ u[m].status = t[m].status /\ u[m].from = t[m].from
         /\ u[m].evidence = t[m].evidence
         /\ (m \in DerivedClosure(t, seeds) /\ IsLive(t[m])) => u[m].quarantine # 0
<1> DEFINE open == t[m].quarantine + 1
           touched == [t[m] EXCEPT !.quarantine = open]
<1>1. t[m] \in Row /\ t[m].quarantine \in 0..MaxQuarantine
  BY DEF Row
<1>2. open # 0
  BY <1>1, BoundAssumption
<1>3. u[m] = IF m \in DerivedClosure(t, seeds) /\ t[m].status \in Live \cup {"deprecated"}
             THEN touched ELSE t[m]
  BY DEF Quarantined
<1> HIDE DEF open
<1>4. /\ touched.status = t[m].status /\ touched.from = t[m].from
      /\ touched.evidence = t[m].evidence /\ touched.quarantine = open
  BY <1>1 DEF Row
<1> HIDE DEF touched
<1> QED BY <1>2, <1>3, <1>4 DEF IsLive

\* After a lineage quarantine nothing learned from the author is handed out.
LEMMA QuarantineContains ==
  ASSUME NEW t \in [Mem -> Row], NEW a, NEW u, u = Quarantined(t, LearnedFrom(t, a)),
         NEW m \in DerivedClosure(u, LearnedFrom(u, a))
  PROVE  ~Recallable(u, m)
<1> DEFINE seeds == LearnedFrom(t, a)
<1>1. \A k \in Mem : /\ u[k].status = t[k].status /\ u[k].from = t[k].from
                     /\ u[k].evidence = t[k].evidence
                     /\ (k \in DerivedClosure(t, seeds) /\ IsLive(t[k]))
                        => u[k].quarantine # 0
  BY QuarantinedFields
<1>2. LearnedFrom(u, a) = seeds /\ seeds \in SUBSET Mem
  BY <1>1 DEF LearnedFrom, Rows
<1> HIDE DEF seeds
<1>3. DerivedClosure(t, seeds) \in SUBSET Mem
  BY DEF DerivedClosure
<1>4. \A k \in Mem : u[k].from \cap DerivedClosure(t, seeds) # {}
                     => k \in DerivedClosure(t, seeds)
  BY <1>1, <1>2, ClosureHolds
<1>5. DerivedClosure(u, seeds) \subseteq DerivedClosure(t, seeds)
  BY <1>2, <1>3, <1>4, ClosureHolds, ClosureLeast
<1>6. m \in Mem /\ m \in DerivedClosure(t, seeds)
  BY <1>2, <1>3, <1>5
<1> QED BY <1>1, <1>6 DEF Recallable, IsLive

\* A lineage quarantine reaches everything learned from the author.
THEOREM QuarantineAlwaysReaches == Spec => QuarantineReaches
<1>1. ASSUME LInv, [Next]_vars
      PROVE  [\A u \in Users : Quarantine(LearnedFrom(mem, u)) => Contained(u)']_vars
  <2> SUFFICES ASSUME NEW u \in Users, Quarantine(LearnedFrom(mem, u))
               PROVE  Contained(u)'
    OBVIOUS
  <2>1. mem \in [Mem -> Row]
    BY <1>1 DEF LInv, IInv, TypeOK
  <2>2. mem' = Quarantined(mem, LearnedFrom(mem, u))
    BY DEF Quarantine
  <2>3. \A m \in DerivedClosure(mem', LearnedFrom(mem', u)) : ~Recallable(mem', m)
    BY <2>1, <2>2, QuarantineContains
  <2> QED BY <2>3 DEF Contained, DerivedClosure, LearnedFrom, Rows, Recallable, IsLive
<1> QED BY <1>1, ReferencesHold, PTL DEF Spec, QuarantineReaches

\* What an erasure leaves: the rows of the closure are wiped, and nothing else names
\* the subject, rests on their episodes or derives from the closure.
LEMMA ErasureLeaves ==
  ASSUME NEW t \in [Mem -> Row], Linked(t), NEW x, NEW n \in Nat,
         \A m \in Rows(t) : m < n, NEW winner, NEW u,
         u = Erased(t, n, DerivedClosure(t, About(t, x)), winner)
  PROVE  LET closure == DerivedClosure(t, About(t, x))
         IN  /\ About(u, x) \subseteq closure
             /\ \A m \in Mem : u[m].from \cap closure # {} => m \in closure
             /\ \A m \in closure : u[m].fact = Blank /\ ~IsLive(u[m])
<1> DEFINE seeds == About(t, x)
           closure == DerivedClosure(t, seeds)
           again == Regenerated(t, closure)
<1>1. /\ seeds \in SUBSET Rows(t) /\ closure \in SUBSET Rows(t)
      /\ closure \in SUBSET Mem /\ seeds \subseteq closure
      /\ \A m \in Mem : t[m].from \cap closure # {} => m \in closure
  BY AboutRows, ClosureRows, ClosureHolds DEF Rows
<1>2. \A m \in Rows(t) : m \notin closure =>
        x \notin t[m].about /\ \A e \in t[m].evidence : Author[e] # x
  BY <1>1 DEF About, LearnedFrom
<1>3. u = Erased(t, n, closure, winner)
  OBVIOUS
<1> HIDE DEF seeds, closure
<1>4. ASSUME NEW m \in Mem, NEW r \in again, Regrows(t, u, n, closure, winner, m, r)
      PROVE  /\ m \notin closure /\ m \notin About(u, x)
             /\ u[m].from \cap closure = {}
  <2> DEFINE inputs == Survivors(t, closure, r)
  <2>1. again \in SUBSET Mem
    BY <1>1 DEF Regenerated
  <2>2. t[m].status = "none"
    BY <1>4, <2>1, SuccessorFresh DEF Regrows
  <2>3. m \notin closure
    BY <1>1, <2>2 DEF Rows
  <2>4. inputs \in SUBSET (Rows(t) \ closure) /\ inputs # {} /\ inputs \in SUBSET Mem
    BY <1>1, RegeneratedRows DEF Rows
  <2>5. Sums(t, inputs, winner[r], t[r].scope, u[m])
    <3> HIDE DEF inputs
    <3> QED BY <1>4, <2>4, ConsolidatedFields DEF Regrows, inputs
  <2> HIDE DEF inputs
  <2>6. x \notin u[m].about /\ \A e \in u[m].evidence : Author[e] # x
    BY <1>2, <2>4, <2>5 DEF Sums
  <2>7. u[m].from \cap closure = {}
    BY <2>4, <2>5 DEF Sums
  <2> QED BY <2>3, <2>6, <2>7 DEF About, LearnedFrom
<1>5. ASSUME NEW m \in Mem, m \in closure, Wiped(t, u, m)
      PROVE  u[m].fact = Blank /\ ~IsLive(u[m])
  <2>1. u[m].fact = Blank /\ u[m].status = "tombstoned"
    BY <1>5 DEF Wiped, Row
  <2> QED BY <2>1 DEF IsLive, Live
<1>6. ASSUME NEW m \in Mem, m \notin closure, u[m] = t[m]
      PROVE  m \notin About(u, x) /\ u[m].from \cap closure = {}
  <2>1. m \in About(u, x) => m \in Rows(t)
    BY <1>6 DEF About, LearnedFrom, Rows
  <2> QED BY <1>1, <1>2, <1>6, <2>1 DEF About, LearnedFrom
<1>7. ASSUME NEW m \in Mem
      PROVE  \/ \E r \in again : Regrows(t, u, n, closure, winner, m, r)
             \/ m \in closure /\ Wiped(t, u, m)
             \/ m \notin closure /\ u[m] = t[m]
  <2>1. ErasedRow(t, n, closure, winner, m, u)
    BY <1>3, ErasedRows
  <2> QED BY <2>1 DEF ErasedRow
<1>8. About(u, x) \subseteq Mem
  BY DEF About, LearnedFrom, Rows
<1> HIDE DEF again
<1>9. \A m \in Mem : m \in About(u, x) => m \in closure
  BY <1>4, <1>6, <1>7
<1>10. \A m \in Mem : u[m].from \cap closure # {} => m \in closure
  BY <1>4, <1>6, <1>7
<1>11. \A m \in closure : u[m].fact = Blank /\ ~IsLive(u[m])
  BY <1>1, <1>4, <1>5, <1>7
<1> QED BY <1>8, <1>9, <1>10, <1>11 DEF closure, seeds

\* An erasure reaches everything that is about the subject, rests on their episodes
\* or derives from either, and what is generated again does neither.
THEOREM ErasureAlwaysReaches == Spec => ErasureReaches
<1>1. ASSUME LInv, [Next]_vars
      PROVE  [\A u \in Users : EraseSubject(u) => Forgotten(u)']_vars
  <2> SUFFICES ASSUME NEW x \in Users, EraseSubject(x)
               PROVE  Forgotten(x)'
    OBVIOUS
  <2> DEFINE closure == DerivedClosure(mem, About(mem, x))
  <2>1. mem \in [Mem -> Row] /\ Linked(mem) /\ IInv
    BY <1>1 DEF LInv, IInv, TypeOK
  <2>2. closure \in SUBSET Mem
    BY DEF DerivedClosure
  <2>3. /\ About(mem', x) \subseteq closure
        /\ \A m \in Mem : mem'[m].from \cap closure # {} => m \in closure
        /\ \A m \in closure : mem'[m].fact = Blank /\ ~IsLive(mem'[m])
    BY <2>1, ErasureChoices, ErasureLeaves
  <2> HIDE DEF closure
  <2>4. DerivedClosure(mem', About(mem', x)) \subseteq closure
    BY <2>2, <2>3, ClosureLeast
  <2>5. /\ About(mem', x) \cap {m \in Mem : IsLive(mem'[m])} = {}
        /\ \A m \in DerivedClosure(mem', About(mem', x)) : mem'[m].fact = Blank
    BY <2>3, <2>4
  <2> QED BY <2>5 DEF Forgotten, DerivedClosure, About, LearnedFrom, Rows, IsLive
<1> QED BY <1>1, ReferencesHold, PTL DEF Spec, ErasureReaches

-----------------------------------------------------------------------------
(* The parts.                                                              *)

\* Merges and reflections take steps of the whole.
LEMMA MergeSteps == MergeNow => Next
<1>1. ASSUME NEW w \in Candidates, Remember(w, TRUE)
      PROVE  Next
  BY <1>1 DEF Next, CallerNext
<1>2. ASSUME NEW a \in Agents, NEW m \in Mem, NEW s \in Scopes, PromoteScope(a, m, s)
      PROVE  Next
  BY <1>2 DEF Next, MoveNext
<1>3. ASSUME NEW m \in Mem, Hygiene({m})
      PROVE  Next
  <2>1. {m} \in SUBSET {k \in Mem : IsLive(mem[k])}
    BY <1>3 DEF Hygiene
  <2> QED BY <1>3, <2>1 DEF Next, JobNext
<1>4. Dedupe \/ ReflectNext => Next
  BY DEF Next, JobNext
<1> QED BY <1>1, <1>2, <1>3, <1>4 DEF MergeNow

\* Each part that a run looks at by itself takes steps of the whole, so what is proved
\* of the whole is proved of the part.
THEOREM PartsOfTheWhole ==
  /\ WriteSpec => Spec
  /\ MergeSpec => Spec
  /\ SweepSpec => Spec
  /\ IncidentSpec => Spec
<1>1. CallerNext \/ ReviewerNext \/ Elapse => Next
  BY DEF Next
<1>2. SweepNow => Next
  <2>1. (\E m \in Mem : ResolveKeepBoth(m)) => Next
    BY DEF Next, ReviewerNext
  <2> QED BY <2>1 DEF SweepNow, Next, JobNext
<1>3. IncidentNow => Next
  <2>1. (\E w \in Candidates : Remember(w, TRUE)) => Next
    BY DEF Next, CallerNext
  <2> QED BY <2>1 DEF IncidentNow, Next, JobNext
<1> QED BY <1>1, <1>2, <1>3, MergeSteps, PTL
        DEF Spec, WriteSpec, MergeSpec, SweepSpec, IncidentSpec

-----------------------------------------------------------------------------
(* The write path alone, where no row moves between scopes.                *)

\* Episodes of two authors or of two days.
TwoSides(E) == \E e, k \in E : Author[e] # Author[k] \/ Day[e] # Day[k]

\* A row says the same in the same scope, does not come back to life, loses no
\* evidence, and counts as re-observed for a reason.
Keeps(old, new) ==
  /\ new.fact = old.fact /\ new.scope = old.scope /\ new.entered = old.entered
  /\ IsLive(new) => IsLive(old)
  /\ old.evidence \subseteq new.evidence
  /\ new.reobserved => \/ old.reobserved
                       \/ old.evidence = {}
                       \/ TwoSides(new.evidence)

Keeping(t, u) == \A m \in Mem : Keeps(t[m], u[m])

\* The row of a candidate arrives where the duplicate check found nothing.
Arrives(t, u, n, w) ==
  /\ Duplicates(t, w) = {}
  /\ \A m \in Mem \ {n} : Keeps(t[m], u[m])
  /\ u[n].fact = w.fact /\ u[n].scope = w.scope
  /\ EvidenceOf(w) \subseteq u[n].evidence /\ ~u[n].reobserved

\* A row that only some other fields change of.
LEMMA KeepsSame ==
  ASSUME NEW old, NEW new, new.fact = old.fact, new.scope = old.scope,
         new.entered = old.entered, new.evidence = old.evidence,
         new.reobserved = old.reobserved, IsLive(new) => IsLive(old)
  PROVE  Keeps(old, new)
  BY DEF Keeps

\* A step that writes one row.
LEMMA KeepingOne ==
  ASSUME NEW t \in [Mem -> Row], NEW m \in Mem, NEW row, Keeps(t[m], row)
  PROVE  Keeping(t, [t EXCEPT ![m] = row])
<1> DEFINE u == [t EXCEPT ![m] = row]
<1>1. u[m] = row /\ \A k \in Mem \ {m} : u[k] = t[k]
  OBVIOUS
<1> HIDE DEF u
<1>2. Keeping(t, u)
  BY <1>1, KeepsSame DEF Keeping
<1> QED BY <1>2 DEF u

\* The micro-run of status promotion raises staged rows, which are live already.
LEMMA KeepingPromoted ==
  ASSUME NEW t \in [Mem -> Row], NEW m \in Mem, NEW row \in Row, Keeps(t[m], row)
  PROVE  Keeping(t, MaybePromote([t EXCEPT ![m] = row], m))
<1> DEFINE risen == [row EXCEPT !.status = "active"]
           touched == [t EXCEPT ![m] = row]
<1>1. MaybePromote(touched, m) \in {touched, [t EXCEPT ![m] = risen]}
  BY DEF MaybePromote, Promote
<1>2. CASE ~PromotionDue(touched, m)
  BY <1>2, KeepingOne DEF MaybePromote
<1>3. CASE PromotionDue(touched, m)
  <2>1. MaybePromote(touched, m) = [t EXCEPT ![m] = risen] /\ row.status = "staged"
    BY <1>3 DEF MaybePromote, Promote, PromotionDue
  <2>2. /\ risen.fact = row.fact /\ risen.scope = row.scope
        /\ risen.entered = row.entered /\ risen.evidence = row.evidence
        /\ risen.reobserved = row.reobserved
    BY DEF Row
  <2>3. IsLive(row)
    BY <2>1 DEF IsLive, Live
  <2> HIDE DEF risen
  <2>4. Keeps(t[m], risen)
    BY <2>2, <2>3 DEF Keeps
  <2> QED BY <2>1, <2>4, KeepingOne
<1> QED BY <1>2, <1>3

\* Reads, reinforcement, triage, doubts.
LEMMA DeliverKeeps ==
  ASSUME IInv, NEW m \in Mem, Deliver(m)
  PROVE  Keeping(mem, mem')
<1> DEFINE row == [mem[m] EXCEPT !.used = TRUE]
<1>1. mem \in [Mem -> Row] /\ mem[m] \in Row
  BY SoundAt DEF IInv, Sound
<1>2. mem' = [mem EXCEPT ![m] = row]
  BY <1>1 DEF Deliver
<1>3. Keeps(mem[m], row)
  BY <1>1, KeepsSame DEF Row, IsLive
<1> HIDE DEF row
<1> QED BY <1>1, <1>2, <1>3, KeepingOne

LEMMA ReinforceUsefulKeeps ==
  ASSUME IInv, NEW m \in Mem, ReinforceUseful(m)
  PROVE  Keeping(mem, mem')
<1> DEFINE count == IF mem[m].useful < PromoteUseful THEN mem[m].useful + 1
                    ELSE mem[m].useful
           row == [mem[m] EXCEPT !.useful = count, !.used = TRUE]
<1>1. mem \in [Mem -> Row] /\ mem[m] \in Row
  BY SoundAt DEF IInv, Sound
<1>2. mem' = MaybePromote([mem EXCEPT ![m] = row], m)
  <2>1. [mem EXCEPT ![m].useful = IF @ < PromoteUseful THEN @ + 1 ELSE @,
                    ![m].used = TRUE] = [mem EXCEPT ![m] = row]
    BY <1>1
  <2> QED BY <2>1 DEF ReinforceUseful
<1>3. mem[m].useful \in 0..PromoteUseful
  BY <1>1 DEF Row
<1>4. count \in 0..PromoteUseful
  BY <1>3, BoundAssumption
<1> HIDE DEF count
<1>5. /\ row.fact = mem[m].fact /\ row.scope = mem[m].scope
      /\ row.entered = mem[m].entered /\ row.evidence = mem[m].evidence
      /\ row.reobserved = mem[m].reobserved /\ row.status = mem[m].status
      /\ row \in Row
  BY <1>1, <1>4 DEF Row
<1> HIDE DEF row
<1>6. Keeps(mem[m], row)
  BY <1>5, KeepsSame DEF IsLive
<1> QED BY <1>1, <1>2, <1>5, <1>6, KeepingPromoted

LEMMA ReinforceWrongKeeps ==
  ASSUME IInv, NEW m \in Mem, ReinforceWrong(m)
  PROVE  Keeping(mem, mem')
<1> DEFINE row == [mem[m] EXCEPT !.doubts = @ + 1, !.used = TRUE]
<1>1. mem \in [Mem -> Row] /\ mem[m] \in Row
  BY SoundAt DEF IInv, Sound
<1>2. mem' = [mem EXCEPT ![m] = row]
  BY <1>1 DEF ReinforceWrong
<1>3. /\ row.fact = mem[m].fact /\ row.scope = mem[m].scope
      /\ row.entered = mem[m].entered /\ row.evidence = mem[m].evidence
      /\ row.reobserved = mem[m].reobserved /\ row.status = mem[m].status
  BY <1>1 DEF Row
<1> HIDE DEF row
<1>4. Keeps(mem[m], row)
  BY <1>3, KeepsSame DEF IsLive
<1> QED BY <1>1, <1>2, <1>4, KeepingOne

LEMMA ReviewConfirmKeeps ==
  ASSUME IInv, NEW m \in Mem, ReviewConfirm(m)
  PROVE  Keeping(mem, mem')
<1> DEFINE row == [mem[m] EXCEPT !.confirmed = TRUE, !.used = TRUE, !.status = "active"]
<1>1. mem \in [Mem -> Row] /\ mem[m] \in Row /\ IsLive(mem[m])
  BY SoundAt DEF IInv, Sound, ReviewConfirm, IsLive, Live
<1>2. mem' = [mem EXCEPT ![m] = row]
  BY <1>1 DEF ReviewConfirm, Promote, Confirm
<1>3. /\ row.fact = mem[m].fact /\ row.scope = mem[m].scope
      /\ row.entered = mem[m].entered /\ row.evidence = mem[m].evidence
      /\ row.reobserved = mem[m].reobserved
  BY <1>1 DEF Row
<1> HIDE DEF row
<1>4. Keeps(mem[m], row)
  BY <1>1, <1>3, KeepsSame
<1> QED BY <1>1, <1>2, <1>4, KeepingOne

\* Closing the item on a row, archived or not.
LEMMA ClosedKeeps ==
  ASSUME NEW t \in [Mem -> Row], NEW m \in Mem
  PROVE  /\ Keeping(t, [Archive(t, m) EXCEPT ![m].held = NoMem])
         /\ Keeping(t, [t EXCEPT ![m].held = NoMem])
<1> DEFINE gone == [t[m] EXCEPT !.status = "archived", !.held = NoMem]
           open == [t[m] EXCEPT !.held = NoMem]
<1>1. t[m] \in Row
  OBVIOUS
<1>2. [Archive(t, m) EXCEPT ![m].held = NoMem] = [t EXCEPT ![m] = gone]
  BY <1>1 DEF Archive
<1>3. [t EXCEPT ![m].held = NoMem] = [t EXCEPT ![m] = open]
  BY <1>1
<1>4. Keeps(t[m], gone) /\ Keeps(t[m], open)
  <2>1. ~IsLive(gone)
    BY <1>1 DEF Row, IsLive, Live
  <2>2. IsLive(open) => IsLive(t[m])
    BY <1>1 DEF Row, IsLive
  <2>3. /\ gone.fact = t[m].fact /\ gone.scope = t[m].scope
        /\ gone.entered = t[m].entered /\ gone.evidence = t[m].evidence
        /\ gone.reobserved = t[m].reobserved
    BY <1>1 DEF Row
  <2>4. /\ open.fact = t[m].fact /\ open.scope = t[m].scope
        /\ open.entered = t[m].entered /\ open.evidence = t[m].evidence
        /\ open.reobserved = t[m].reobserved
    BY <1>1 DEF Row
  <2> HIDE DEF gone, open
  <2> QED BY <2>1, <2>2, <2>3, <2>4, KeepsSame
<1> HIDE DEF gone, open
<1> QED BY <1>1, <1>2, <1>3, <1>4, KeepingOne

LEMMA ResolveDoubtKeeps ==
  ASSUME IInv, NEW m \in Mem, ResolveDoubt(m)
  PROVE  Keeping(mem, mem')
<1> DEFINE row == [mem[m] EXCEPT !.doubts = @ - 1]
<1>1. mem \in [Mem -> Row] /\ mem[m] \in Row
  BY SoundAt DEF IInv, Sound
<1>2. mem' = [mem EXCEPT ![m] = row]
  BY <1>1 DEF ResolveDoubt
<1>3. /\ row.fact = mem[m].fact /\ row.scope = mem[m].scope
      /\ row.entered = mem[m].entered /\ row.evidence = mem[m].evidence
      /\ row.reobserved = mem[m].reobserved /\ row.status = mem[m].status
  BY <1>1 DEF Row
<1> HIDE DEF row
<1>4. Keeps(mem[m], row)
  BY <1>3, KeepsSame DEF IsLive
<1> QED BY <1>1, <1>2, <1>4, KeepingOne

\* The acceptance of a challenger raises it only if it was staged.
LEMMA AcceptKeeps ==
  ASSUME NEW t \in [Mem -> Row], NEW c \in Mem
  PROVE  Keeping(t, Accept(t, c)) /\ Accept(t, c) \in [Mem -> Row]
<1> DEFINE row == [t[c] EXCEPT !.status = IF t[c].status = "staged" THEN "active" ELSE @,
                               !.confirmed = TRUE, !.used = TRUE, !.held = NoMem]
<1>1. t[c] \in Row
  OBVIOUS
<1>2. Accept(t, c) = [t EXCEPT ![c] = row] /\ row \in Row
  BY AcceptRow
<1>3. /\ row.fact = t[c].fact /\ row.scope = t[c].scope
      /\ row.entered = t[c].entered /\ row.evidence = t[c].evidence
      /\ row.reobserved = t[c].reobserved
      /\ row.status = IF t[c].status = "staged" THEN "active" ELSE t[c].status
  BY <1>1 DEF Row
<1> HIDE DEF row
<1>4. Keeps(t[c], row)
  BY <1>3, KeepsSame DEF IsLive, Live
<1> QED BY <1>2, <1>4, KeepingOne

\* Steps that keep, one after the other.
LEMMA KeepingTwice ==
  ASSUME NEW t, NEW u, NEW v, Keeping(t, u), NEW m \in Mem,
         \A k \in Mem \ {m} : v[k] = u[k],
         v[m].fact = u[m].fact, v[m].scope = u[m].scope, v[m].entered = u[m].entered,
         v[m].evidence = u[m].evidence, v[m].reobserved = u[m].reobserved,
         IsLive(v[m]) => IsLive(u[m])
  PROVE  Keeping(t, v)
  BY DEF Keeping, Keeps

LEMMA ResolveKeeps ==
  ASSUME IInv, NEW c \in Mem, ResolveSupersede(c) \/ ResolveKeepBoth(c)
  PROVE  Keeping(mem, mem')
<1> DEFINE old == mem[c].held
           u == Accept(mem, c)
           replaced == [u[old] EXCEPT !.status = "deprecated", !.closed = TRUE, !.superBy = c]
           closed == [u[old] EXCEPT !.closed = TRUE, !.confirmed = TRUE, !.used = TRUE]
<1>1. mem \in [Mem -> Row] /\ mem[c].held # NoMem
  BY DEF IInv, Sound, ResolveSupersede, ResolveKeepBoth
<1>2. old \in Mem /\ old < c
  BY <1>1, HeldOlder
<1>3. old # c
  BY <1>2 DEF Mem
<1>4. Keeping(mem, u) /\ u \in [Mem -> Row]
  BY <1>1, AcceptKeeps
<1>5. CASE ResolveSupersede(c)
  <2>1. mem' = Supersede(u, old, c)
    BY <1>5 DEF ResolveSupersede
  <2> HIDE DEF u, old
  <2> DEFINE v == [u EXCEPT ![old] = replaced]
             heir == [u[c] EXCEPT !.from = @ \cup {old}]
  <2>2. mem' = [v EXCEPT ![c] = heir]
    BY <1>2, <1>3, <1>4, <2>1 DEF Supersede
  <2>3. u[old] \in Row /\ u[c] \in Row
    BY <1>2, <1>4
  <2>4. /\ replaced.fact = u[old].fact /\ replaced.scope = u[old].scope
        /\ replaced.entered = u[old].entered /\ replaced.evidence = u[old].evidence
        /\ replaced.reobserved = u[old].reobserved /\ ~IsLive(replaced)
    BY <2>3 DEF Row, IsLive, Live
  <2>5. /\ heir.fact = u[c].fact /\ heir.scope = u[c].scope
        /\ heir.entered = u[c].entered /\ heir.evidence = u[c].evidence
        /\ heir.reobserved = u[c].reobserved /\ heir.status = u[c].status
    BY <2>3 DEF Row
  <2>6. /\ v[old] = replaced /\ v[c] = u[c] /\ \A k \in Mem \ {old} : v[k] = u[k]
        /\ mem'[c] = heir /\ \A k \in Mem \ {c} : mem'[k] = v[k]
    BY <1>2, <1>3, <1>4, <2>2
  <2> HIDE DEF replaced, heir, v
  <2>7. Keeping(mem, v)
    BY <1>2, <1>4, <2>4, <2>6, KeepingTwice
  <2> QED BY <2>5, <2>6, <2>7, KeepingTwice DEF IsLive
<1>6. CASE ResolveKeepBoth(c)
  <2>1. mem' = [u EXCEPT ![old].closed = TRUE, ![old].confirmed = TRUE, ![old].used = TRUE]
    BY <1>6 DEF ResolveKeepBoth
  <2> HIDE DEF u, old
  <2>2. /\ mem'[old] = closed /\ \A k \in Mem \ {old} : mem'[k] = u[k]
    BY <1>2, <1>4, <2>1
  <2>3. u[old] \in Row
    BY <1>2, <1>4
  <2>4. /\ closed.fact = u[old].fact /\ closed.scope = u[old].scope
        /\ closed.entered = u[old].entered /\ closed.evidence = u[old].evidence
        /\ closed.reobserved = u[old].reobserved /\ closed.status = u[old].status
    BY <2>3 DEF Row
  <2> HIDE DEF closed
  <2> QED BY <1>2, <1>4, <2>2, <2>4, KeepingTwice DEF IsLive
<1> QED BY <1>5, <1>6

LEMMA ElapseKeeps ==
  ASSUME IInv, Elapse
  PROVE  Keeping(mem, mem')
<1>1. PICK k \in Rows(mem) :
        mem' = [m \in Mem |-> IF m \in Rows(mem) /\ m <= k /\ mem[m].age < MaxAge
                              THEN [mem[m] EXCEPT !.age = @ + 1] ELSE mem[m]]
  BY DEF Elapse
<1>2. ASSUME NEW m \in Mem PROVE Keeps(mem[m], mem'[m])
  <2>1. mem[m] \in Row
    BY SoundAt DEF IInv
  <2>2. CASE m \in Rows(mem) /\ m <= k /\ mem[m].age < MaxAge
    <3> DEFINE age == mem[m].age + 1
    <3>1. mem'[m] = [mem[m] EXCEPT !.age = age]
      BY <1>1, <2>2
    <3> HIDE DEF age
    <3> QED BY <2>1, <3>1, KeepsSame DEF Row, IsLive
  <2>3. CASE ~(m \in Rows(mem) /\ m <= k /\ mem[m].age < MaxAge)
    BY <1>1, <2>3, KeepsSame
  <2> QED BY <2>2, <2>3
<1> QED BY <1>2 DEF Keeping

\* A write that became a reinforcement counts only with independent evidence.
LEMMA ReobservedKeeps ==
  ASSUME NEW t, Sound(t), NEW d \in Mem, NEW w \in Candidate
  PROVE  Keeping(t, Reobserved(t, d, w))
<1> DEFINE confirm == w.origin = "explicit_user_ask"
           row == [t[d] EXCEPT !.evidence = @ \cup EvidenceOf(w), !.used = TRUE,
                               !.confirmed = @ \/ confirm, !.reobserved = @ \/ ~confirm]
           reinforced == [t EXCEPT ![d].evidence = @ \cup EvidenceOf(w), ![d].used = TRUE,
                                   ![d].confirmed = @ \/ confirm,
                                   ![d].reobserved = @ \/ ~confirm]
<1>1. t \in [Mem -> Row] /\ t[d] \in Row
  BY SoundAt DEF Sound
<1>2. EvidenceOf(w) \in SUBSET Episodes
  BY EpisodeAssumption DEF EvidenceOf, Candidate
<1>3. row \in Row
  BY <1>1, <1>2 DEF Row
<1>4. reinforced = [t EXCEPT ![d] = row]
  BY <1>1
<1>5. CASE ~confirm /\ ~Independent(t, d, w.eps)
  <2>1. Reobserved(t, d, w) = t
    BY <1>5 DEF Reobserved
  <2> QED BY <2>1, KeepsSame DEF Keeping
<1>6. CASE confirm \/ Independent(t, d, w.eps)
  <2>1. Reobserved(t, d, w) = MaybePromote(reinforced, d)
    BY <1>6 DEF Reobserved
  <2>2. /\ row.fact = t[d].fact /\ row.scope = t[d].scope /\ row.entered = t[d].entered
        /\ row.status = t[d].status /\ row.evidence = t[d].evidence \cup EvidenceOf(w)
        /\ row.reobserved = (t[d].reobserved \/ ~confirm)
    BY <1>1 DEF Row
  <2>3. ASSUME ~confirm, t[d].evidence # {}
        PROVE  TwoSides(row.evidence)
    <3>1. PICK e \in w.eps : \/ \A k \in t[d].evidence : Author[k] # Author[e]
                             \/ \A k \in t[d].evidence : Day[k] # Day[e]
      BY <1>6, <2>3 DEF Independent
    <3>2. e \in EvidenceOf(w)
      BY <3>1 DEF EvidenceOf
    <3>3. PICK k \in t[d].evidence : TRUE
      BY <2>3
    <3> QED BY <2>2, <3>1, <3>2, <3>3 DEF TwoSides
  <2> HIDE DEF row, reinforced
  <2>4. Keeps(t[d], row)
    BY <2>2, <2>3 DEF Keeps, IsLive
  <2> QED BY <1>1, <1>3, <1>4, <2>1, <2>4, KeepingPromoted
<1> QED BY <1>5, <1>6

\* The insertion of a candidate that is no duplicate.
LEMMA InsertionArrives ==
  ASSUME NEW t, Sound(t), NEW w \in Candidate, w.srcs \subseteq Rows(t),
         Duplicates(t, w) = {}, NEW n \in Mem, Fresh(t, n),
         NEW old \in Contradicting(t, w) \cup {NoMem}, NEW allow \in BOOLEAN
  PROVE  Arrives(t, Enacted(t, n, w, allow, old, FALSE), n, w)
<1> DEFINE status == EnteredStatus(t, w, allow)
           hold   == old # NoMem /\ MustHold(status, DeriveTrust(t, w), t[old])
           u      == Enacted(t, n, w, allow, old, FALSE)
<1>1. /\ t \in [Mem -> Row]
      /\ \A m \in Rows(t) : m \in Mem /\ m # n
  BY FreshId DEF Sound
<1>2. old # NoMem => old \in Mem /\ old # n
  BY <1>1, ContradictedRow
<1>3. Inserted(t, u, n, w, status, old, hold, FALSE)
  <2>1. \A s \in w.srcs : s < n
    BY FreshAbove
  <2>2. old = NoMem \/ (old \in Mem /\ old # n)
    BY <1>2
  <2> QED BY <2>1, <2>2, EnactedRows
<1> HIDE DEF status, hold, u
<1>4. ASSUME NEW m \in Mem \ {n} PROVE Keeps(t[m], u[m])
  <2>1. u[m] = t[m] \/ (m = old /\ old # NoMem /\ ~hold)
    BY <1>3, MemNat DEF Inserted
  <2>2. CASE u[m] = t[m]
    BY <2>2, KeepsSame
  <2>3. CASE m = old /\ old # NoMem /\ ~hold
    <3>1. u[m] = [t[m] EXCEPT !.status = "deprecated", !.closed = TRUE, !.superBy = n]
      BY <1>3, <2>3 DEF Inserted
    <3>2. t[m] \in Row
      BY <1>1
    <3>3. ~IsLive(u[m])
      BY <3>1, <3>2 DEF Row, IsLive, Live
    <3> QED BY <3>1, <3>2, <3>3, KeepsSame DEF Row
  <2> QED BY <2>1, <2>2, <2>3
<1>5. Arrives(t, u, n, w)
  BY <1>3, <1>4 DEF Arrives, Inserted
<1> QED BY <1>5 DEF u

\* Every step of the write path keeps all rows, or lets one arrive.
LEMMA WriteKeeps ==
  ASSUME LInv, CallerNext \/ ReviewerNext \/ Elapse
  PROVE  Keeping(mem, mem') \/ \E n \in Mem, w \in Candidates : Arrives(mem, mem', n, w)
<1>1. IInv /\ Sound(mem) /\ mem \in [Mem -> Row]
  BY DEF LInv, IInv, Sound
<1>2. ASSUME NEW w \in Candidates, NEW allow \in BOOLEAN, Remember(w, allow)
      PROVE  Keeping(mem, mem') \/ \E n \in Mem : Arrives(mem, mem', n, w)
  <2>1. w \in Candidate /\ EnactWrite(w, allow, FALSE)
    BY <1>2, CandidateAssumption DEF Remember, Remembered
  <2>2. CASE \E d \in Duplicates(mem, w) : mem' = Reobserved(mem, d, w)
    <3>1. Duplicates(mem, w) \subseteq Mem
      BY DEF Duplicates
    <3> QED BY <1>1, <2>1, <2>2, <3>1, ReobservedKeeps
  <2>3. CASE /\ Duplicates(mem, w) = {}
             /\ \E n \in Mem, old \in Contradicting(mem, w) \cup {NoMem} :
                  Fresh(mem, n) /\ mem' = Enacted(mem, n, w, allow, old, FALSE)
    <3>1. w.srcs \subseteq Rows(mem)
      BY <2>1 DEF EnactWrite
    <3> QED BY <1>1, <2>1, <2>3, <3>1, InsertionArrives
  <2> QED BY <2>1, <2>2, <2>3 DEF EnactWrite
<1>3. ASSUME NEW m \in Mem, Deliver(m) \/ ReinforceUseful(m) \/ ReinforceWrong(m)
      PROVE  Keeping(mem, mem')
  BY <1>1, <1>3, DeliverKeeps, ReinforceUsefulKeeps, ReinforceWrongKeeps
<1>4. ASSUME NEW m \in Mem, ReviewReject(m) \/ ResolveReject(m)
      PROVE  Keeping(mem, mem')
  <2>1. mem' \in {[Archive(mem, m) EXCEPT ![m].held = NoMem], [mem EXCEPT ![m].held = NoMem]}
    BY <1>4 DEF ReviewReject, ResolveReject
  <2> QED BY <1>1, <2>1, ClosedKeeps
<1>5. CASE ReviewerNext
  BY <1>1, <1>4, <1>5, ReviewConfirmKeeps, ResolveKeeps, ResolveDoubtKeeps DEF ReviewerNext
<1> QED BY <1>1, <1>2, <1>3, <1>5, ElapseKeeps DEF CallerNext

\* What holds of every step of the service holds of the write path.
LEMMA WriteLinked == WriteSpec => []LInv
<1>1. LInv /\ [CallerNext \/ ReviewerNext \/ Elapse]_vars => LInv'
  BY NextLinked DEF Next
<1> QED BY <1>1, InitLinked, PTL DEF WriteSpec

\* The store starts with no more than one live row.
LEMMA InitAlone ==
  ASSUME Init, NEW m \in Mem
  PROVE  /\ IsLive(mem[m]) => m = 1
         /\ mem[m].entered # "staged"
<1>1. CASE mem = EmptyStore
  BY <1>1 DEF EmptyStore, Unallocated, IsLive, Live
<1>2. CASE \E f \in Pins, s \in Scopes : mem = [EmptyStore EXCEPT ![1] = PinnedRow(f, s)]
  <2>1. PICK f \in Pins, s \in Scopes : mem = [EmptyStore EXCEPT ![1] = PinnedRow(f, s)]
    BY <1>2
  <2>2. PinnedRow(f, s).entered = "invariant"
    BY DEF PinnedRow, Unallocated
  <2>3. m # 1 => mem[m] = Unallocated
    BY <2>1 DEF EmptyStore
  <2>4. m = 1 => mem[m] = PinnedRow(f, s)
    BY <2>1 DEF EmptyStore
  <2> HIDE DEF PinnedRow
  <2> QED BY <2>2, <2>3, <2>4 DEF Unallocated, IsLive, Live
<1> QED BY <1>1, <1>2 DEF Init

\* In the write path a scope holds one live copy of a fact: the duplicate check
\* finds the copy wherever the candidate's own scope is in its chain.
THEOREM NeverTwins == WriteSpec => []NoTwins
<1>1. Init => NoTwins
  BY InitAlone DEF NoTwins
<1>2. ASSUME LInv, NoTwins, [CallerNext \/ ReviewerNext \/ Elapse]_vars
      PROVE  NoTwins'
  <2> SUFFICES ASSUME NEW m \in Mem, NEW k \in Mem, IsLive(mem'[m]), IsLive(mem'[k]),
                      mem'[m].fact = mem'[k].fact, mem'[m].scope = mem'[k].scope
               PROVE  m = k
    BY DEF NoTwins, IsLive
  <2>1. CASE UNCHANGED vars
    BY <1>2, <2>1 DEF NoTwins, vars
  <2>2. CASE Keeping(mem, mem')
    BY <1>2, <2>2 DEF NoTwins, Keeping, Keeps
  <2>3. CASE \E n \in Mem, w \in Candidates : Arrives(mem, mem', n, w)
    <3>1. PICK n \in Mem, w \in Candidates : Arrives(mem, mem', n, w)
      BY <2>3
    <3>2. w \in Candidate /\ w.scope \in ChainSet(w.scope)
      BY CandidateAssumption, TargetAssumption DEF Candidate
    <3>3. ASSUME NEW j \in Mem \ {n}, IsLive(mem'[j])
          PROVE  ~(mem'[j].fact = w.fact /\ mem'[j].scope = w.scope)
      <4>1. Keeps(mem[j], mem'[j]) /\ Duplicates(mem, w) = {}
        BY <3>1 DEF Arrives
      <4> QED BY <3>2, <3>3, <4>1, CopyFound DEF Keeps
    <3>4. CASE m # n /\ k # n
      <4>1. Keeps(mem[m], mem'[m]) /\ Keeps(mem[k], mem'[k])
        BY <3>1, <3>4 DEF Arrives
      <4> QED BY <1>2, <4>1 DEF Keeps, NoTwins
    <3>5. CASE m = n \/ k = n
      BY <3>1, <3>3, <3>5 DEF Arrives
    <3> QED BY <3>4, <3>5
  <2> QED BY <1>2, <2>1, <2>2, <2>3, WriteKeeps
<1> QED BY <1>1, <1>2, WriteLinked, PTL DEF WriteSpec

\* What entered staged rests on evidence, of two sides once it counts as re-observed.
Voiced ==
  \A m \in Mem : mem[m].entered = "staged"
    => /\ mem[m].evidence # {}
       /\ mem[m].reobserved => TwoSides(mem[m].evidence)

\* Where every statement names an episode, what counts as re-observed in the write path
\* was observed by two authors or on two days.
THEOREM AlwaysTwoVoices ==
  ASSUME \A w \in Candidates : EvidenceOf(w) # {}
  PROVE  WriteSpec => []TwoVoices
<1>1. Init => Voiced
  BY InitAlone DEF Voiced
<1>2. ASSUME LInv, Voiced, [CallerNext \/ ReviewerNext \/ Elapse]_vars
      PROVE  Voiced'
  <2> SUFFICES ASSUME NEW m \in Mem, mem'[m].entered = "staged"
               PROVE  /\ mem'[m].evidence # {}
                      /\ mem'[m].reobserved => TwoSides(mem'[m].evidence)
    BY DEF Voiced, TwoSides
  <2>1. CASE UNCHANGED vars
    BY <1>2, <2>1 DEF Voiced, vars
  <2>2. CASE Keeps(mem[m], mem'[m])
    <3>1. mem[m].evidence # {} /\ (mem[m].reobserved => TwoSides(mem[m].evidence))
      BY <1>2, <2>2 DEF Voiced, Keeps
    <3>2. mem[m].evidence \subseteq mem'[m].evidence
      BY <2>2 DEF Keeps
    <3>3. TwoSides(mem[m].evidence) => TwoSides(mem'[m].evidence)
      BY <3>2 DEF TwoSides
    <3> QED BY <2>2, <3>1, <3>2, <3>3 DEF Keeps
  <2>3. CASE \E w \in Candidates : Arrives(mem, mem', m, w)
    BY <2>3 DEF Arrives
  <2>4. \/ UNCHANGED vars \/ Keeps(mem[m], mem'[m])
        \/ \E w \in Candidates : Arrives(mem, mem', m, w)
    BY <1>2, WriteKeeps DEF Keeping, Arrives
  <2> QED BY <2>1, <2>2, <2>3, <2>4
<1>3. Voiced => TwoVoices
  BY DEF Voiced, TwoVoices, TwoSides
<1> QED BY <1>1, <1>2, <1>3, WriteLinked, PTL DEF WriteSpec
=============================================================================
