--------------------------- MODULE ReplaceProofs ---------------------------
(***************************************************************************)
(* The replacing transactions of internal/repository/repository.go keep    *)
(* the promise of Superseding and do not all fail for each other's sake,   *)
(* for any number of them and any bodies.                                  *)
(***************************************************************************)
EXTENDS Replace, FiniteSetTheorems, TLAPS

Sources == Writers \cup {Initial}

(* Open transactions have deleted different rows. *)
Disjoint ==
  \A w, q \in Writers : w # q => deleted[w] \cap deleted[q] = {}

(* S has all the rows of a writer or none. *)
Whole(S) == \A r \in S : r \in RowsOf(r[1]) /\ RowsOf(r[1]) \subseteq S

AllWhole ==
  /\ Whole(rows)
  /\ \A w \in Writers : Whole(snap[w]) /\ Whole(deleted[w])

(* A writer has no rows anywhere before it commits. *)
Unborn ==
  \A w \in Writers : pc[w] \notin {"saved", "failed"} =>
    /\ \A r \in rows : r[1] # w
    /\ \A q \in Writers : \A r \in older[q] \cup snap[q] : r[1] # w

(* What w found when it began it will delete, or somebody has before. *)
Covered ==
  \A w \in Writers :
    /\ pc[w] = "wait" => older[w] \cap rows \subseteq snap[w]
    /\ pc[w] \in {"row", "insert"} => older[w] \cap rows \subseteq deleted[w]
    /\ pc[w] # "new" => \A r \in rows : r[1] = Initial => r \in older[w]

Inv == TypeOK /\ Disjoint /\ AllWhole /\ Unborn /\ Covered

-----------------------------------------------------------------------------
LEMMA RowsTyped ==
  ASSUME NEW w \in Sources
  PROVE  RowsOf(w) \subseteq Row
BY DEF RowsOf, Row, Keys, Sources

LEMMA WholeRows ==
  ASSUME NEW w \in Sources
  PROVE  Whole(RowsOf(w)) /\ Whole({})
BY DEF Whole, RowsOf

LEMMA WholeClosed ==
  ASSUME NEW S, NEW T, Whole(S), Whole(T)
  PROVE  Whole(S \cup T) /\ Whole(S \cap T) /\ Whole(S \ T)
<1>1. ASSUME NEW r, NEW x, x \in RowsOf(r[1])
      PROVE  x[1] = r[1]
  BY <1>1 DEF RowsOf
<1>2. Whole(S \cup T) /\ Whole(S \cap T)
  BY DEF Whole
<1>3. ASSUME NEW r \in S \ T, NEW x \in RowsOf(r[1])
      PROVE  x \in S \ T
  <2>1. x \in S /\ r \in RowsOf(r[1])
    BY <1>3 DEF Whole
  <2>2. x \in T => RowsOf(r[1]) \subseteq T
    BY <1>1 DEF Whole
  <2>. QED
    BY <2>1, <2>2
<1>4. Whole(S \ T)
  BY <1>3 DEF Whole
<1>. QED
  BY <1>2, <1>4

-----------------------------------------------------------------------------
LEMMA InitInv == Init => Inv
<1>. SUFFICES ASSUME Init PROVE Inv
  OBVIOUS
<1>. USE BodyAssumption DEF Init
<1>1. rows \subseteq Row /\ Whole(rows)
  BY RowsTyped, WholeRows DEF Sources
<1>2. TypeOK
  BY <1>1 DEF TypeOK, Tables
<1>3. Disjoint /\ AllWhole
  BY <1>1, WholeRows DEF Disjoint, AllWhole, Sources
<1>4. Unborn /\ Covered
  <2>1. \A r \in rows : r[1] = Initial
    BY DEF RowsOf
  <2>. QED
    BY <2>1 DEF Unborn, Covered
<1>. QED
  BY <1>2, <1>3, <1>4 DEF Inv

(* The transaction of w ends without effect. *)
LEMMA LetGoInv ==
  ASSUME Inv, NEW w \in Writers,
         LetGo(w), NEW l \in {"refused", "failed"}, Goto(w, l),
         pc[w] \notin {"new", "saved", "failed"},
         broken' \in BOOLEAN, UNCHANGED <<table, rows, older>>
  PROVE  Inv'
<1>. USE DEF Inv, TypeOK, LetGo, Goto
<1>1. TypeOK'
  OBVIOUS
<1>2. Disjoint'
  BY DEF Disjoint
<1>3. AllWhole'
  BY DEF AllWhole, Whole, RowsOf
<1>4. Unborn'
  BY DEF Unborn
<1>5. Covered'
  BY DEF Covered
<1>. QED
  BY <1>1, <1>2, <1>3, <1>4, <1>5

LEMMA AbortInv ==
  ASSUME Inv, NEW w \in Writers, pc[w] \in {"delete", "wait", "row", "insert"},
         Abort(w), broken' \in BOOLEAN
  PROVE  Inv'
BY LetGoInv DEF Abort

(* What its transaction has inserted when w is about to commit. *)
LEMMA AddedAll ==
  ASSUME Inv, NEW w \in Writers, TakeEffect(w)
  PROVE  /\ {<<w, k>> : k \in added[w]} = RowsOf(w)
         /\ rows' = (rows \ deleted[w]) \cup RowsOf(w)
BY DEF Inv, TypeOK, TakeEffect, RowsOf

LEMMA TakeEffectInv ==
  ASSUME Inv, NEW w \in Writers,
         TakeEffect(w), NEW l \in {"saved", "failed"}, Goto(w, l),
         broken' \in BOOLEAN
  PROVE  Inv'
<1>. USE BodyAssumption
<1>1. rows' = (rows \ deleted[w]) \cup RowsOf(w)
  BY AddedAll
<1>2. \A r \in RowsOf(w) : r[1] = w
  BY DEF RowsOf
<1>3. pc[w] = "row"
  BY DEF TakeEffect
<1>4. ASSUME NEW q \in Writers, q # w
      PROVE  deleted'[q] = deleted[q] /\ deleted[q] \subseteq rows'
  <2>1. deleted'[q] = deleted[q] /\ deleted[q] \cap deleted[w] = {}
    BY <1>4 DEF TakeEffect, LetGo, Inv, TypeOK, Disjoint
  <2>2. deleted[q] \subseteq rows
    BY DEF Inv, TypeOK
  <2>. QED
    BY <1>1, <2>1, <2>2
<1>5. TypeOK'
  <2>1. rows' \subseteq Row
    BY <1>1, RowsTyped DEF Inv, TypeOK, Sources
  <2>. QED
    BY <1>4, <2>1 DEF TakeEffect, LetGo, Goto, Inv, TypeOK
<1>6. Disjoint'
  BY DEF TakeEffect, LetGo, Inv, TypeOK, Disjoint
<1>7. AllWhole'
  <2>1. Whole(rows')
    <3>1. Whole(rows) /\ Whole(deleted[w]) /\ Whole(RowsOf(w))
      BY WholeRows DEF Inv, AllWhole, Sources
    <3>2. Whole(rows \ deleted[w])
      BY <3>1, WholeClosed
    <3>. QED
      BY <1>1, <3>1, <3>2, WholeClosed
  <2>2. Whole({})
    BY DEF Whole
  <2>3. \A q \in Writers : Whole(snap'[q]) /\ Whole(deleted'[q])
    BY <2>2 DEF TakeEffect, LetGo, Inv, TypeOK, AllWhole
  <2>4. Whole(rows)' <=> Whole(rows')
    BY DEF Whole, RowsOf
  <2>5. \A q \in Writers : /\ Whole(snap[q])' <=> Whole(snap'[q])
                           /\ Whole(deleted[q])' <=> Whole(deleted'[q])
    BY DEF Whole, RowsOf
  <2>. QED
    BY <2>1, <2>3, <2>4, <2>5 DEF AllWhole
<1>8. Unborn'
  <2>. SUFFICES ASSUME NEW x \in Writers, pc'[x] \notin {"saved", "failed"}
                PROVE  /\ \A r \in rows' : r[1] # x
                       /\ \A q \in Writers :
                            \A r \in older'[q] \cup snap'[q] : r[1] # x
    BY DEF Unborn
  <2>1. x # w /\ pc[x] \notin {"saved", "failed"}
    BY DEF Goto, Inv, TypeOK
  <2>2. \A q \in Writers : older'[q] = older[q] /\ snap'[q] \subseteq snap[q]
    BY DEF TakeEffect, LetGo, Inv, TypeOK
  <2>. QED
    BY <1>1, <1>2, <2>1, <2>2 DEF Inv, Unborn
<1>9. Covered'
  <2>. SUFFICES ASSUME NEW q \in Writers
                PROVE  /\ pc'[q] = "wait" => older'[q] \cap rows' \subseteq snap'[q]
                       /\ pc'[q] \in {"row", "insert"} =>
                            older'[q] \cap rows' \subseteq deleted'[q]
                       /\ pc'[q] # "new" =>
                            \A r \in rows' : r[1] = Initial => r \in older'[q]
    BY DEF Covered
  <2>1. \A r \in older[q] : r[1] # w
    BY <1>3 DEF Inv, Unborn
  <2>2. older'[q] = older[q] /\ older[q] \cap rows' \subseteq rows
    BY <1>1, <1>2, <2>1 DEF TakeEffect
  <2>3. pc'[q] # "new" => pc[q] # "new"
    BY <1>3 DEF Goto, Inv, TypeOK
  <2>4. pc'[q] # "new" => \A r \in rows' : r[1] = Initial => r \in older'[q]
    BY <1>1, <1>2, <2>2, <2>3 DEF Inv, Covered
  <2>5. CASE q = w
    BY <2>4, <2>5 DEF Goto, Inv, TypeOK
  <2>6. CASE q # w
    <3>1. pc'[q] = pc[q] /\ snap'[q] = snap[q] /\ deleted'[q] = deleted[q]
      BY <2>6 DEF Goto, TakeEffect, LetGo, Inv, TypeOK
    <3>. QED
      BY <2>2, <2>4, <3>1 DEF Inv, Covered
  <2>. QED
    BY <2>5, <2>6
<1>. QED
  BY <1>5, <1>6, <1>7, <1>8, <1>9 DEF Inv

LEMMA BeginInv ==
  ASSUME Inv, NEW w \in Writers, Begin(w)
  PROVE  Inv'
<1>. USE DEF Begin, Goto, txVars
<1>1. TypeOK'
  BY DEF Inv, TypeOK
<1>2. Disjoint'
  BY DEF Inv, Disjoint
<1>3. AllWhole'
  BY DEF Inv, AllWhole, Whole, RowsOf
<1>4. Unborn'
  <2>1. \A x \in Writers : pc'[x] \notin {"saved", "failed"} =>
                           pc[x] \notin {"saved", "failed"}
    BY DEF Inv, TypeOK
  <2>2. \A q \in Writers : older'[q] \in {rows, older[q]}
    BY DEF Inv, TypeOK
  <2>. QED
    BY <2>1, <2>2 DEF Inv, Unborn
<1>5. Covered'
  BY DEF Inv, TypeOK, Covered
<1>. QED
  BY <1>1, <1>2, <1>3, <1>4, <1>5 DEF Inv

LEMMA DeleteSeesInv ==
  ASSUME Inv, NEW w \in Writers, DeleteSees(w)
  PROVE  Inv'
<1>. USE DEF DeleteSees, Goto, historyVars
<1>1. TypeOK'
  BY DEF Inv, TypeOK
<1>2. Disjoint'
  BY DEF Inv, Disjoint
<1>3. AllWhole'
  <2>1. \A q \in Writers : snap'[q] \in {rows, snap[q]}
    BY DEF Inv, TypeOK
  <2>2. \A q \in Writers : Whole(snap'[q]) /\ Whole(deleted'[q])
    BY <2>1 DEF Inv, AllWhole
  <2>. QED
    BY <2>2 DEF Inv, AllWhole, Whole, RowsOf
<1>4. Unborn'
  <2>1. \A x \in Writers : pc'[x] \notin {"saved", "failed"} =>
                           pc[x] \notin {"saved", "failed"}
    BY DEF Inv, TypeOK
  <2>2. \A q \in Writers : snap'[q] \in {rows, snap[q]}
    BY DEF Inv, TypeOK
  <2>. QED
    BY <2>1, <2>2 DEF Inv, Unborn
<1>5. Covered'
  BY DEF Inv, TypeOK, Covered
<1>. QED
  BY <1>1, <1>2, <1>3, <1>4, <1>5 DEF Inv

LEMMA DeleteInv ==
  ASSUME Inv, NEW w \in Writers, Delete(w)
  PROVE  Inv'
<1>. USE BodyAssumption DEF Delete, Goto, historyVars
<1>1. deleted' = [deleted EXCEPT ![w] = snap[w] \cap rows]
  OBVIOUS
<1>2. TypeOK'
  <2>1. Body[w] \subseteq Keys
    BY DEF Keys
  <2>. QED
    BY <2>1 DEF Inv, TypeOK
<1>3. Disjoint'
  <2>1. \A q \in Writers \ {w} : deleted[q] \cap snap[w] = {}
    BY DEF DeleteBlockers
  <2>. QED
    BY <2>1 DEF Inv, TypeOK, Disjoint
<1>4. AllWhole'
  <2>1. Whole(snap[w] \cap rows)
    BY WholeClosed DEF Inv, AllWhole
  <2>2. \A q \in Writers : deleted'[q] \in {snap[w] \cap rows, deleted[q]}
    BY DEF Inv, TypeOK
  <2>3. \A q \in Writers : Whole(snap[q]) /\ Whole(deleted'[q])
    BY <2>1, <2>2 DEF Inv, AllWhole
  <2>. QED
    BY <2>3 DEF Inv, AllWhole, Whole, RowsOf
<1>5. Unborn'
  <2>1. \A x \in Writers : pc'[x] \notin {"saved", "failed"} =>
                           pc[x] \notin {"saved", "failed"}
    BY DEF Inv, TypeOK
  <2>. QED
    BY <2>1 DEF Inv, Unborn
<1>6. Covered'
  BY DEF Inv, TypeOK, Covered
<1>. QED
  BY <1>2, <1>3, <1>4, <1>5, <1>6 DEF Inv

(* Between the DELETE and the commit nothing moves but the rows of w. *)
LEMMA InsertingInv ==
  ASSUME Inv, NEW w \in Writers, NextRow(w) \/ Insert(w)
  PROVE  Inv'
<1>. USE DEF NextRow, Insert, Goto, historyVars
<1>1. TypeOK'
  <2>1. CASE NextRow(w)
    <3>1. PICK k \in todo[w] : /\ key' = [key EXCEPT ![w] = {k}]
                               /\ todo' = [todo EXCEPT ![w] = @ \ {k}]
      BY <2>1
    <3>. QED
      BY <2>1, <3>1 DEF Inv, TypeOK
  <2>2. CASE Insert(w)
    BY <2>2 DEF Inv, TypeOK
  <2>. QED
    BY <2>1, <2>2
<1>2. /\ UNCHANGED <<rows, snap, deleted, older>>
      /\ \A x \in Writers : pc'[x] = pc[x] \/ (pc[x] \in {"row", "insert"} /\
                                               pc'[x] \in {"row", "insert"})
  BY DEF Inv, TypeOK
<1>3. Disjoint'
  BY <1>2 DEF Inv, Disjoint
<1>4. AllWhole'
  BY <1>2 DEF Inv, AllWhole, Whole, RowsOf
<1>5. Unborn'
  BY <1>2 DEF Inv, Unborn
<1>6. Covered'
  BY <1>2 DEF Inv, Covered
<1>. QED
  BY <1>1, <1>3, <1>4, <1>5, <1>6 DEF Inv

LEMMA CommitRefusedInv ==
  ASSUME Inv, NEW w \in Writers, CommitRefused(w)
  PROVE  Inv'
<1>. USE DEF CommitRefused, Goto, txVars, historyVars
<1>1. TypeOK'
  BY DEF Inv, TypeOK
<1>2. Disjoint'
  BY DEF Inv, Disjoint
<1>3. AllWhole'
  BY DEF Inv, AllWhole, Whole, RowsOf
<1>4. Unborn'
  BY DEF Inv, TypeOK, Unborn
<1>5. Covered'
  BY DEF Inv, TypeOK, Covered
<1>. QED
  BY <1>1, <1>2, <1>3, <1>4, <1>5 DEF Inv

LEMMA StepInv == Inv /\ [Next]_vars => Inv'
<1>. SUFFICES ASSUME Inv, [Next]_vars PROVE Inv'
  OBVIOUS
<1>1. CASE UNCHANGED vars
  BY <1>1 DEF vars, txVars, historyVars, Inv, TypeOK, Disjoint, AllWhole,
              Whole, RowsOf, Unborn, Covered
<1>2. ASSUME NEW w \in Writers,
             Begin(w) \/ Works(w) \/ CommitUnreported(w) \/ Fails(w)
      PROVE  Inv'
  <2>1. broken \in BOOLEAN
    BY DEF Inv, TypeOK
  <2>2. CASE Begin(w)
    BY <2>2, BeginInv
  <2>3. CASE DeleteSees(w)
    BY <2>3, DeleteSeesInv
  <2>4. CASE Delete(w)
    BY <2>4, DeleteInv
  <2>5. CASE NextRow(w) \/ Insert(w)
    BY <2>5, InsertingInv
  <2>6. CASE InsertRefused(w)
    BY <2>1, <2>6, AbortInv DEF InsertRefused
  <2>7. CASE CommitRefused(w)
    BY <2>7, CommitRefusedInv
  <2>8. CASE Commit(w)
    BY <2>1, <2>8, TakeEffectInv DEF Commit
  <2>9. CASE CommitUnreported(w)
    BY <2>9, TakeEffectInv DEF CommitUnreported
  <2>10. CASE DeadlockVictim(w)
    BY <2>1, <2>10, AbortInv DEF DeadlockVictim
  <2>11. CASE Fails(w)
    BY <2>11, AbortInv DEF Fails
  <2>. QED
    BY <1>2, <2>2, <2>3, <2>4, <2>5, <2>6, <2>7, <2>8, <2>9, <2>10, <2>11
       DEF Works
<1>. QED
  BY <1>1, <1>2 DEF Next

(* The state of the replacing transactions of repository.go is always of   *)
(* its type: outside of its statements a transaction holds nothing.        *)
THEOREM ReplaceTypeOK == Spec => []TypeOK
<1>1. Inv => TypeOK
  BY DEF Inv
<1>. QED
  BY <1>1, InitInv, StepInv, PTL DEF Spec

-----------------------------------------------------------------------------
(* The mapping to Superseding. *)
Phase == [w \in Writers |->
            IF pc[w] \in {"new", "saved", "failed"} THEN pc[w] ELSE "active"]

(* Of the rows that were there when w began none survives its commit, and  *)
(* of the others those of a replacement do together.                       *)
LEMMA TakeEffectSupersedes ==
  ASSUME Inv, NEW w \in Writers, TakeEffect(w)
  PROVE  Promise!Supersede(w)
<1>. DEFINE Survivors == {q \in Writers : \E r \in rows \ deleted[w] : r[1] = q}
<1>1. rows' = (rows \ deleted[w]) \cup RowsOf(w)
  BY AddedAll
<1>2. pc[w] = "row"
  BY DEF TakeEffect
<1>3. older[w] \cap rows \subseteq deleted[w]
  BY <1>2 DEF Inv, Covered
<1>4. \A r \in rows \ deleted[w] : r \notin older[w] /\ r[1] \in Survivors
  <2>. TAKE r \in rows \ deleted[w]
  <2>1. r \notin older[w]
    BY <1>3
  <2>2. r[1] # Initial
    BY <1>2, <2>1 DEF Inv, Covered
  <2>3. r[1] \in Writers
    BY <2>2 DEF Inv, TypeOK, Row
  <2>. QED
    BY <2>1, <2>3
<1>5. ASSUME NEW r \in rows, r[1] \in Survivors
      PROVE  r \notin deleted[w]
  <2>1. PICK s \in rows \ deleted[w] : s[1] = r[1]
    BY <1>5
  <2>2. s \in RowsOf(r[1])
    BY <2>1 DEF Inv, AllWhole, Whole
  <2>3. r \in deleted[w] => RowsOf(r[1]) \subseteq deleted[w]
    BY DEF Inv, AllWhole, Whole
  <2>. QED
    BY <2>1, <2>2, <2>3
<1>6. rows \ deleted[w] = {r \in rows \ older[w] : r[1] \in Survivors}
  BY <1>4, <1>5
<1>7. Promise!RowsOf(w) = RowsOf(w)
  BY DEF Promise!RowsOf, RowsOf
<1>8. rows' = {r \in rows \ older[w] : r[1] \in Survivors} \cup Promise!RowsOf(w)
  BY <1>1, <1>6, <1>7
<1>9. Survivors \in SUBSET Writers
  OBVIOUS
<1>. HIDE DEF Survivors
<1>. QED
  BY <1>8, <1>9 DEF Promise!Supersede

LEMMA CommitPromised ==
  ASSUME Inv, NEW w \in Writers, Commit(w) \/ CommitUnreported(w)
  PROVE  Promise!Next
<1>1. TakeEffect(w) /\ older' = older
  BY DEF Commit, CommitUnreported, TakeEffect
<1>2. Promise!Supersede(w)
  BY <1>1, TakeEffectSupersedes
<1>3. Phase[w] = "active"
  BY <1>1 DEF TakeEffect, Phase
<1>4. CASE Commit(w)
  <2>1. Phase' = [Phase EXCEPT ![w] = "saved"]
    BY <1>4 DEF Commit, Goto, Phase, Inv, TypeOK
  <2>. QED
    BY <1>1, <1>2, <1>3, <2>1 DEF Promise!Next, Promise!Save, Phase
<1>5. CASE CommitUnreported(w)
  <2>1. Phase' = [Phase EXCEPT ![w] = "failed"]
    BY <1>5 DEF CommitUnreported, Goto, Phase, Inv, TypeOK
  <2>. QED
    BY <1>1, <1>2, <1>3, <2>1 DEF Promise!Next, Promise!Fail, Phase
<1>. QED
  BY <1>4, <1>5

LEMMA BeginPromised ==
  ASSUME Inv, NEW w \in Writers, Begin(w)
  PROVE  Promise!Next
<1>1. Phase[w] = "new" /\ Phase' = [Phase EXCEPT ![w] = "active"]
  BY DEF Begin, Goto, Phase, Inv, TypeOK
<1>. QED
  BY <1>1 DEF Begin, Promise!Next, Promise!Begin, Phase

(* The transaction of w ends without effect, or w goes on in it. *)
LEMMA NoEffectPromised ==
  ASSUME Inv, NEW w \in Writers, NEW l, Goto(w, l),
         pc[w] \notin {"new", "saved", "failed"}, l \notin {"new", "saved"},
         UNCHANGED <<rows, older>>
  PROVE  Promise!Next \/ UNCHANGED Promise!supersedingVars
<1>1. Phase[w] = "active"
  BY DEF Phase
<1>2. CASE l = "failed"
  <2>1. Phase' = [Phase EXCEPT ![w] = "failed"]
    BY <1>2 DEF Goto, Phase, Inv, TypeOK
  <2>. QED
    BY <1>1, <2>1 DEF Promise!Next, Promise!Fail, Phase
<1>3. CASE l # "failed"
  <2>1. Phase' = Phase
    BY <1>3 DEF Goto, Phase, Inv, TypeOK
  <2>. QED
    BY <2>1 DEF Promise!supersedingVars, Phase
<1>. QED
  BY <1>2, <1>3

LEMMA StepPromised ==
  Inv /\ [Next]_vars => [Promise!Next]_(Promise!supersedingVars)
<1>. SUFFICES ASSUME Inv, [Next]_vars
              PROVE  Promise!Next \/ UNCHANGED Promise!supersedingVars
  OBVIOUS
<1>1. CASE UNCHANGED vars
  BY <1>1 DEF vars, historyVars, Promise!supersedingVars
<1>2. ASSUME NEW w \in Writers,
             Begin(w) \/ Works(w) \/ CommitUnreported(w) \/ Fails(w)
      PROVE  Promise!Next \/ UNCHANGED Promise!supersedingVars
  <2>1. CASE Begin(w)
    BY <2>1, BeginPromised
  <2>2. CASE Commit(w) \/ CommitUnreported(w)
    BY <2>2, CommitPromised
  <2>3. CASE DeleteSees(w) \/ Delete(w) \/ NextRow(w) \/ Insert(w)
    <3>1. PICK l \in {"wait", "row", "insert"} : Goto(w, l)
      BY <2>3 DEF DeleteSees, Delete, NextRow, Insert
    <3>2. pc[w] \notin {"new", "saved", "failed"} /\ UNCHANGED <<rows, older>>
      BY <2>3 DEF DeleteSees, Delete, NextRow, Insert, historyVars
    <3>. QED
      BY <3>1, <3>2, NoEffectPromised
  <2>4. CASE InsertRefused(w) \/ CommitRefused(w) \/ DeadlockVictim(w) \/ Fails(w)
    <3>1. PICK l \in {"refused", "failed"} : Goto(w, l)
      BY <2>4 DEF InsertRefused, CommitRefused, DeadlockVictim, Fails, Abort
    <3>2. pc[w] \notin {"new", "saved", "failed"} /\ UNCHANGED <<rows, older>>
      BY <2>4 DEF InsertRefused, CommitRefused, DeadlockVictim, Fails, Abort,
                  historyVars
    <3>. QED
      BY <3>1, <3>2, NoEffectPromised
  <2>. QED
    BY <1>2, <2>1, <2>2, <2>3, <2>4 DEF Works
<1>. QED
  BY <1>1, <1>2 DEF Next

(* The transactions of repository.go, for any number of requests with any  *)
(* bodies and whatever fails, keep the promise of Superseding.             *)
THEOREM ReplaceKeepsPromise == Spec => KeepsPromise
<1>1. Init => Promise!Init
  BY DEF Init, Promise!Init, RowsOf, Promise!RowsOf
<1>. QED
  BY <1>1, InitInv, StepInv, StepPromised, PTL DEF Spec, KeepsPromise, Promise!Spec

-----------------------------------------------------------------------------
(* Until a replacement is saved, and unless something else goes wrong, the *)
(* table is as it was, and every DELETE has found all of it.               *)
Untouched ==
  ~broken /\ (\A w \in Writers : pc[w] # "saved") =>
    \A w \in Writers : /\ pc[w] = "wait" => snap[w] = rows
                       /\ pc[w] \in {"row", "insert"} => deleted[w] = rows

Refused == {w \in Writers : pc[w] \in {"refused", "failed"}}

OneNotRefused == Writers # {} /\ ~broken => Refused # Writers

(* Only one that has rows blocks others, and it goes on. *)
LEMMA BlockersWork ==
  ASSUME TypeOK, NEW w \in Writers, NEW q \in Blockers(w)
  PROVE  q \in Writers \ {w} /\ pc[q] \in {"row", "insert"}
<1>1. q \in Writers \ {w} /\ (deleted[q] # {} \/ added[q] # {})
  BY DEF Blockers, DeleteBlockers, InsertBlockers, KeysOf
<1>. QED
  BY <1>1 DEF TypeOK

(* PostgreSQL refuses w for the sake of another that goes on. *)
LEMMA VictimIsBlocked ==
  ASSUME NEW w \in Writers, w \in WaitsFor(w)
  PROVE  Blockers(w) # {}
<1>1. /\ Blockers(w) \subseteq {}
      /\ \A p \in {} : Blockers(p) \subseteq {}
      => w \in {}
  BY DEF WaitsFor
<1>. QED
  BY <1>1

(* A primary key can be taken only by a row that came after w's DELETE. *)
LEMMA TakenBySaved ==
  ASSUME Inv, Untouched, ~broken, NEW w \in Writers, pc[w] = "insert", Taken(w)
  PROVE  \E q \in Writers \ {w} : pc[q] = "saved"
<1>1. rows \ deleted[w] # {}
  BY DEF Taken, KeysOf
<1>2. \E q \in Writers : pc[q] = "saved"
  BY <1>1 DEF Untouched
<1>. QED
  BY <1>2

LEMMA AbortUntouched ==
  ASSUME Inv, Untouched, NEW w \in Writers, pc[w] # "saved", Abort(w),
         broken' = broken
  PROVE  Untouched'
<1>1. /\ pc'[w] \in {"failed", "refused"}
      /\ \A q \in Writers \ {w} :
           pc'[q] = pc[q] /\ snap'[q] = snap[q] /\ deleted'[q] = deleted[q]
      /\ rows' = rows
  BY DEF Abort, LetGo, Goto, Inv, TypeOK
<1>. QED
  BY <1>1 DEF Untouched

LEMMA UntouchedStep ==
  ASSUME Inv, Untouched, [Next]_vars
  PROVE  Untouched'
<1>. SUFFICES ASSUME ~broken', \A q \in Writers : pc'[q] # "saved",
                     NEW w \in Writers
              PROVE  /\ pc'[w] = "wait" => snap'[w] = rows'
                     /\ pc'[w] \in {"row", "insert"} => deleted'[w] = rows'
  BY DEF Untouched
<1>1. CASE UNCHANGED vars
  BY <1>1 DEF vars, txVars, historyVars, Untouched
<1>2. ASSUME NEW q \in Writers,
             Begin(q) \/ Works(q) \/ CommitUnreported(q) \/ Fails(q)
      PROVE  /\ pc'[w] = "wait" => snap'[w] = rows'
             /\ pc'[w] \in {"row", "insert"} => deleted'[w] = rows'
  <2>1. CASE Begin(q)
    BY <2>1 DEF Begin, Goto, txVars, Inv, TypeOK, Untouched
  <2>2. CASE DeleteSees(q)
    BY <2>2 DEF DeleteSees, Goto, historyVars, Inv, TypeOK, Untouched
  <2>3. CASE Delete(q)
    BY <2>3 DEF Delete, Goto, historyVars, Inv, TypeOK, Untouched
  <2>4. CASE NextRow(q) \/ Insert(q)
    BY <2>4 DEF NextRow, Insert, Goto, historyVars, Inv, TypeOK, Untouched
  <2>5. CASE InsertRefused(q) \/ DeadlockVictim(q)
    <3>1. Abort(q) /\ broken' = broken /\ pc[q] # "saved"
      BY <2>5 DEF InsertRefused, DeadlockVictim
    <3>. QED
      BY <3>1, AbortUntouched DEF Untouched
  <2>6. CASE CommitRefused(q)
    BY <2>6 DEF CommitRefused, Goto, txVars, historyVars, Inv, TypeOK, Untouched
  <2>7. CASE Commit(q)
    BY <2>7 DEF Commit, Goto, Inv, TypeOK
  <2>8. CASE CommitUnreported(q) \/ Fails(q)
    BY <2>8 DEF CommitUnreported, Fails
  <2>. QED
    BY <1>2, <2>1, <2>2, <2>3, <2>4, <2>5, <2>6, <2>7, <2>8 DEF Works
<1>. QED
  BY <1>1, <1>2 DEF Next

LEMMA OneNotRefusedStep ==
  ASSUME Inv, Untouched, OneNotRefused, [Next]_vars
  PROVE  OneNotRefused'
<1>1. CASE UNCHANGED vars
  BY <1>1 DEF vars, historyVars, OneNotRefused, Refused
<1>. SUFFICES ASSUME ~broken', NEW w \in Writers,
                     Begin(w) \/ Works(w) \/ CommitUnreported(w) \/ Fails(w)
              PROVE  \E q \in Writers : pc'[q] \notin {"refused", "failed"}
  BY <1>1 DEF Next, OneNotRefused, Refused
<1>2. CASE Begin(w) \/ DeleteSees(w) \/ Delete(w) \/ NextRow(w) \/ Insert(w)
           \/ Commit(w)
  <2>1. pc'[w] \in {"delete", "wait", "row", "insert", "saved"}
    BY <1>2 DEF Begin, DeleteSees, Delete, NextRow, Insert, Commit, Goto, Inv, TypeOK
  <2>. QED
    BY <2>1
<1>3. CASE InsertRefused(w)
  <2>1. PICK q \in Writers \ {w} : pc[q] = "saved"
    BY <1>3, TakenBySaved DEF InsertRefused
  <2>2. pc'[q] = "saved"
    BY <1>3, <2>1 DEF InsertRefused, Abort, Goto, Inv, TypeOK
  <2>. QED
    BY <2>2
<1>4. CASE DeadlockVictim(w)
  <2>1. PICK q \in Blockers(w) : TRUE
    BY <1>4, VictimIsBlocked DEF DeadlockVictim
  <2>2. q \in Writers \ {w} /\ pc[q] \in {"row", "insert"}
    BY <2>1, BlockersWork DEF Inv
  <2>3. pc'[q] = pc[q]
    BY <1>4, <2>2 DEF DeadlockVictim, Abort, Goto, Inv, TypeOK
  <2>. QED
    BY <2>2, <2>3
<1>5. CASE CommitRefused(w)
  <2>1. pc[w] = "refused" /\ ~broken
    BY <1>5 DEF CommitRefused, historyVars
  <2>2. PICK q \in Writers : pc[q] \notin {"refused", "failed"}
    BY <2>1 DEF OneNotRefused, Refused
  <2>3. pc'[q] = pc[q]
    BY <1>5, <2>1, <2>2 DEF CommitRefused, Goto, Inv, TypeOK
  <2>. QED
    BY <2>2, <2>3
<1>6. CASE CommitUnreported(w) \/ Fails(w)
  BY <1>6 DEF CommitUnreported, Fails
<1>. QED
  BY <1>2, <1>3, <1>4, <1>5, <1>6 DEF Works

(* However many replacements get in each other's way, with whatever rows,  *)
(* they never all fail: a DELETE or an INSERT that is refused for the sake *)
(* of another leaves that other, and a primary key that is taken was saved *)
(* by one that ended before (repository.go, UpdateLanguages).              *)
THEOREM ReplaceOneGetsThrough == Spec => []OneGetsThrough
<1>1. Init => Untouched /\ OneNotRefused
  BY DEF Init, Untouched, OneNotRefused, Refused
<1>2. Inv /\ OneNotRefused => OneGetsThrough
  BY DEF OneNotRefused, OneGetsThrough, Refused, Inv, TypeOK
<1>. QED
  BY <1>1, <1>2, InitInv, StepInv, UntouchedStep, OneNotRefusedStep, PTL DEF Spec

-----------------------------------------------------------------------------
(* Whoever w waits for is waited for with all that it waits for itself.    *)
LEMMA WaitsForClosed ==
  ASSUME NEW w
  PROVE  /\ Blockers(w) \cap Writers \subseteq WaitsFor(w)
         /\ \A q \in WaitsFor(w) : WaitsFor(q) \subseteq WaitsFor(w)
<1>. DEFINE Closed(S) == \A p \in S : Blockers(p) \subseteq S
<1>1. \A p : WaitsFor(p) =
        {q \in Writers :
           \A S \in SUBSET Writers : Blockers(p) \subseteq S /\ Closed(S) => q \in S}
  BY DEF WaitsFor
<1>2. ASSUME NEW q \in WaitsFor(w)
      PROVE  WaitsFor(q) \subseteq WaitsFor(w)
  <2>. SUFFICES ASSUME NEW r \in WaitsFor(q),
                       NEW S \in SUBSET Writers, Blockers(w) \subseteq S, Closed(S)
                PROVE  r \in S
    BY <1>1
  <2>1. q \in S
    BY <1>1
  <2>2. Blockers(q) \subseteq S
    BY <2>1
  <2>. HIDE DEF Closed
  <2>. QED
    BY <1>1, <2>2
<1>3. Blockers(w) \cap Writers \subseteq WaitsFor(w)
  BY <1>1
<1>. QED
  BY <1>2, <1>3

(* All that w waits for, directly or through others, has rows and goes on. *)
LEMMA WaitsForWorking ==
  ASSUME TypeOK, NEW w \in Writers, NEW q \in WaitsFor(w)
  PROVE  q \in Writers /\ pc[q] \in {"row", "insert"}
<1>. DEFINE Working == {p \in Writers : pc[p] \in {"row", "insert"}}
<1>1. \A p \in Writers : Blockers(p) \subseteq Working
  BY BlockersWork
<1>2. Working \in SUBSET Writers /\ \A p \in Working : Blockers(p) \subseteq Working
  BY <1>1
<1>3. q \in Writers /\ q \in Working
  BY <1>1, <1>2 DEF WaitsFor
<1>. QED
  BY <1>3

(* Of those that w waits for take one that waits for the fewest: if it     *)
(* cannot go on it waits for another, which waits for no more than it.     *)
LEMMA WaitEnds ==
  ASSUME IsFiniteSet(Writers), TypeOK, NEW w \in Writers, Blockers(w) # {}
  PROVE  \E q \in WaitsFor(w) : CanGoOn(q)
<1>. SUFFICES ASSUME \A q \in WaitsFor(w) : ~CanGoOn(q)
              PROVE  FALSE
  OBVIOUS
<1>. DEFINE Waits == {WaitsFor(q) : q \in WaitsFor(w)}
<1>1. /\ WaitsFor(w) # {}
      /\ \A q \in WaitsFor(w) :
           /\ q \in Writers /\ Blockers(q) # {} /\ q \notin WaitsFor(q)
           /\ WaitsFor(q) \subseteq WaitsFor(w)
  <2>1. \A q \in Writers : Blockers(q) \subseteq Writers
    BY BlockersWork
  <2>2. WaitsFor(w) # {}
    BY <2>1, WaitsForClosed
  <2>3. ASSUME NEW q \in WaitsFor(w)
        PROVE  /\ q \in Writers /\ Blockers(q) # {} /\ q \notin WaitsFor(q)
               /\ WaitsFor(q) \subseteq WaitsFor(w)
    <3>1. q \in Writers /\ pc[q] \in {"row", "insert"}
      BY WaitsForWorking
    <3>. QED
      BY <3>1, WaitsForClosed DEF CanGoOn
  <2>. QED
    BY <2>2, <2>3
<1>2. Waits \subseteq FiniteSubsetsOf(Writers) /\ Waits # {}
  <2>1. \A q \in WaitsFor(w) : WaitsFor(q) \in SUBSET Writers
    BY DEF WaitsFor
  <2>2. FiniteSubsetsOf(Writers) = SUBSET Writers
    BY FS_FiniteSubsetsOfFinite
  <2>. QED
    BY <1>1, <2>1, <2>2
<1>3. IsWellFoundedOn(StrictSubsetOrdering(Writers), FiniteSubsetsOf(Writers))
  BY FS_StrictSubsetOrderingWellFounded
<1>4. \E x \in Waits : \A y \in Waits : <<y, x>> \notin StrictSubsetOrdering(Writers)
  <2>. HIDE DEF Waits
  <2>. QED
    BY <1>2, <1>3, WFMin
<1>5. PICK q \in WaitsFor(w) :
        \A r \in WaitsFor(w) :
          <<WaitsFor(r), WaitsFor(q)>> \notin StrictSubsetOrdering(Writers)
  BY <1>4
<1>6. PICK r \in Blockers(q) : TRUE
  BY <1>1
<1>7. r \in WaitsFor(q)
  <2>1. r \in Writers
    BY <1>1, BlockersWork
  <2>. QED
    BY <2>1, WaitsForClosed
<1>8. r \in WaitsFor(w) /\ r \notin WaitsFor(r) /\ WaitsFor(r) \subseteq WaitsFor(q)
  BY <1>1, <1>7, WaitsForClosed
<1>9. WaitsFor(r) \in SUBSET Writers /\ WaitsFor(q) \in SUBSET Writers
  BY DEF WaitsFor
<1>10. <<WaitsFor(r), WaitsFor(q)>> \in StrictSubsetOrdering(Writers)
  BY <1>7, <1>8, <1>9 DEF StrictSubsetOrdering
<1>. QED
  BY <1>5, <1>8, <1>10

(* However many replacements wait for each other, each for any number of   *)
(* others, one that can go on or be refused is among those that whoever    *)
(* waits is waiting for (repository.go, the deferred Rollback of every     *)
(* Update and the INSERTs of UpdateLanguages).                             *)
THEOREM ReplaceWaitsEnd ==
  ASSUME IsFiniteSet(Writers)
  PROVE  Spec => []WaitsEnd
<1>1. TypeOK => WaitsEnd
  BY WaitEnds DEF WaitsEnd
<1>. QED
  BY <1>1, ReplaceTypeOK, PTL

-----------------------------------------------------------------------------
(* What a GET finds in the table at any moment is whole bodies: every row  *)
(* has a writer, and all the rows of its writer are there with it          *)
(* (repository.go, the transaction of every Update, also of those that     *)
(* ignore the errors of their INSERTs).                                    *)
THEOREM ReplaceWholeBodies == Spec => []Whole(rows)
<1>1. Inv => Whole(rows)
  BY DEF Inv, AllWhole
<1>. QED
  BY <1>1, InitInv, StepInv, PTL DEF Spec
=============================================================================
