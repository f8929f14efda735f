------------------------- MODULE Subscriptions_proofs -------------------------
(* Invariants of the subscription component, for every set of requests,     *)
(* organizations, plans, addons and bodies.                                 *)
EXTENDS Subscriptions, TLAPS

-----------------------------------------------------------------------------
(* What the place of a request says about its call and its entity: the      *)
(* strengthening that makes the type invariant inductive.                   *)

Creating == {"checkPlan", "checkExisting", "checkAddons", "insertSub"}
Adding == {"checkAddon", "checkDuplicate", "insertAddon"}
Removing == {"findAddonRow", "deleteAddonRow"}

ControlOK ==
    \A r \in Request :
      /\ pc[r] \in Creating \cup InTransaction => call[r].op = "create"
      /\ draft[r] # None <=> pc[r] \in InTransaction
      /\ pc[r] = "findCurrent" => call[r].op \in Op \ {"create"}
      /\ pc[r] \in Holding => call[r].op = "update" /\ ent[r] # None
      /\ pc[r] = "saveWrite" => base[r] # None
      /\ pc[r] \in Adding => call[r].op = "addAddon" /\ ent[r] # None
      /\ pc[r] \in Removing => call[r].op = "removeAddon" /\ ent[r] # None
      /\ ent[r] # None => subs[ent[r].id] # None

TypeInv == TypeOK /\ ControlOK

USE DEF Ended, Holding, InTransaction, PC, Op, Status,
        Creating, Adding, Removing

LEMMA RowsTyped ==
    ASSUME TypeInv, NEW s \in Existing
    PROVE  s \in Request /\ subs[s] \in Row /\ subs[s] \in EntityRow
<1>1. s \in Request /\ subs[s] \in Row
  BY DEF TypeInv, TypeOK, Existing
<1> QED
  BY <1>1 DEF Row, EntityRow

LEMMA NewRowTyped ==
    ASSUME TypeInv, NEW r \in Request,
           pc[r] \in {"insertSub"} \cup InTransaction
    PROVE  /\ NewRow(call[r]) \in Row
           /\ NewRow(call[r]).canceledAt = None
           /\ NewAddonRows(r, call[r]) \subseteq AddonRow
<1>1. call[r].body \in CreateDto /\ call[r] \in Call
  BY DEF TypeInv, TypeOK, ControlOK, Bodies
<1>2. call[r].body \in [plan : Plan, status : Status, terms : Terms,
                        addons : Seq(Addon)]
  BY <1>1, DtoAssumption
<1>3. NewRow(call[r]) \in Row
  BY <1>1, <1>2 DEF NewRow, Row, Call
<1>4. ToSet(call[r].body.addons) \subseteq Addon
  BY <1>2 DEF ToSet
<1> QED
  BY <1>3, <1>4 DEF NewAddonRows, AddonRow, NewRow

LEMMA SaveRowTyped ==
    ASSUME TypeInv, NEW r \in Request, pc[r] = "saveWrite", SaveAllowed(r)
    PROVE  /\ SaveRow(r) \in Row
           /\ SaveRow(r).org = subs[ent[r].id].org
           /\ Revived(r) \subseteq AddonRow
           /\ ent[r].id \in Existing
<1>1. ent[r] \in Entity /\ base[r] \in Entity /\ subs[ent[r].id] \in Row
  BY DEF TypeInv, TypeOK, ControlOK, Entity
<1>2. /\ ent[r].row \in EntityRow /\ base[r].row \in EntityRow
      /\ ent[r].id \in Request
  BY <1>1 DEF Entity
<1>3. SaveRow(r) \in Row /\ SaveRow(r).org = subs[ent[r].id].org
  BY <1>1, <1>2
     DEF SaveAllowed, NotNull, SaveRow, Diffed, Written, Row, EntityRow
<1> QED
  BY <1>1, <1>2, <1>3 DEF Revived, Entity, Existing, TypeInv, ControlOK

LEMMA AssignedTyped ==
    ASSUME TypeInv, NEW r \in Request, pc[r] = "checkPlanSwitch"
    PROVE  [ent[r] EXCEPT !.row = Assigned(r, @, call[r].body)] \in Entity
<1>1. call[r].body \in [plan : Plan \cup {None, Null},
                        status : Status \cup {None, Null},
                        terms : Terms \cup {None, Null}]
  BY DtoAssumption DEF TypeInv, TypeOK, ControlOK, Bodies
<1>2. ent[r] \in Entity /\ ent[r].row \in EntityRow
  BY DEF TypeInv, TypeOK, ControlOK, Entity
<1>3. ASSUME NEW row \in EntityRow,
             NEW dto \in [plan : Plan \cup {None, Null},
                          status : Status \cup {None, Null},
                          terms : Terms \cup {None, Null}]
      PROVE  Assigned(r, row, dto) \in EntityRow
  <2> DEFINE p == Given(dto.plan, row.plan)
             s == Given(dto.status, row.status)
             t == Given(dto.terms, row.terms)
             c == IF dto.status = "canceled" /\ row.canceledAt = None
                  THEN r ELSE row.canceledAt
  <2>1. p \in Plan \cup {Null} /\ s \in Status \cup {Null}
    BY DEF Given, EntityRow
  <2>2. t \in Terms \cup {Null} /\ c \in Request \cup {None}
    BY DEF Given, EntityRow
  <2>3. Assigned(r, row, dto) = [row EXCEPT !.plan = p, !.status = s,
                                            !.terms = t, !.canceledAt = c]
    BY DEF Assigned
  <2> HIDE DEF p, s, t, c
  <2> QED
    BY <2>1, <2>2, <2>3 DEF EntityRow
<1>4. Assigned(r, ent[r].row, call[r].body) \in EntityRow
  BY <1>1, <1>2, <1>3
<1> QED
  BY <1>2, <1>4 DEF Entity

LEMMA TypeInvInit == Init => TypeInv
BY NoneAssumption DEF Init, TypeInv, TypeOK, ControlOK

(* A step that only moves the control of one request, along its operation.  *)
LEMMA TypeInvGoto ==
    ASSUME TypeInv, NEW r \in Request, pc[r] \notin {"idle"} \cup InTransaction,
           NEW label \in PC, Goto(r, label), label # "idle",
           UNCHANGED <<tables, call, ent, base, history>>,
           \/ label \in Ended
           \/ pc[r] \in Creating /\ label \in Creating
           \/ pc[r] \in Adding /\ label \in Adding
    PROVE  TypeInv'
<1>1. TypeOK'
  BY DEF TypeInv, TypeOK, Goto, tables, history
<1>2. ControlOK'
  BY DEF TypeInv, TypeOK, ControlOK, Goto, tables, history
<1> QED
  BY <1>1, <1>2 DEF TypeInv

LEMMA TypeInvArrive ==
    ASSUME TypeInv, NEW r \in Request, Arrive(r)
    PROVE  TypeInv'
<1>1. PICK op \in Workload[r], o \in Org : \E b \in Bodies(op) :
         /\ call' = [call EXCEPT ![r] = [op |-> op, org |-> o, body |-> b]]
         /\ Goto(r, IF op = "create" THEN "checkPlan" ELSE "findCurrent")
  BY DEF Arrive
<1>2. PICK b \in Bodies(op) :
         /\ call' = [call EXCEPT ![r] = [op |-> op, org |-> o, body |-> b]]
         /\ Goto(r, IF op = "create" THEN "checkPlan" ELSE "findCurrent")
  BY <1>1
<1>3. op \in Op
  BY WorkloadAssumption
<1>4. [op |-> op, org |-> o, body |-> b] \in Call
  BY <1>3 DEF Bodies, Call
<1>5. call' \in [Request -> Call \cup {None}] /\ pc' \in [Request -> PC]
  BY <1>2, <1>4 DEF TypeInv, TypeOK, Goto
<1>6. \A q \in Request : pc'[q] # "idle" =>
         /\ call'[q] \in Call
         /\ call'[q].body \in Bodies(call'[q].op)
  BY <1>2, <1>4 DEF TypeInv, TypeOK, Goto
<1>7. TypeOK'
  BY <1>5, <1>6 DEF TypeInv, TypeOK, Arrive, tables, history
<1>8. ControlOK'
  BY <1>2, <1>3 DEF TypeInv, TypeOK, ControlOK, Arrive, Goto, tables, history
<1> QED
  BY <1>7, <1>8 DEF TypeInv

LEMMA TypeInvCreate ==
    ASSUME TypeInv, NEW r \in Request,
           \/ CreateCheckPlan(r) \/ CreateCheckExisting(r)
           \/ CreateCheckAddons(r) \/ CreateInsertSub(r)
           \/ CreateInsertAddons(r) \/ CreateCommit(r) \/ CreateAbort(r)
    PROVE  TypeInv'
<1>1. CASE CreateCheckPlan(r)
  BY <1>1, TypeInvGoto DEF CreateCheckPlan
<1>2. CASE CreateCheckExisting(r)
  BY <1>2, TypeInvGoto DEF CreateCheckExisting
<1>3. CASE CreateCheckAddons(r)
  BY <1>3, TypeInvGoto DEF CreateCheckAddons
<1>4. CASE CreateInsertSub(r)
  <2>1. CASE draft' = draft /\ Goto(r, "failed")
    BY <1>4, <2>1, TypeInvGoto DEF CreateInsertSub, tables
  <2>2. CASE ~(draft' = draft /\ Goto(r, "failed"))
    <3>1. NewRow(call[r]) \in Row
      BY <1>4, NewRowTyped DEF CreateInsertSub
    <3>2. [row |-> NewRow(call[r]), addons |-> {}] \in Draft
      BY <3>1 DEF Draft
    <3>3. /\ draft' = [draft EXCEPT ![r] =
                          [row |-> NewRow(call[r]), addons |-> {}]]
          /\ \/ Goto(r, "commit")
             \/ Goto(r, "insertAddons")
          /\ pc[r] = "insertSub"
          /\ UNCHANGED <<plans, addons, subs, subAddons,
                         call, ent, base, history>>
      BY <1>4, <2>2 DEF CreateInsertSub
    <3>4. draft' \in [Request -> Draft \cup {None}] /\ draft'[r] # None
      BY <3>2, <3>3, NoneAssumption DEF TypeInv, TypeOK
    <3>5. TypeOK'
      BY <3>3, <3>4 DEF TypeInv, TypeOK, Goto, history
    <3>6. ControlOK'
      BY <3>3, <3>4 DEF TypeInv, TypeOK, ControlOK, Goto, history
    <3> QED
      BY <3>5, <3>6 DEF TypeInv
  <2> QED
    BY <2>1, <2>2
<1>5. CASE CreateInsertAddons(r) /\ Goto(r, "commit")
  <2>1. draft[r] \in Draft /\ NewAddonRows(r, call[r]) \subseteq AddonRow
    BY <1>5, NewRowTyped DEF CreateInsertAddons, TypeInv, TypeOK, ControlOK
  <2>2. draft' = [draft EXCEPT ![r].addons = NewAddonRows(r, call[r])]
    BY <1>5 DEF CreateInsertAddons, Goto, TypeInv, TypeOK
  <2>3. [draft[r] EXCEPT !.addons = NewAddonRows(r, call[r])] \in Draft
    BY <2>1 DEF Draft
  <2>4. draft' \in [Request -> Draft \cup {None}] /\ draft'[r] # None
    BY <2>2, <2>3, NoneAssumption DEF TypeInv, TypeOK
  <2>5. \A q \in Request \ {r} : draft'[q] = draft[q]
    BY <2>2 DEF TypeInv, TypeOK
  <2>6. TypeOK'
    BY <1>5, <2>4 DEF CreateInsertAddons, TypeInv, TypeOK, Goto, history
  <2>7. ControlOK'
    BY <1>5, <2>4, <2>5
       DEF CreateInsertAddons, TypeInv, TypeOK, ControlOK, Goto, history
  <2> QED
    BY <2>6, <2>7 DEF TypeInv
<1>6. CASE /\ pc[r] \in InTransaction
           /\ draft' = [draft EXCEPT ![r] = None] /\ Goto(r, "failed")
           /\ UNCHANGED <<plans, addons, subs, subAddons,
                          call, ent, base, history>>
  <2>1. TypeOK'
    BY <1>6 DEF TypeInv, TypeOK, Goto, history
  <2>2. ControlOK'
    BY <1>6 DEF TypeInv, TypeOK, ControlOK, Goto, history
  <2> QED
    BY <2>1, <2>2 DEF TypeInv
<1>7. CASE CreateCommit(r)
  <2>1. draft[r].row \in Row /\ draft[r].addons \subseteq AddonRow
    BY <1>7 DEF CreateCommit, TypeInv, TypeOK, ControlOK, Draft
  <2>2. TypeOK'
    BY <1>7, <2>1 DEF TypeInv, TypeOK, CreateCommit, Goto, history
  <2>3. ASSUME NEW q \in Request, subs[q] # None
        PROVE  subs'[q] # None
    BY <1>7, <2>1, <2>3, NoneAssumption DEF TypeInv, TypeOK, CreateCommit
  <2>4. ControlOK'
    BY <1>7, <2>3 DEF TypeInv, TypeOK, ControlOK, CreateCommit, Goto, Entity
  <2> QED
    BY <2>2, <2>4 DEF TypeInv
<1>8. CreateInsertAddons(r) => \/ Goto(r, "commit")
                               \/ /\ draft' = [draft EXCEPT ![r] = None]
                                  /\ Goto(r, "failed")
  BY DEF CreateInsertAddons
<1> QED
  BY <1>1, <1>2, <1>3, <1>4, <1>5, <1>6, <1>7, <1>8
     DEF CreateInsertAddons, CreateAbort

LEMMA TypeInvFind ==
    ASSUME TypeInv, NEW r \in Request, FindCurrent(r)
    PROVE  TypeInv'
<1>1. CASE ent' = ent /\ (Goto(r, "rejected") \/ Goto(r, "failed"))
  <2>1. TypeOK'
    BY <1>1 DEF FindCurrent, TypeInv, TypeOK, Goto, tables, history
  <2>2. ControlOK'
    BY <1>1 DEF FindCurrent, TypeInv, TypeOK, ControlOK, Goto, tables, history
  <2> QED
    BY <2>1, <2>2 DEF TypeInv
<1>2. CASE /\ \E s \in ActiveOf(call[r].org) :
                ent' = [ent EXCEPT ![r] = [id |-> s, row |-> subs[s],
                                           addons |-> AddonsOf(s)]]
           /\ Goto(r, AfterFind(call[r].op))
  <2>1. PICK s \in ActiveOf(call[r].org) :
          ent' = [ent EXCEPT ![r] = [id |-> s, row |-> subs[s],
                                     addons |-> AddonsOf(s)]]
    BY <1>2
  <2>2. s \in Request /\ subs[s] \in Row /\ subs[s] \in EntityRow
    BY RowsTyped DEF ActiveOf
  <2>3. [id |-> s, row |-> subs[s], addons |-> AddonsOf(s)] \in Entity
    BY <2>2 DEF Entity, AddonsOf, TypeInv, TypeOK
  <2>4. ent' \in [Request -> Entity \cup {None}]
    BY <2>1, <2>3 DEF TypeInv, TypeOK
  <2>5. Goto(r, AfterFind(call[r].op)) /\ call[r].op \in Op \ {"create"}
    BY <1>2 DEF FindCurrent, TypeInv, ControlOK
  <2>6. /\ call[r].op = "update" => AfterFind(call[r].op) = "checkPlanSwitch"
        /\ call[r].op = "addAddon" => AfterFind(call[r].op) = "checkAddon"
        /\ call[r].op = "removeAddon" => AfterFind(call[r].op) = "findAddonRow"
    BY DEF AfterFind
  <2>7. TypeOK'
    BY <1>2, <2>4, <2>5, <2>6
       DEF FindCurrent, TypeInv, TypeOK, Goto, tables, history
  <2>8. ent'[r].id = s /\ subs[s] # None /\ ent'[r] # None
    BY <2>1, <2>2, <2>3, NoneAssumption DEF TypeInv, TypeOK
  <2>9. ControlOK'
    BY <1>2, <2>1, <2>5, <2>6, <2>8
       DEF FindCurrent, TypeInv, TypeOK, ControlOK, Goto, tables, history
  <2> QED
    BY <2>7, <2>9 DEF TypeInv
<1> QED
  BY <1>1, <1>2 DEF FindCurrent

LEMMA TypeInvAssign ==
    ASSUME TypeInv, NEW r \in Request, UpdateAssign(r)
    PROVE  TypeInv'
<1>1. CASE ent' = ent /\ Goto(r, "rejected")
  BY <1>1 DEF UpdateAssign, TypeInv, TypeOK, ControlOK, Goto, tables, history
<1>2. CASE /\ ent' = [ent EXCEPT ![r].row = Assigned(r, @, call[r].body)]
           /\ Goto(r, "saveLoad")
  <2>1. DEFINE e == [ent[r] EXCEPT !.row = Assigned(r, @, call[r].body)]
  <2>2. e \in Entity /\ ent' = [ent EXCEPT ![r] = e]
    BY <1>2, AssignedTyped DEF UpdateAssign
  <2>3. e.id = ent[r].id /\ ent[r] # None /\ ent[r] \in Entity
    BY DEF UpdateAssign, TypeInv, TypeOK, ControlOK, Entity
  <2> HIDE DEF e
  <2>4. TypeOK'
    BY <1>2, <2>2 DEF UpdateAssign, TypeInv, TypeOK, Goto, tables, history
  <2>5. ControlOK'
    BY <1>2, <2>2, <2>3, NoneAssumption
       DEF UpdateAssign, TypeInv, TypeOK, ControlOK, Goto, tables, history
  <2> QED
    BY <2>4, <2>5 DEF TypeInv
<1> QED
  BY <1>1, <1>2 DEF UpdateAssign

LEMMA TypeInvSave ==
    ASSUME TypeInv, NEW r \in Request, UpdateSaveLoad(r) \/ UpdateSaveWrite(r)
    PROVE  TypeInv'
<1>1. CASE UpdateSaveLoad(r)
  <2>1. ent[r].id \in Existing
    BY <1>1 DEF UpdateSaveLoad, TypeInv, TypeOK, ControlOK, Entity, Existing
  <2>7. subs[ent[r].id] \in EntityRow /\ ent[r].id \in Request
    BY <2>1, RowsTyped
  <2>2. [id |-> ent[r].id, row |-> subs[ent[r].id],
         addons |-> AddonsOf(ent[r].id)] \in Entity
    BY <2>7 DEF Entity, AddonsOf, TypeInv, TypeOK
  <2>3. base' \in [Request -> Entity \cup {None}] /\ base'[r] \in Entity
    BY <1>1, <2>2 DEF UpdateSaveLoad, TypeInv, TypeOK
  <2>4. base'[r] # None
    BY <2>3, NoneAssumption
  <2>5. TypeOK'
    BY <1>1, <2>3 DEF UpdateSaveLoad, TypeInv, TypeOK, Goto, tables, history
  <2>6. ControlOK'
    BY <1>1, <2>4
       DEF UpdateSaveLoad, TypeInv, TypeOK, ControlOK, Goto, tables, history
  <2> QED
    BY <2>5, <2>6 DEF TypeInv
<1>2. CASE UpdateSaveWrite(r) /\ SaveAllowed(r)
  <2>1. /\ SaveRow(r) \in Row /\ Revived(r) \subseteq AddonRow
        /\ ent[r].id \in Request
    BY <1>2, SaveRowTyped DEF UpdateSaveWrite, Existing
  <2>2. TypeOK'
    BY <1>2, <2>1 DEF UpdateSaveWrite, TypeInv, TypeOK, Goto
  <2>3. ASSUME NEW q \in Request, subs[q] # None
        PROVE  subs'[q] # None
    BY <1>2, <2>1, <2>3, NoneAssumption DEF TypeInv, TypeOK, UpdateSaveWrite
  <2>4. ControlOK'
    BY <1>2, <2>3
       DEF UpdateSaveWrite, TypeInv, TypeOK, ControlOK, Goto, Entity
  <2> QED
    BY <2>2, <2>4 DEF TypeInv
<1>3. CASE UpdateSaveWrite(r) /\ ~SaveAllowed(r)
  BY <1>3, TypeInvGoto DEF UpdateSaveWrite, tables
<1> QED
  BY <1>1, <1>2, <1>3

LEMMA TypeInvAddon ==
    ASSUME TypeInv, NEW r \in Request,
           \/ AddCheckAddon(r) \/ AddCheckDuplicate(r) \/ AddInsert(r)
           \/ RemoveFindRow(r) \/ RemoveDelete(r)
    PROVE  TypeInv'
<1>1. CASE AddCheckAddon(r)
  BY <1>1, TypeInvGoto DEF AddCheckAddon
<1>2. CASE AddCheckDuplicate(r)
  BY <1>2, TypeInvGoto DEF AddCheckDuplicate
<1>3. CASE AddInsert(r)
  <2>1. [by |-> r, sub |-> ent[r].id, addon |-> call[r].body] \in AddonRow
    BY <1>3
       DEF AddInsert, AddonRow, TypeInv, TypeOK, ControlOK, Bodies, Entity
  <2>2. TypeOK'
    BY <1>3, <2>1 DEF AddInsert, TypeInv, TypeOK, Goto, history
  <2>3. ControlOK'
    BY <1>3 DEF AddInsert, TypeInv, TypeOK, ControlOK, Goto, history
  <2> QED
    BY <2>2, <2>3 DEF TypeInv
<1>4. CASE RemoveFindRow(r)
  <2>1. DEFINE found == {a \in AddonsOf(ent[r].id) : a.addon = call[r].body}
               e == [ent[r] EXCEPT !.addons = found]
  <2>2. ent[r] \in Entity /\ ent[r] # None
    BY <1>4 DEF RemoveFindRow, TypeInv, TypeOK, ControlOK
  <2>3. found \subseteq AddonRow
    BY DEF AddonsOf, TypeInv, TypeOK
  <2>4. ent' = [ent EXCEPT ![r] = e]
    BY <1>4 DEF RemoveFindRow
  <2>5. e \in Entity /\ e.id = ent[r].id
    BY <2>2, <2>3 DEF Entity
  <2>6. e # None
    BY <2>5, NoneAssumption
  <2>9. \/ Goto(r, "rejected")
        \/ Goto(r, "deleteAddonRow") /\ call[r].op = "removeAddon"
    BY <1>4 DEF RemoveFindRow, TypeInv, ControlOK
  <2>10. /\ pc[r] = "findAddonRow"
         /\ UNCHANGED <<tables, call, base, history>>
    BY <1>4 DEF RemoveFindRow
  <2> HIDE DEF e, found
  <2>7. TypeOK'
    BY <2>4, <2>5, <2>9, <2>10
       DEF TypeInv, TypeOK, Goto, tables, history
  <2>8. ControlOK'
    BY <2>2, <2>4, <2>5, <2>6, <2>9, <2>10
       DEF TypeInv, TypeOK, ControlOK, Goto, tables, history
  <2> QED
    BY <2>7, <2>8 DEF TypeInv
<1>5. CASE RemoveDelete(r)
  <2>1. TypeOK'
    BY <1>5 DEF RemoveDelete, TypeInv, TypeOK, Goto, history
  <2>2. ControlOK'
    BY <1>5 DEF RemoveDelete, TypeInv, TypeOK, ControlOK, Goto, history
  <2> QED
    BY <2>1, <2>2 DEF TypeInv
<1> QED
  BY <1>1, <1>2, <1>3, <1>4, <1>5
LEMMA TypeInvCatalog ==
    ASSUME TypeInv, Catalog
    PROVE  TypeInv'
<1>a. plans' \in [Plan -> {"active", "inactive", "deleted"}]
  BY DEF Catalog, SetPlanActive, DeletePlan, DeleteAddon, TypeInv, TypeOK
<1>b. addons' \subseteq Addon
  BY DEF Catalog, SetPlanActive, DeletePlan, DeleteAddon, TypeInv, TypeOK
<1>c. UNCHANGED <<subs, subAddons, draft, pc, call, ent, base, history>>
  BY DEF Catalog, SetPlanActive, DeletePlan, DeleteAddon, history
<1>1. TypeOK'
  BY <1>a, <1>b, <1>c DEF TypeInv, TypeOK, history
<1>2. ControlOK'
  BY DEF Catalog, SetPlanActive, DeletePlan, DeleteAddon, TypeInv, ControlOK
<1> QED
  BY <1>1, <1>2 DEF TypeInv

LEMMA TypeInvNext == TypeInv /\ [Next]_vars => TypeInv'
<1> SUFFICES ASSUME TypeInv, [Next]_vars PROVE TypeInv'
  OBVIOUS
<1>1. ASSUME NEW r \in Request, Step(r) PROVE TypeInv'
  BY <1>1, TypeInvArrive, TypeInvCreate, TypeInvFind, TypeInvAssign,
     TypeInvSave, TypeInvAddon DEF Step
<1>2. CASE Catalog
  BY <1>2, TypeInvCatalog
<1>3. CASE UNCHANGED vars
  <2>1. TypeOK'
    BY <1>3 DEF TypeInv, TypeOK, vars
  <2>2. ControlOK'
    BY <1>3 DEF TypeInv, ControlOK, vars
  <2> QED
    BY <2>1, <2>2 DEF TypeInv
<1> QED
  BY <1>1, <1>2, <1>3 DEF Next

(* No reachable state of the component has an ill-typed row, entity or      *)
(* request, however many requests interleave.                               *)
THEOREM TypeCorrect == Spec => []TypeOK
<1>1. TypeInv => TypeOK
  BY DEF TypeInv
<1> QED
  BY <1>1, TypeInvInit, TypeInvNext, PTL DEF Spec

-----------------------------------------------------------------------------
(* The rows of a running transaction.  They are those of its body, refer to *)
(* what exists, and hold the index: nothing active is in the organization   *)
(* of an active one, neither committed nor in another transaction.          *)

DraftOK(r) ==
    /\ draft[r].row = NewRow(call[r])
    /\ draft[r].addons \subseteq NewAddonRows(r, call[r])
    /\ pc[r] = "commit" => draft[r].addons = NewAddonRows(r, call[r])
    /\ plans[draft[r].row.plan] # "deleted"
    /\ \A x \in draft[r].addons : x.addon \in addons
    /\ ActiveIndexAllows(r, draft[r].row)
    /\ ~IndexWaits(r, draft[r].row)
DraftInv == \A r \in Request : draft[r] # None => DraftOK(r)

LEMMA DraftInvInit == Init => DraftInv
BY DEF Init, DraftInv

(* A subscription row changes only by a commit or a save.                   *)
LEMMA SubsStep ==
    ASSUME TypeInv, [Next]_vars, subs' # subs
    PROVE  \E r \in Request : \/ CreateCommit(r)
                              \/ UpdateSaveWrite(r) /\ SaveAllowed(r)
BY DEF Next, Catalog, SetPlanActive, DeletePlan, DeleteAddon, Step, Arrive,
   CreateCheckPlan, CreateCheckExisting, CreateCheckAddons, CreateInsertSub,
   CreateInsertAddons, CreateCommit, CreateAbort, FindCurrent, UpdateAssign,
   UpdateSaveLoad, UpdateSaveWrite, AddCheckAddon, AddCheckDuplicate,
   AddInsert, RemoveFindRow, RemoveDelete, tables, vars

(* While the transaction of q runs, its request and its row stay.           *)
LEMMA DraftStep ==
    ASSUME TypeInv, [Next]_vars, NEW q \in Request, draft'[q] # None
    PROVE  \/ CreateInsertSub(q) /\ draft' # draft
           \/ CreateInsertAddons(q)
           \/ draft'[q] = draft[q] /\ call'[q] = call[q] /\ pc'[q] = pc[q]
<1>1. ASSUME NEW r \in Request, Step(r), r # q
      PROVE  draft'[q] = draft[q] /\ call'[q] = call[q] /\ pc'[q] = pc[q]
  <2>1. /\ \E label : Goto(r, label)
        /\ call' = call \/ \E c : call' = [call EXCEPT ![r] = c]
        /\ draft' = draft \/ \E d : draft' = [draft EXCEPT ![r] = d]
    BY <1>1 DEF Step, Arrive, CreateCheckPlan, CreateCheckExisting,
       CreateCheckAddons, CreateInsertSub, CreateInsertAddons, CreateCommit,
       CreateAbort, FindCurrent, UpdateAssign, UpdateSaveLoad,
       UpdateSaveWrite, AddCheckAddon, AddCheckDuplicate, AddInsert,
       RemoveFindRow, RemoveDelete, tables
  <2> QED
    BY <1>1, <2>1 DEF Goto, TypeInv, TypeOK
<1>2. ASSUME Step(q)
      PROVE  (CreateInsertSub(q) /\ draft' # draft) \/ CreateInsertAddons(q)
  <2>1. CASE draft' = draft
    <3>1. pc[q] \in InTransaction
      BY <2>1 DEF TypeInv, ControlOK
    <3> QED
      BY <1>2, <2>1, <3>1 DEF Step, Arrive, CreateCheckPlan,
         CreateCheckExisting, CreateCheckAddons, CreateInsertSub,
         CreateCommit, CreateAbort, FindCurrent, UpdateAssign,
         UpdateSaveLoad, UpdateSaveWrite, AddCheckAddon, AddCheckDuplicate,
         AddInsert, RemoveFindRow, RemoveDelete, TypeInv, TypeOK
  <2>2. CASE draft' # draft
    BY <1>2, <2>2 DEF Step, Arrive, CreateCheckPlan,
       CreateCheckExisting, CreateCheckAddons, CreateCommit, CreateAbort,
       FindCurrent, UpdateAssign, UpdateSaveLoad, UpdateSaveWrite,
       AddCheckAddon, AddCheckDuplicate, AddInsert, RemoveFindRow,
       RemoveDelete, tables, TypeInv, TypeOK
  <2> QED
    BY <2>1, <2>2
<1>3. CASE Catalog \/ UNCHANGED vars
  BY <1>3 DEF Catalog, SetPlanActive, DeletePlan, DeleteAddon, vars
<1> QED
  BY <1>1, <1>2, <1>3 DEF Next

(* Nothing else becomes active in the organization of an active draft: a    *)
(* save there waits, and another transaction's row would have waited, too.  *)
LEMMA DraftIndex ==
    ASSUME TypeInv, DraftInv, [Next]_vars, NEW q \in Request,
           draft[q] # None, IsActive(draft[q].row), NEW t \in Request,
           subs'[t] # None, IsActive(subs'[t]), subs'[t].org = draft[q].row.org
    PROVE  t = q
<1>1. ActiveOf(draft[q].row.org) \subseteq {q} /\ ~IndexWaits(q, draft[q].row)
  BY DEF DraftInv, DraftOK, ActiveIndexAllows
<1>2. CASE subs'[t] = subs[t]
  BY <1>1, <1>2 DEF ActiveOf, Existing
<1>3. ASSUME NEW r \in Request, CreateCommit(r), subs'[t] # subs[t]
      PROVE  t = q
  <2>1. t = r /\ subs'[t] = draft[r].row /\ draft[r] # None
    BY <1>3 DEF CreateCommit, TypeInv, TypeOK, ControlOK
  <2> QED
    BY <1>1, <2>1 DEF IndexWaits
<1>4. ASSUME NEW r \in Request, UpdateSaveWrite(r), SaveAllowed(r),
             subs'[t] # subs[t]
      PROVE  t = q
  <2>1. t = ent[r].id /\ subs'[t] = SaveRow(r) /\ ~IndexWaits(t, SaveRow(r))
    BY <1>4 DEF UpdateSaveWrite, TypeInv, TypeOK
  <2> QED
    BY <2>1 DEF IndexWaits
<1> QED
  BY <1>2, <1>3, <1>4, SubsStep

LEMMA DraftInvNext == TypeInv /\ DraftInv /\ [Next]_vars => DraftInv'
<1> SUFFICES ASSUME TypeInv, DraftInv, [Next]_vars,
                    NEW q \in Request, draft'[q] # None
             PROVE  DraftOK(q)'
  BY DEF DraftInv
<1>1. CASE draft'[q] = draft[q] /\ call'[q] = call[q] /\ pc'[q] = pc[q]
  <2>1. DraftOK(q) /\ draft[q] \in Draft
    BY <1>1 DEF DraftInv, TypeInv, TypeOK
  <2>2. plans'[draft[q].row.plan] # "deleted"
    <3>1. ASSUME NEW p \in Plan, SetPlanActive(p) \/ DeletePlan(p)
          PROVE  plans'[draft[q].row.plan] # "deleted"
      BY <1>1, <2>1, <3>1
         DEF SetPlanActive, DeletePlan, DraftOK, Draft, Row, TypeInv, TypeOK
    <3>2. plans' = plans \/ \E p \in Plan : SetPlanActive(p) \/ DeletePlan(p)
      BY DEF Next, Catalog, DeleteAddon, Step, Arrive, CreateCheckPlan,
         CreateCheckExisting, CreateCheckAddons, CreateInsertSub,
         CreateInsertAddons, CreateCommit, CreateAbort, FindCurrent,
         UpdateAssign, UpdateSaveLoad, UpdateSaveWrite, AddCheckAddon,
         AddCheckDuplicate, AddInsert, RemoveFindRow, RemoveDelete, tables,
         vars
    <3> QED
      BY <2>1, <3>1, <3>2 DEF DraftOK
  <2>3. \A x \in draft[q].addons : x.addon \in addons'
    <3>1. addons' = addons \/ \E a \in Addon : DeleteAddon(a)
      BY DEF Next, Catalog, SetPlanActive, DeletePlan, Step, Arrive,
         CreateCheckPlan, CreateCheckExisting, CreateCheckAddons,
         CreateInsertSub, CreateInsertAddons, CreateCommit, CreateAbort,
         FindCurrent, UpdateAssign, UpdateSaveLoad, UpdateSaveWrite,
         AddCheckAddon, AddCheckDuplicate, AddInsert, RemoveFindRow,
         RemoveDelete, tables, vars
    <3> QED
      BY <1>1, <2>1, <3>1 DEF DeleteAddon, DraftOK
  <2>4. ActiveIndexAllows(q, draft[q].row)'
    BY <1>1, DraftIndex DEF ActiveIndexAllows, ActiveOf, Existing, IsActive
  <2>5. ~IndexWaits(q, draft[q].row)'
    <3> SUFFICES ASSUME NEW z \in Request \ {q}, draft'[z] # None,
                        IsActive(draft[q].row), IsActive(draft'[z].row),
                        draft'[z].row.org = draft[q].row.org
                 PROVE  FALSE
      BY <1>1 DEF IndexWaits, IsActive
    <3>1. CASE draft[z] # None /\ draft'[z].row = draft[z].row
      BY <2>1, <3>1 DEF DraftOK, IndexWaits
    <3>2. CASE CreateInsertSub(z) /\ draft' # draft
      <4>1. draft'[z].row = NewRow(call[z]) /\ ~IndexWaits(z, NewRow(call[z]))
        BY <3>2 DEF CreateInsertSub, TypeInv, TypeOK
      <4> QED
        BY <1>1, <4>1 DEF IndexWaits
    <3>3. CASE CreateInsertAddons(z)
      <4>1. draft[z] # None /\ draft[z] \in Draft
        BY <3>3 DEF CreateInsertAddons, TypeInv, TypeOK, ControlOK
      <4>2. draft'[z].row = draft[z].row
        BY <3>3, <4>1 DEF CreateInsertAddons, Draft, TypeInv, TypeOK
      <4> QED
        BY <3>1, <4>1, <4>2
    <3> QED
      BY <3>1, <3>2, <3>3, DraftStep
  <2> QED
    BY <1>1, <2>1, <2>2, <2>3, <2>4, <2>5 DEF DraftOK
<1>2. CASE CreateInsertSub(q) /\ draft' # draft
  <2> DEFINE row == NewRow(call[q])
  <2>1. /\ draft' = [draft EXCEPT ![q] = [row |-> row, addons |-> {}]]
        /\ Goto(q, IF call[q].body.addons = <<>>
                   THEN "commit" ELSE "insertAddons")
        /\ ~IndexWaits(q, row) /\ ActiveIndexAllows(q, row)
        /\ plans[row.plan] # "deleted"
        /\ UNCHANGED <<plans, addons, subs, call>>
    BY <1>2 DEF CreateInsertSub
  <2>2. draft'[q] = [row |-> row, addons |-> {}]
    BY <2>1 DEF TypeInv, TypeOK
  <2>3. pc'[q] = "commit" => NewAddonRows(q, call[q]) = {}
    BY <2>1 DEF Goto, NewAddonRows, ToSet, TypeInv, TypeOK
  <2>4. /\ draft'[q].row = row /\ draft'[q].addons = {}
        /\ plans' = plans
    BY <2>1, <2>2
  <2>5. ActiveIndexAllows(q, draft[q].row)'
    BY <2>1, <2>4 DEF ActiveIndexAllows, ActiveOf, Existing, IsActive, NewRow
  <2>6. ~IndexWaits(q, draft[q].row)'
    BY <2>1, <2>4 DEF IndexWaits, IsActive, NewRow, TypeInv, TypeOK
  <2>7. /\ NewRow(call'[q]) = row
        /\ NewAddonRows(q, call'[q]) = NewAddonRows(q, call[q])
    BY <2>1
  <2> HIDE DEF row
  <2> QED
    BY <2>1, <2>3, <2>4, <2>5, <2>6, <2>7 DEF DraftOK
<1>3. CASE CreateInsertAddons(q)
  <2> DEFINE rows == NewAddonRows(q, call[q])
  <2>1. DraftOK(q) /\ draft[q] \in Draft
    BY <1>3 DEF CreateInsertAddons, DraftInv, TypeInv, TypeOK, ControlOK
  <2>2. /\ draft' = [draft EXCEPT ![q].addons = rows]
        /\ {x.addon : x \in rows} \subseteq addons
        /\ UNCHANGED <<plans, addons, subs, call>>
    BY <1>3 DEF CreateInsertAddons, TypeInv, TypeOK
  <2>3. draft'[q].row = draft[q].row /\ draft'[q].addons = rows
    BY <2>1, <2>2 DEF Draft, TypeInv, TypeOK
  <2>4. ActiveIndexAllows(q, draft[q].row)'
    BY <2>2, <2>3, DraftIndex, <2>1, NoneAssumption
       DEF ActiveIndexAllows, ActiveOf, Existing, IsActive
  <2>5. ~IndexWaits(q, draft[q].row)'
    BY <2>1, <2>2, <2>3 DEF DraftOK, IndexWaits, IsActive, TypeInv, TypeOK
  <2>6. NewRow(call[q])' = NewRow(call[q]) /\ NewAddonRows(q, call[q])' = rows
    BY <2>2 DEF NewRow, NewAddonRows
  <2> QED
    BY <2>1, <2>2, <2>3, <2>4, <2>5, <2>6 DEF DraftOK
<1> QED
  BY <1>1, <1>2, <1>3, DraftStep

-----------------------------------------------------------------------------
(* How the tables change in a step: every safety proof below starts here.   *)

(* A subscription row changes only by a commit or a save, and both pass the *)
(* partial unique index with the row they write.                            *)
LEMMA SubsChange ==
    ASSUME TypeInv, DraftInv, [Next]_vars
    PROVE  \/ subs' = subs
           \/ \E s \in Request, row \in Row :
                /\ subs' = [subs EXCEPT ![s] = row]
                /\ ActiveIndexAllows(s, row)
                /\ plans[row.plan] # "deleted"
                /\ plans' = plans
<1>1. ASSUME NEW r \in Request, CreateCommit(r)
      PROVE  /\ subs' = [subs EXCEPT ![r] = draft[r].row]
             /\ draft[r].row \in Row
             /\ ActiveIndexAllows(r, draft[r].row)
             /\ plans[draft[r].row.plan] # "deleted"
             /\ plans' = plans
  <2>1. draft[r] # None /\ draft[r] \in Draft
    BY <1>1 DEF CreateCommit, TypeInv, TypeOK, ControlOK
  <2> QED
    BY <1>1, <2>1 DEF CreateCommit, DraftInv, DraftOK, Draft
<1>2. ASSUME NEW r \in Request, UpdateSaveWrite(r), SaveAllowed(r)
      PROVE  /\ subs' = [subs EXCEPT ![ent[r].id] = SaveRow(r)]
             /\ SaveRow(r) \in Row /\ ent[r].id \in Request
             /\ ActiveIndexAllows(ent[r].id, SaveRow(r))
             /\ plans[SaveRow(r).plan] # "deleted"
             /\ plans' = plans
  BY <1>2, SaveRowTyped DEF UpdateSaveWrite, SaveAllowed, Existing
<1> QED
  BY <1>1, <1>2, SubsStep

(* The unique index and the interleavings of create and update: at most one *)
(* trialing or active subscription per organization, for any number of      *)
(* concurrent requests.                                                     *)
THEOREM OneActive == Spec => []OneActivePerOrg
<1>1. Init => OneActivePerOrg
  BY DEF Init, OneActivePerOrg, Existing
<1>2. TypeInv /\ DraftInv /\ OneActivePerOrg /\ [Next]_vars => OneActivePerOrg'
  <2> SUFFICES ASSUME TypeInv, DraftInv, OneActivePerOrg, [Next]_vars
               PROVE  OneActivePerOrg'
    OBVIOUS
  <2>1. CASE subs' = subs
    BY <2>1 DEF OneActivePerOrg, Existing, IsActive
  <2>2. ASSUME NEW s \in Request, NEW row \in Row,
               subs' = [subs EXCEPT ![s] = row], ActiveIndexAllows(s, row)
        PROVE  OneActivePerOrg'
    <3> SUFFICES ASSUME NEW x \in Existing', NEW y \in Existing',
                        subs'[x].org = subs'[y].org,
                        IsActive(subs'[x]), IsActive(subs'[y])
                 PROVE  x = y
      BY DEF OneActivePerOrg, IsActive
    <3>1. /\ x \in Request /\ y \in Request
          /\ subs \in [Request -> Row \cup {None}]
      BY DEF Existing, TypeInv, TypeOK
    <3>2. subs'[s] = row
      BY <2>2, <3>1
    <3>3. ASSUME NEW z \in Existing', z # s
          PROVE  z \in Existing /\ subs'[z] = subs[z]
      BY <2>2, <3>1, <3>3 DEF Existing
    <3>4. CASE x # s /\ y # s
      BY <3>3, <3>4 DEF OneActivePerOrg
    <3>5. ASSUME NEW z \in Existing', z # s, IsActive(subs'[z]), IsActive(row)
          PROVE  subs'[z].org # row.org
      BY <2>2, <3>3, <3>5 DEF ActiveIndexAllows, ActiveOf
    <3> QED
      BY <3>2, <3>4, <3>5
  <2> QED
    BY <2>1, <2>2, SubsChange
<1> QED
  BY <1>1, <1>2, TypeInvInit, TypeInvNext, DraftInvInit, DraftInvNext, PTL
     DEF Spec

-----------------------------------------------------------------------------
(* The rows a finished request wrote and what they refer to.  "ok" is where *)
(* a request stays, so a row names its writer for good; an entity carries   *)
(* rows of its own subscription only, the ones a save may insert again.     *)

SubsCommitted ==
    \A s \in Request :
        subs[s] # None => pc[s] = "ok" /\ plans[subs[s].plan] # "deleted"
AddonsCommitted ==
    \A x \in subAddons :
        pc[x.by] = "ok" /\ subs[x.sub] # None /\ x.addon \in addons
EntitiesOwn ==
    \A r \in Request : ent[r] # None =>
        \A x \in ent[r].addons :
            /\ x.sub = ent[r].id
            /\ pc[x.by] = "ok"
            /\ \A y \in ent[r].addons : x.addon = y.addon => x = y

RowsInv ==
    /\ SubsCommitted
    /\ AddonsCommitted
    /\ EntitiesOwn
    /\ OneRowPerAddon
    /\ DraftInv

LEMMA OkIsFinal ==
    ASSUME TypeInv, [Next]_vars, NEW q \in Request, pc[q] = "ok"
    PROVE  pc'[q] = "ok"
<1>1. ASSUME NEW r \in Request, Step(r) PROVE pc'[q] = pc[q]
  <2>1. pc \in [Request -> PC] /\ r # q
    BY <1>1 DEF TypeInv, TypeOK, Step, Arrive, CreateCheckPlan,
       CreateCheckExisting, CreateCheckAddons, CreateInsertSub,
       CreateInsertAddons, CreateCommit, CreateAbort, FindCurrent,
       UpdateAssign, UpdateSaveLoad, UpdateSaveWrite, AddCheckAddon,
       AddCheckDuplicate, AddInsert, RemoveFindRow, RemoveDelete
  <2>2. \E label : Goto(r, label)
    BY <1>1 DEF Step, Arrive, CreateCheckPlan, CreateCheckExisting,
       CreateCheckAddons, CreateInsertSub, CreateInsertAddons,
       CreateCommit, CreateAbort, FindCurrent, UpdateAssign,
       UpdateSaveLoad, UpdateSaveWrite, AddCheckAddon, AddCheckDuplicate,
       AddInsert, RemoveFindRow, RemoveDelete
  <2> QED
    BY <2>1, <2>2 DEF Goto
<1>2. CASE Catalog
  BY <1>2 DEF Catalog, SetPlanActive, DeletePlan, DeleteAddon
<1>3. CASE UNCHANGED vars
  BY <1>3 DEF vars
<1> QED
  BY <1>1, <1>2, <1>3 DEF Next

(* A row that was not there before is the one its own create commits.       *)
LEMMA SubsCommittedNext ==
    ASSUME TypeInv, RowsInv, [Next]_vars
    PROVE  SubsCommitted'
<1>1. ASSUME NEW s \in Request, subs'[s] # None PROVE pc'[s] = "ok"
  <2>1. CASE subs[s] # None
    BY <2>1, OkIsFinal DEF RowsInv, SubsCommitted
  <2>2. CASE subs[s] = None
    <3>1. \E r \in Request : \/ CreateCommit(r)
                             \/ UpdateSaveWrite(r) /\ SaveAllowed(r)
      BY <1>1, <2>2 DEF Next, Catalog, SetPlanActive, DeletePlan, DeleteAddon,
         Step, Arrive, CreateCheckPlan, CreateCheckExisting,
         CreateCheckAddons, CreateInsertSub, CreateInsertAddons,
         CreateCommit, CreateAbort, FindCurrent, UpdateAssign,
         UpdateSaveLoad, UpdateSaveWrite, AddCheckAddon, AddCheckDuplicate,
         AddInsert, RemoveFindRow, RemoveDelete, tables, vars
    <3>2. PICK r \in Request : \/ CreateCommit(r)
                               \/ UpdateSaveWrite(r) /\ SaveAllowed(r)
      BY <3>1
    <3>3. CASE UpdateSaveWrite(r) /\ SaveAllowed(r)
      BY <1>1, <2>2, <3>3, SaveRowTyped
         DEF UpdateSaveWrite, Existing, TypeInv, TypeOK
    <3>4. CASE CreateCommit(r)
      BY <1>1, <2>2, <3>4 DEF CreateCommit, Goto, TypeInv, TypeOK
    <3> QED
      BY <3>2, <3>3, <3>4
  <2> QED
    BY <2>1, <2>2
<1>2. ASSUME NEW s \in Request, subs'[s] # None
      PROVE  plans'[subs'[s].plan] # "deleted"
  <2>1. ASSUME NEW t \in Request, NEW row \in Row,
               subs' = [subs EXCEPT ![t] = row],
               plans[row.plan] # "deleted", plans' = plans
        PROVE  plans'[subs'[s].plan] # "deleted"
    BY <1>2, <2>1 DEF RowsInv, SubsCommitted, TypeInv, TypeOK
  <2>2. CASE subs' = subs /\ plans' = plans
    BY <1>2, <2>2 DEF RowsInv, SubsCommitted
  <2>3. ASSUME NEW p \in Plan, SetPlanActive(p) \/ DeletePlan(p)
        PROVE  plans'[subs'[s].plan] # "deleted"
    <3>1. subs' = subs /\ subs[s] \in Row /\ plans[subs[s].plan] # "deleted"
      BY <1>2, <2>3 DEF SetPlanActive, DeletePlan, RowsInv, SubsCommitted,
         TypeInv, TypeOK
    <3>2. plans'[subs[s].plan] = plans[subs[s].plan]
          \/ plans'[subs[s].plan] \in {"active", "inactive"}
      BY <1>2, <2>3, <3>1
         DEF SetPlanActive, DeletePlan, TypeInv, TypeOK, Row, Existing
    <3> QED
      BY <3>1, <3>2
  <2>4. \/ plans' = plans
        \/ \E p \in Plan : SetPlanActive(p) \/ DeletePlan(p)
    BY DEF Next, Catalog, DeleteAddon, Step, Arrive, CreateCheckPlan,
       CreateCheckExisting, CreateCheckAddons, CreateInsertSub,
       CreateInsertAddons, CreateCommit, CreateAbort, FindCurrent,
       UpdateAssign, UpdateSaveLoad, UpdateSaveWrite, AddCheckAddon,
       AddCheckDuplicate, AddInsert, RemoveFindRow, RemoveDelete, tables, vars
  <2> QED
    BY <2>1, <2>2, <2>3, <2>4, SubsChange DEF RowsInv
<1> QED
  BY <1>1, <1>2 DEF SubsCommitted

(* The rows a step may add to subscription_addons.                          *)
Addable(x) ==
    /\ x \in AddonRow
    /\ pc'[x.by] = "ok"
    /\ subs'[x.sub] # None
    /\ x.addon \in addons
    /\ addons' = addons
    /\ \A y \in subAddons : y.sub = x.sub => y.addon # x.addon

LEMMA CreateAddable ==
    ASSUME TypeInv, RowsInv, NEW r \in Request, CreateCommit(r),
           NEW x \in draft[r].addons
    PROVE  /\ Addable(x)
           /\ \A y \in draft[r].addons :
                x.sub = y.sub /\ x.addon = y.addon => x = y
<1>1. /\ pc[r] = "commit" /\ draft[r] # None /\ draft[r] \in Draft
  BY DEF CreateCommit, TypeInv, TypeOK, ControlOK
<1>2. /\ draft[r].addons \subseteq NewAddonRows(r, call[r])
      /\ x.addon \in addons
  BY <1>1 DEF RowsInv, DraftInv, DraftOK
<1>3. x \in AddonRow /\ draft[r].row \in Row /\ x.by = r /\ x.sub = r
  BY <1>1, <1>2 DEF Draft, NewAddonRows
<1>4. pc'[r] = "ok" /\ subs'[r] # None /\ addons' = addons
  BY <1>3, NoneAssumption DEF CreateCommit, Goto, TypeInv, TypeOK
<1>5. subs[r] = None
  BY <1>1 DEF RowsInv, SubsCommitted
<1>6. \A y \in subAddons : y.sub # r
  BY <1>5 DEF RowsInv, AddonsCommitted
<1> QED
  BY <1>2, <1>3, <1>4, <1>6 DEF Addable, NewAddonRows

LEMMA SaveAddable ==
    ASSUME TypeInv, RowsInv, NEW r \in Request,
           UpdateSaveWrite(r), SaveAllowed(r), NEW x \in Revived(r)
    PROVE  /\ Addable(x)
           /\ \A y \in Revived(r) :
                x.sub = y.sub /\ x.addon = y.addon => x = y
<1>1. /\ SaveRow(r) \in Row /\ x \in AddonRow
      /\ ent[r].id \in Request /\ ent[r] # None
  BY SaveRowTyped DEF UpdateSaveWrite, Existing, TypeInv, ControlOK
<1>2. /\ x.sub = ent[r].id /\ pc[x.by] = "ok"
      /\ \A y \in Revived(r) : x.addon = y.addon => x = y
  BY <1>1 DEF RowsInv, EntitiesOwn, Revived
<1>3. subs'[ent[r].id] # None /\ addons' = addons
  BY <1>1, NoneAssumption DEF UpdateSaveWrite, TypeInv, TypeOK
<1>4. pc'[x.by] = "ok"
  BY <1>1, <1>2 DEF AddonRow, UpdateSaveWrite, Goto, TypeInv, TypeOK
<1>5. /\ x.addon \in addons
      /\ \A y \in subAddons : y.sub = x.sub => y.addon # x.addon
  BY <1>2 DEF SaveAllowed, AddonsOf
<1> QED
  BY <1>1, <1>2, <1>3, <1>4, <1>5 DEF Addable

LEMMA InsertAddable ==
    ASSUME TypeInv, RowsInv, NEW r \in Request, AddInsert(r),
           subAddons' # subAddons
    PROVE  \E x : subAddons' = subAddons \cup {x} /\ Addable(x)
<1> DEFINE new == [by |-> r, sub |-> ent[r].id, addon |-> call[r].body]
<1>1. /\ pc[r] = "insertAddon" /\ new.addon \in addons
      /\ ~OnSubscription(new.sub, new.addon)
      /\ subAddons' = subAddons \cup {new}
      /\ Goto(r, "ok")
      /\ subs' = subs /\ addons' = addons
  BY DEF AddInsert
<1>2. /\ ent[r].id \in Request /\ subs[ent[r].id] # None
      /\ call[r].body \in Addon
  BY <1>1 DEF TypeInv, TypeOK, ControlOK, Entity
<1>3. new \in AddonRow
  BY <1>2 DEF AddonRow
<1>4. pc'[r] = "ok"
  BY <1>1 DEF Goto, TypeInv, TypeOK
<1>5. \A y \in subAddons : y.sub = new.sub => y.addon # new.addon
  BY <1>1 DEF OnSubscription, AddonsOf
<1>6. Addable(new)
  BY <1>1, <1>2, <1>3, <1>4, <1>5 DEF Addable
<1> QED
  BY <1>1, <1>6

(* Every step only removes addon rows or adds addable ones, no two of them  *)
(* alike.                                                                   *)
Adds(New) ==
    /\ subAddons' \subseteq subAddons \cup New
    /\ \A x \in New :
         /\ Addable(x)
         /\ \A y \in New : x.sub = y.sub /\ x.addon = y.addon => x = y

LEMMA AddonsChange ==
    ASSUME TypeInv, RowsInv, [Next]_vars
    PROVE  \E New : Adds(New)
<1>1. CASE subAddons' \subseteq subAddons
  <2>1. Adds({})
    BY <1>1 DEF Adds
  <2> QED
    BY <2>1
<1>2. ASSUME NEW r \in Request, CreateCommit(r)
      PROVE  \E New : Adds(New)
  <2>1. subAddons' = subAddons \cup draft[r].addons
    BY <1>2 DEF CreateCommit
  <2>2. Adds(draft[r].addons)
    BY <1>2, <2>1, CreateAddable DEF Adds
  <2> QED
    BY <2>2
<1>3. ASSUME NEW r \in Request, UpdateSaveWrite(r), SaveAllowed(r)
      PROVE  \E New : Adds(New)
  <2>1. subAddons' = subAddons \cup Revived(r)
    BY <1>3 DEF UpdateSaveWrite
  <2>2. Adds(Revived(r))
    BY <1>3, <2>1, SaveAddable DEF Adds
  <2> QED
    BY <2>2
<1>4. ASSUME NEW r \in Request, AddInsert(r), subAddons' # subAddons
      PROVE  \E New : Adds(New)
  <2>1. PICK x : subAddons' = subAddons \cup {x} /\ Addable(x)
    BY <1>4, InsertAddable
  <2>2. Adds({x})
    BY <2>1 DEF Adds
  <2> QED
    BY <2>2
<1>5. \/ subAddons' \subseteq subAddons
      \/ \E r \in Request : \/ CreateCommit(r)
                            \/ UpdateSaveWrite(r) /\ SaveAllowed(r)
                            \/ AddInsert(r) /\ subAddons' # subAddons
  BY DEF Next, Catalog, SetPlanActive, DeletePlan, DeleteAddon,
     Step, Arrive, CreateCheckPlan, CreateCheckExisting,
     CreateCheckAddons, CreateInsertSub, CreateInsertAddons,
     CreateCommit, CreateAbort, FindCurrent, UpdateAssign,
     UpdateSaveLoad, UpdateSaveWrite, AddCheckAddon, AddCheckDuplicate,
     AddInsert, RemoveFindRow, RemoveDelete, tables, vars
<1> QED
  BY <1>1, <1>2, <1>3, <1>4, <1>5

(* An entity keeps its id and addons, or has rows read from the table.      *)
LEMMA EntChange ==
    ASSUME TypeInv, [Next]_vars, NEW q \in Request, ent'[q] # None
    PROVE  \/ /\ ent[q] # None
              /\ ent'[q].id = ent[q].id
              /\ ent'[q].addons = ent[q].addons
           \/ ent'[q].addons \subseteq AddonsOf(ent'[q].id)
<1>1. CASE ent' = ent
  BY <1>1
<1>2. ASSUME NEW r \in Request, ent' # ent,
             FindCurrent(r) \/ UpdateAssign(r) \/ RemoveFindRow(r)
      PROVE  \/ /\ ent[q] # None
                /\ ent'[q].id = ent[q].id
                /\ ent'[q].addons = ent[q].addons
             \/ ent'[q].addons \subseteq AddonsOf(ent'[q].id)
  <2>1. CASE q # r
    BY <1>2, <2>1 DEF FindCurrent, UpdateAssign, RemoveFindRow, TypeInv, TypeOK
  <2>2. CASE q = r /\ FindCurrent(r)
    <3>1. PICK s \in ActiveOf(call[r].org) :
            ent' = [ent EXCEPT ![r] = [id |-> s, row |-> subs[s],
                                       addons |-> AddonsOf(s)]]
      BY <1>2, <2>2 DEF FindCurrent
    <3>2. ent'[r] = [id |-> s, row |-> subs[s], addons |-> AddonsOf(s)]
      BY <3>1 DEF TypeInv, TypeOK
    <3> QED
      BY <2>2, <3>2
  <2>3. CASE q = r /\ UpdateAssign(r)
    <3>1. ent[r] \in Entity /\ ent[r] # None
      BY <2>3 DEF UpdateAssign, TypeInv, TypeOK, ControlOK
    <3>2. ent' = [ent EXCEPT ![r].row = Assigned(r, @, call[r].body)]
      BY <1>2, <2>3 DEF UpdateAssign
    <3>3. ent'[r].id = ent[r].id /\ ent'[r].addons = ent[r].addons
      BY <3>1, <3>2 DEF Entity, TypeInv, TypeOK
    <3> QED
      BY <2>3, <3>1, <3>3
  <2>4. CASE q = r /\ RemoveFindRow(r)
    <3>1. ent[r] \in Entity /\ ent[r] # None
      BY <2>4 DEF RemoveFindRow, TypeInv, TypeOK, ControlOK
    <3>2. ent' = [ent EXCEPT ![r].addons =
                    {a \in AddonsOf(ent[r].id) : a.addon = call[r].body}]
      BY <2>4 DEF RemoveFindRow
    <3>3. /\ ent'[r].id = ent[r].id
          /\ ent'[r].addons \subseteq AddonsOf(ent[r].id)
      BY <3>1, <3>2 DEF Entity, TypeInv, TypeOK
    <3> QED
      BY <2>4, <3>3
  <2> QED
    BY <1>2, <2>1, <2>2, <2>3, <2>4
<1>3. \/ ent' = ent
      \/ \E r \in Request :
           FindCurrent(r) \/ UpdateAssign(r) \/ RemoveFindRow(r)
  BY DEF Next, Catalog, SetPlanActive, DeletePlan, DeleteAddon,
     Step, Arrive, CreateCheckPlan, CreateCheckExisting,
     CreateCheckAddons, CreateInsertSub, CreateInsertAddons,
     CreateCommit, CreateAbort, FindCurrent, UpdateAssign,
     UpdateSaveLoad, UpdateSaveWrite, AddCheckAddon, AddCheckDuplicate,
     AddInsert, RemoveFindRow, RemoveDelete, tables, vars
<1> QED
  BY <1>1, <1>2, <1>3

LEMMA SubsStay ==
    ASSUME TypeInv, RowsInv, [Next]_vars, NEW s \in Request, subs[s] # None
    PROVE  subs'[s] # None
<1>1. ASSUME NEW t \in Request, NEW row \in Row,
             subs' = [subs EXCEPT ![t] = row]
      PROVE  subs'[s] # None
  BY <1>1, NoneAssumption DEF TypeInv, TypeOK
<1> QED
  BY <1>1, SubsChange DEF RowsInv

LEMMA RowsInvInit == Init => RowsInv
BY DraftInvInit
   DEF Init, RowsInv, SubsCommitted, AddonsCommitted, EntitiesOwn,
       OneRowPerAddon

LEMMA RowsInvNext == TypeInv /\ RowsInv /\ [Next]_vars => RowsInv'
<1> SUFFICES ASSUME TypeInv, RowsInv, [Next]_vars PROVE RowsInv'
  OBVIOUS
<1>1. SubsCommitted'
  BY SubsCommittedNext
<1>2. PICK New : Adds(New)
  BY AddonsChange
<1>3. ASSUME NEW x \in subAddons, x \in subAddons'
      PROVE  /\ pc'[x.by] = "ok"
             /\ subs'[x.sub] # None
             /\ x.addon \in addons'
  <2>1. x \in AddonRow
    BY DEF TypeInv, TypeOK
  <2>2. x.by \in Request /\ x.sub \in Request
    BY <2>1 DEF AddonRow
  <2>3. pc'[x.by] = "ok" /\ subs'[x.sub] # None
    BY <2>2, OkIsFinal, SubsStay DEF RowsInv, AddonsCommitted
  <2>4. \/ addons' = addons
        \/ \E a \in Addon : DeleteAddon(a)
    BY DEF Next, Catalog, SetPlanActive, DeletePlan,
       Step, Arrive, CreateCheckPlan, CreateCheckExisting,
       CreateCheckAddons, CreateInsertSub, CreateInsertAddons,
       CreateCommit, CreateAbort, FindCurrent, UpdateAssign,
       UpdateSaveLoad, UpdateSaveWrite, AddCheckAddon, AddCheckDuplicate,
       AddInsert, RemoveFindRow, RemoveDelete, tables, vars
  <2>5. x.addon \in addons'
    BY <2>4 DEF DeleteAddon, RowsInv, AddonsCommitted
  <2> QED
    BY <2>3, <2>5
<1>4. AddonsCommitted'
  BY <1>2, <1>3 DEF AddonsCommitted, Adds, Addable
<1>5. OneRowPerAddon'
  BY <1>2 DEF OneRowPerAddon, RowsInv, Adds, Addable
<1>6. EntitiesOwn'
  <2> SUFFICES ASSUME NEW r \in Request, ent'[r] # None,
                      NEW x \in ent'[r].addons
               PROVE  /\ x.sub = ent'[r].id
                      /\ pc'[x.by] = "ok"
                      /\ \A y \in ent'[r].addons : x.addon = y.addon => x = y
    BY DEF EntitiesOwn
  <2>1. CASE /\ ent[r] # None
             /\ ent'[r].id = ent[r].id
             /\ ent'[r].addons = ent[r].addons
    <3>1. x.by \in Request /\ pc[x.by] = "ok"
      BY <2>1 DEF RowsInv, EntitiesOwn, TypeInv, TypeOK, Entity, AddonRow
    <3> QED
      BY <2>1, <3>1, OkIsFinal DEF RowsInv, EntitiesOwn
  <2>2. CASE ent'[r].addons \subseteq AddonsOf(ent'[r].id)
    <3>1. x \in subAddons /\ x.sub = ent'[r].id
      BY <2>2 DEF AddonsOf
    <3>2. x.by \in Request /\ pc[x.by] = "ok"
      BY <3>1 DEF RowsInv, AddonsCommitted, TypeInv, TypeOK, AddonRow
    <3>3. \A y \in ent'[r].addons : x.addon = y.addon => x = y
      BY <2>2, <3>1 DEF AddonsOf, RowsInv, OneRowPerAddon
    <3> QED
      BY <3>1, <3>2, <3>3, OkIsFinal
  <2> QED
    BY <2>1, <2>2, EntChange
<1>7. DraftInv'
  BY DraftInvNext DEF RowsInv
<1> QED
  BY <1>1, <1>4, <1>5, <1>6, <1>7 DEF RowsInv

LEMMA RowsAlways == Spec => [](TypeInv /\ RowsInv)
BY TypeInvInit, TypeInvNext, RowsInvInit, RowsInvNext, PTL DEF Spec

(* However many addAddon requests are past their duplicate check, and       *)
(* whatever removed rows a save inserts again, an addon is at most once on  *)
(* a subscription.                                                          *)
THEOREM OneRowEach == Spec => []OneRowPerAddon
<1>1. RowsInv => OneRowPerAddon
  BY DEF RowsInv
<1> QED
  BY <1>1, RowsAlways, PTL

(* The plan of a subscription and both ends of an addon row exist, whatever *)
(* deletion, stale save or late insert runs in between.                     *)
THEOREM ReferencesKept == Spec => []RowsReferToRows
<1>1. TypeInv /\ RowsInv => RowsReferToRows
  BY DEF RowsInv, SubsCommitted, AddonsCommitted, RowsReferToRows, Existing,
     TypeInv, TypeOK, AddonRow
<1> QED
  BY <1>1, RowsAlways, PTL

-----------------------------------------------------------------------------
(* Entities and the rows they were read from.                               *)

(* A row changes under the save of a request that holds it, or is inserted. *)
LEMMA RowChange ==
    ASSUME TypeInv, RowsInv, [Next]_vars, NEW s \in Request,
           subs'[s] # subs[s]
    PROVE  \/ CreateCommit(s) /\ subs[s] = None
           \/ \E r \in Request : /\ UpdateSaveWrite(r) /\ SaveAllowed(r)
                                 /\ ent[r].id = s
<1>1. \E r \in Request : \/ CreateCommit(r)
                         \/ UpdateSaveWrite(r) /\ SaveAllowed(r)
  BY DEF Next, Catalog, SetPlanActive, DeletePlan, DeleteAddon, Step,
     Arrive, CreateCheckPlan, CreateCheckExisting,
     CreateCheckAddons, CreateInsertSub, CreateInsertAddons,
     CreateCommit, CreateAbort, FindCurrent, UpdateAssign,
     UpdateSaveLoad, UpdateSaveWrite, AddCheckAddon, AddCheckDuplicate,
     AddInsert, RemoveFindRow, RemoveDelete,
     tables, vars
<1>2. ASSUME NEW r \in Request, CreateCommit(r)
      PROVE  r = s /\ subs[s] = None
  <2>1. r = s
    BY <1>2 DEF CreateCommit, TypeInv, TypeOK
  <2> QED
    BY <1>2, <2>1 DEF CreateCommit, RowsInv, SubsCommitted
<1>3. ASSUME NEW r \in Request, UpdateSaveWrite(r), SaveAllowed(r)
      PROVE  ent[r].id = s
  BY <1>3 DEF UpdateSaveWrite, TypeInv, TypeOK
<1> QED
  BY <1>1, <1>2, <1>3

(* A create shows its subscription and all its addon rows in one step; one  *)
(* that is under way, was refused, failed or ended between its statements   *)
(* has left no row behind, and no save of another request brings one back.  *)
THEOREM CreateAtomic == Spec => CreateIsAllOrNothing
<1>1. ASSUME TypeInv, RowsInv, [Next]_vars, RowsInv', NEW r \in Request
      PROVE  /\ pc'[r] # "ok" =>
                  subs'[r] = None /\ \A x \in subAddons' : x.by # r
             /\ subs[r] = None /\ subs'[r] # None =>
                  NewAddonRows(r, call[r]) \subseteq subAddons'
  <2>1. pc'[r] # "ok" => subs'[r] = None /\ \A x \in subAddons' : x.by # r
    BY <1>1 DEF RowsInv, SubsCommitted, AddonsCommitted
  <2>2. ASSUME subs[r] = None, subs'[r] # None
        PROVE  NewAddonRows(r, call[r]) \subseteq subAddons'
    <3>1. ~\E q \in Request : UpdateSaveWrite(q) /\ ent[q].id = r
      BY <1>1, <2>2 DEF UpdateSaveWrite, TypeInv, ControlOK
    <3>2. CreateCommit(r)
      BY <1>1, <2>2, <3>1, RowChange
    <3>3. pc[r] = "commit" /\ draft[r] # None
      BY <1>1, <3>2 DEF CreateCommit, TypeInv, ControlOK
    <3>4. draft[r].addons = NewAddonRows(r, call[r])
      BY <1>1, <3>3 DEF RowsInv, DraftInv, DraftOK
    <3> QED
      BY <3>2, <3>4 DEF CreateCommit
  <2> QED
    BY <2>1, <2>2
<1>2. TypeInv /\ RowsInv /\ RowsInv' /\ [Next]_vars =>
        [\A r \in Request :
           /\ pc'[r] # "ok" =>
                subs'[r] = None /\ \A x \in subAddons' : x.by # r
           /\ subs[r] = None /\ subs'[r] # None =>
                NewAddonRows(r, call[r]) \subseteq subAddons']_vars
  BY <1>1
<1> QED
  BY <1>2, RowsAlways, PTL DEF Spec, CreateIsAllOrNothing

(* How a request comes to hold an entity, and what it does while it does.   *)
LEMMA HoldingChange ==
    ASSUME TypeInv, [Next]_vars, NEW q \in Request, pc'[q] \in Holding
    PROVE  \/ FindCurrent(q)
           \/ UpdateAssign(q)
           \/ UpdateSaveLoad(q)
           \/ /\ pc'[q] = pc[q] /\ ent'[q] = ent[q]
              /\ base'[q] = base[q] /\ call'[q] = call[q]
<1>1. ASSUME NEW r \in Request, Step(r), r # q
      PROVE  /\ pc'[q] = pc[q] /\ ent'[q] = ent[q]
             /\ base'[q] = base[q] /\ call'[q] = call[q]
  <2>1. /\ \E label : Goto(r, label)
        /\ call' = call \/ \E c : call' = [call EXCEPT ![r] = c]
        /\ ent' = ent \/ \E e : ent' = [ent EXCEPT ![r] = e]
        /\ base' = base \/ \E e : base' = [base EXCEPT ![r] = e]
    BY <1>1 DEF Step, Arrive, CreateCheckPlan, CreateCheckExisting,
     CreateCheckAddons, CreateInsertSub, CreateInsertAddons,
     CreateCommit, CreateAbort, FindCurrent, UpdateAssign,
     UpdateSaveLoad, UpdateSaveWrite, AddCheckAddon, AddCheckDuplicate,
     AddInsert, RemoveFindRow, RemoveDelete, tables
  <2> QED
    BY <1>1, <2>1 DEF Goto, TypeInv, TypeOK
<1>2. ASSUME Step(q)
      PROVE  FindCurrent(q) \/ UpdateAssign(q) \/ UpdateSaveLoad(q)
  BY <1>2 DEF Step, Arrive, CreateCheckPlan, CreateCheckExisting,
     CreateCheckAddons, CreateInsertSub, CreateInsertAddons,
     CreateCommit, CreateAbort, FindCurrent, UpdateAssign,
     UpdateSaveLoad, UpdateSaveWrite, AddCheckAddon, AddCheckDuplicate,
     AddInsert, RemoveFindRow, RemoveDelete, Goto, TypeInv, TypeOK
<1>3. CASE Catalog \/ UNCHANGED vars
  BY <1>3 DEF Catalog, SetPlanActive, DeletePlan, DeleteAddon, vars
<1> QED
  BY <1>1, <1>2, <1>3 DEF Next

(* While a request holds an entity, its row is overwritten only by a save   *)
(* that marks the request as stale.                                         *)
LEMMA HeldRowStays ==
    ASSUME TypeInv, RowsInv, [Next]_vars, NEW q \in Request,
           pc[q] \in Holding, pc'[q] \in Holding, q \notin stale'
    PROVE  subs'[ent[q].id] = subs[ent[q].id] /\ q \notin stale
<1>1. q \notin stale
  BY DEF Next, Catalog, SetPlanActive, DeletePlan, DeleteAddon, Step,
     Arrive, CreateCheckPlan, CreateCheckExisting,
     CreateCheckAddons, CreateInsertSub, CreateInsertAddons,
     CreateCommit, CreateAbort, FindCurrent, UpdateAssign,
     UpdateSaveLoad, UpdateSaveWrite, AddCheckAddon, AddCheckDuplicate,
     AddInsert, RemoveFindRow, RemoveDelete,
     history, vars
<1>2. ent[q].id \in Request /\ subs[ent[q].id] # None
  BY DEF TypeInv, TypeOK, ControlOK, Entity
<1>3. ASSUME NEW r \in Request, UpdateSaveWrite(r), SaveAllowed(r),
             ent[r].id = ent[q].id
      PROVE  subs'[ent[q].id] = subs[ent[q].id]
  <2>1. r # q
    BY <1>3 DEF UpdateSaveWrite, Goto, TypeInv, TypeOK
  <2>2. SaveRow(r) = subs[ent[q].id]
    BY <1>3, <2>1 DEF UpdateSaveWrite
  <2> QED
    BY <1>2, <1>3, <2>2 DEF UpdateSaveWrite, TypeInv, TypeOK
<1> QED
  BY <1>1, <1>2, <1>3, RowChange

(* What an entity that no write overtook says of its row.                   *)
Fresh(r) ==
    /\ IsActive(subs[ent[r].id])
    /\ pc[r] = "checkPlanSwitch" => ent[r].row = subs[ent[r].id]
    /\ pc[r] # "checkPlanSwitch" =>
         ent[r].row = Assigned(r, subs[ent[r].id], call[r].body)
    /\ pc[r] = "saveWrite" => base[r].row = subs[ent[r].id]

FreshInv ==
    \A r \in Request : pc[r] \in Holding /\ r \notin stale => Fresh(r)

CancelInv == FreshInv /\ CanceledAtMeansCanceled

LEMMA CancelInvInit == Init => CancelInv
BY DEF Init, CancelInv, FreshInv, CanceledAtMeansCanceled, Existing

LEMMA FreshNext ==
    ASSUME TypeInv, RowsInv, FreshInv, [Next]_vars
    PROVE  FreshInv'
<1> SUFFICES ASSUME NEW q \in Request, pc'[q] \in Holding, q \notin stale'
             PROVE  Fresh(q)'
  BY DEF FreshInv
<1>1. CASE FindCurrent(q)
  <2>1. PICK s \in ActiveOf(call[q].org) :
          ent' = [ent EXCEPT ![q] = [id |-> s, row |-> subs[s],
                                     addons |-> AddonsOf(s)]]
    BY <1>1 DEF FindCurrent, Goto, TypeInv, TypeOK
  <2>2. ent'[q] = [id |-> s, row |-> subs[s], addons |-> AddonsOf(s)]
    BY <2>1 DEF TypeInv, TypeOK
  <2>3. IsActive(subs[s]) /\ subs' = subs
    BY <1>1 DEF ActiveOf, FindCurrent, tables
  <2>4. pc'[q] = "checkPlanSwitch"
    BY <1>1 DEF FindCurrent, AfterFind, Goto, TypeInv, TypeOK, ControlOK
  <2> QED
    BY <2>2, <2>3, <2>4 DEF Fresh
<1>2. CASE UpdateAssign(q)
  <2>1. /\ pc[q] = "checkPlanSwitch" /\ pc'[q] = "saveLoad"
        /\ ent' = [ent EXCEPT ![q].row = Assigned(q, @, call[q].body)]
        /\ subs' = subs /\ call' = call
    BY <1>2 DEF UpdateAssign, Goto, TypeInv, TypeOK, tables
  <2>2. Fresh(q)
    BY <1>2, <2>1, HeldRowStays DEF FreshInv
  <2>3. ent[q] \in Entity
    BY <2>1 DEF TypeInv, TypeOK, ControlOK
  <2>4. /\ ent'[q].id = ent[q].id
        /\ ent'[q].row = Assigned(q, ent[q].row, call[q].body)
    BY <2>1, <2>3 DEF TypeInv, TypeOK, Entity
  <2> QED
    BY <2>1, <2>2, <2>4 DEF Fresh
<1>3. CASE UpdateSaveLoad(q)
  <2>1. /\ pc[q] = "saveLoad" /\ pc'[q] = "saveWrite"
        /\ subs' = subs /\ call' = call /\ ent' = ent
        /\ base'[q].row = subs[ent[q].id]
    BY <1>3 DEF UpdateSaveLoad, Goto, TypeInv, TypeOK, tables
  <2>2. Fresh(q)
    BY <1>3, <2>1, HeldRowStays DEF FreshInv
  <2> QED
    BY <2>1, <2>2 DEF Fresh
<1>4. CASE /\ pc'[q] = pc[q] /\ ent'[q] = ent[q]
           /\ base'[q] = base[q] /\ call'[q] = call[q]
  <2>1. subs'[ent[q].id] = subs[ent[q].id] /\ Fresh(q)
    BY <1>4, HeldRowStays DEF FreshInv
  <2> QED
    BY <1>4, <2>1 DEF Fresh
<1> QED
  BY <1>1, <1>2, <1>3, <1>4, HoldingChange

LEMMA CanceledNext ==
    ASSUME TypeInv, RowsInv, CancelInv, [Next]_vars
    PROVE  CanceledAtMeansCanceled'
<1> SUFFICES ASSUME NEW s \in Request, subs'[s] # None, s \notin raced',
                    subs'[s].canceledAt # None
             PROVE  subs'[s].status = "canceled"
  BY DEF CanceledAtMeansCanceled, Existing
<1>1. s \notin raced
  BY DEF Next, Catalog, SetPlanActive, DeletePlan, DeleteAddon, Step,
     Arrive, CreateCheckPlan, CreateCheckExisting,
     CreateCheckAddons, CreateInsertSub, CreateInsertAddons,
     CreateCommit, CreateAbort, FindCurrent, UpdateAssign,
     UpdateSaveLoad, UpdateSaveWrite, AddCheckAddon, AddCheckDuplicate,
     AddInsert, RemoveFindRow, RemoveDelete,
     history, vars
<1>2. CASE subs'[s] = subs[s]
  BY <1>1, <1>2 DEF CancelInv, CanceledAtMeansCanceled, Existing
<1>3. CASE CreateCommit(s)
  <2>1. pc[s] = "commit" /\ draft[s] # None
    BY <1>3 DEF CreateCommit, TypeInv, ControlOK
  <2>2. subs'[s] = draft[s].row /\ draft[s].row = NewRow(call[s])
    BY <1>3, <2>1
       DEF CreateCommit, RowsInv, DraftInv, DraftOK, TypeInv, TypeOK
  <2> QED
    BY <2>1, <2>2, NewRowTyped
<1>4. ASSUME NEW r \in Request, UpdateSaveWrite(r), SaveAllowed(r),
             ent[r].id = s
      PROVE  subs'[s].status = "canceled"
  <2>1. /\ pc[r] = "saveWrite" /\ subs'[s] = SaveRow(r) /\ r \notin stale
        /\ subs[s] # None
    BY <1>4 DEF UpdateSaveWrite, TypeInv, TypeOK, ControlOK
  <2>2. Fresh(r)
    BY <2>1 DEF CancelInv, FreshInv
  <2>3. subs[s] \in Row /\ subs[s].canceledAt = None
    BY <1>1, <1>4, <2>1, <2>2
       DEF Fresh, IsActive, ACTIVE_STATUSES, CancelInv,
           CanceledAtMeansCanceled, Existing, TypeInv, TypeOK
  <2>4. /\ SaveRow(r).status = ent[r].row.status
        /\ SaveRow(r).canceledAt = ent[r].row.canceledAt
    BY <1>4, <2>1, <2>2 DEF Fresh, SaveRow, Diffed, Written
  <2>5. ent[r].row = Assigned(r, subs[s], call[r].body)
    BY <1>4, <2>1, <2>2 DEF Fresh
  <2>6. call[r].body.status = "canceled"
    BY <2>1, <2>3, <2>4, <2>5 DEF Assigned, Row
  <2>7. ent[r].row.status = "canceled"
    BY <2>3, <2>5, <2>6, NoneAssumption DEF Assigned, Given, Row
  <2> QED
    BY <2>1, <2>4, <2>7
<1> QED
  BY <1>2, <1>3, <1>4, RowChange

(* Where no save is stale, a subscription that carries a cancellation date  *)
(* is canceled.                                                             *)
THEOREM CanceledAtHolds == Spec => []CanceledAtMeansCanceled
<1>1. TypeInv /\ RowsInv /\ CancelInv /\ [Next]_vars => CancelInv'
  BY FreshNext, CanceledNext DEF CancelInv
<1>2. CancelInv => CanceledAtMeansCanceled
  BY DEF CancelInv
<1> QED
  BY <1>1, <1>2, CancelInvInit, RowsAlways, TypeInvNext, RowsInvNext, PTL
     DEF Spec

(* An inactive subscription no request holds never changes again, and no    *)
(* request comes to hold it.                                                *)
THEOREM InactiveStays == Spec => InactiveIsFinal
<1>1. TypeInv /\ RowsInv /\ [Next]_vars =>
        [\A s \in Existing :
           Settled(s) => subs'[s] = subs[s] /\ Settled(s)']_vars
  <2> SUFFICES ASSUME TypeInv, RowsInv, [Next]_vars,
                      NEW s \in Existing, Settled(s)
               PROVE  subs'[s] = subs[s] /\ Settled(s)'
    OBVIOUS
  <2>1. s \in Request /\ subs[s] # None
    BY DEF Existing
  <2>2. subs'[s] = subs[s]
    BY <2>1, RowChange DEF Settled, UpdateSaveWrite
  <2>3. ASSUME NEW q \in Request, pc'[q] \in Holding, ent'[q].id = s
        PROVE  FALSE
    <3>1. CASE FindCurrent(q)
      <4>1. PICK t \in ActiveOf(call[q].org) :
              ent' = [ent EXCEPT ![q] = [id |-> t, row |-> subs[t],
                                         addons |-> AddonsOf(t)]]
        BY <2>3, <3>1 DEF FindCurrent, Goto, TypeInv, TypeOK
      <4>2. ent'[q] = [id |-> t, row |-> subs[t], addons |-> AddonsOf(t)]
        BY <4>1 DEF TypeInv, TypeOK
      <4> QED
        BY <2>3, <4>2 DEF ActiveOf, Settled
    <3>2. CASE UpdateAssign(q)
      <4>1. /\ pc[q] \in Holding /\ ent[q] \in Entity
            /\ ent' = [ent EXCEPT ![q].row = Assigned(q, @, call[q].body)]
        BY <2>3, <3>2
           DEF UpdateAssign, Goto, TypeInv, TypeOK, ControlOK
      <4>2. ent'[q].id = ent[q].id
        BY <4>1 DEF TypeInv, TypeOK, Entity
      <4> QED
        BY <2>3, <4>1, <4>2 DEF Settled
    <3>3. CASE UpdateSaveLoad(q)
      BY <2>3, <3>3 DEF UpdateSaveLoad, Settled
    <3>4. CASE pc'[q] = pc[q] /\ ent'[q] = ent[q]
      BY <2>3, <3>4 DEF Settled
    <3> QED
      BY <2>3, <3>1, <3>2, <3>3, <3>4, HoldingChange
  <2>4. ~IsActive(subs'[s])
    BY <2>2 DEF Settled, IsActive
  <2> QED
    BY <2>2, <2>3, <2>4 DEF Settled, IsActive
<1> QED
  BY <1>1, RowsAlways, PTL DEF Spec, InactiveIsFinal
=============================================================================
