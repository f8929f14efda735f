--------------------------- MODULE Overrides_proofs ---------------------------
(* Invariants of the catalog, for every set of requests, keys, seeded rows  *)
(* and bodies, then of the overrides beside it.  Seen from the catalog the  *)
(* steps of the overrides are stutters, so what is proved of the catalog    *)
(* alone holds of both.                                                     *)
EXTENDS Overrides, TLAPS

-----------------------------------------------------------------------------
(* What an item that stands for row i looks like, be it the row itself or   *)
(* the entity some update holds: row i was inserted, by now, with the same  *)
(* table, and if it is a plan or an addon with the same slug.               *)
Version(item, i) ==
    /\ item \in Item /\ i \in Id
    /\ i \in Request => pc[i] = "ok" /\ call[i] \in CatalogCall /\ call[i].op = "create"
    /\ item.table = Original(i).table
    /\ item.table \in Bundle => item = Original(i)

RowsOK == \A i \in Id : items[i] # None => Version(items[i], i)

(* What the place of a request says about its call and what it holds.       *)
PlaceOK(r) ==
    /\ pc[r] # "idle" => call[r] \in CatalogCall
    /\ pc[r] \in {"checkKey", "insert"} => call[r].op = "create"
    /\ pc[r] = "find" => call[r].op \in {"update", "delete"}
    /\ pc[r] \in Holding =>
         /\ call[r].op = "update"
         /\ ent[r].table = call[r].table
         /\ Version(ent[r], call[r].id)
    /\ pc[r] = "checkNewKey" => call[r].key # None
    /\ pc[r] = "remove" => call[r].op = "delete"
    /\ pc[r] \in {"findBundle", "findFeature", "checkMapping", "insertMapping"}
         => call[r].op = "assign"
    /\ pc[r] = "findMapping" => call[r].op = "unassign"
    /\ pc[r] = "removeMapping" => ent[r] \in Request

PlacesOK == \A r \in Request : PlaceOK(r)

IInv ==
    /\ CatalogTypeOK
    /\ PlacesOK
    /\ RowsOK
    /\ KeysNameOneRow
    /\ MappedOnce
    /\ MappingsReferToRows

USE DEF Ended, Holding, PC

-----------------------------------------------------------------------------
LEMMA CallShape ==
    ASSUME NEW c \in CatalogCall
    PROVE  /\ c \in Call /\ c # None
           /\ c.op = "create" => c.item \in Item
           /\ c.op = "update" =>
                /\ c.id \in Id /\ c.table \in Table /\ c.key \in Key \cup {None}
                /\ c.table # "feature" => c.key = None
           /\ c.op = "delete" => c.id \in Id /\ c.table \in Table
           /\ c.op \in {"assign", "unassign"} => c.bundle \in Id /\ c.feature \in Id
           /\ c.op \in CatalogOp
BY CallAssumption, CatalogNoneAssumption DEF Call, CatalogOp

LEMMA OriginalTyped ==
    ASSUME NEW i \in Id, i \in Request => call[i] \in CatalogCall /\ call[i].op = "create"
    PROVE  Original(i) \in Item
BY CallShape, SeededAssumption DEF Original, Id

(* A step moves one request that had not ended, and sets its call only when *)
(* it arrives.                                                              *)
LEMMA StepMovesOne ==
    ASSUME CatalogTypeOK, NEW r \in Request, CatalogStep(r)
    PROVE  /\ pc[r] \notin Ended
           /\ \E l \in PC : l # "idle" /\ pc' = [pc EXCEPT ![r] = l]
           /\ pc[r] # "idle" => UNCHANGED call
           /\ \A q \in Request : q # r => pc'[q] = pc[q] /\ call'[q] = call[q]
                                          /\ ent'[q] = ent[q]
<1>1. CASE Arrive(r)
  <2>1. PICK c \in Workload[r] : /\ call' = [call EXCEPT ![r] = c]
                                 /\ Goto(r, FirstStep(c.op))
    BY <1>1 DEF Arrive
  <2>2. c \in CatalogCall
    BY <2>1, CallAssumption
  <2>3. FirstStep(c.op) \in PC \ {"idle"}
    BY <2>2, CallShape DEF FirstStep, CatalogOp
  <2> QED
    BY <1>1, <2>1, <2>3 DEF Arrive, Goto, CatalogTypeOK
<1>2. CASE CreateCheckKey(r) \/ CreateInsert(r)
  BY <1>2 DEF CreateCheckKey, CreateInsert, Goto, CatalogTypeOK
<1>3. CASE UpdateFind(r) \/ UpdateCheckNewKey(r)
  BY <1>3 DEF UpdateFind, UpdateCheckNewKey, Goto, CatalogTypeOK
<1>4. CASE UpdateSaveLoad(r) \/ UpdateSaveWrite(r)
  BY <1>4 DEF UpdateSaveLoad, UpdateSaveWrite, Goto, CatalogTypeOK
<1>5. CASE DeleteFind(r) \/ DeleteRemove(r)
  BY <1>5 DEF DeleteFind, DeleteRemove, Goto, CatalogTypeOK
<1>6. CASE AssignFindBundle(r) \/ AssignFindFeature(r)
  BY <1>6 DEF AssignFindBundle, AssignFindFeature, Goto, CatalogTypeOK
<1>7. CASE AssignCheckMapping(r) \/ AssignInsert(r)
  BY <1>7 DEF AssignCheckMapping, AssignInsert, Goto, CatalogTypeOK
<1>8. CASE UnassignFind(r) \/ UnassignRemove(r)
  BY <1>8 DEF UnassignFind, UnassignRemove, Goto, CatalogTypeOK
<1> QED
  BY <1>1, <1>2, <1>3, <1>4, <1>5, <1>6, <1>7, <1>8 DEF CatalogStep

(* So what was a version of row i stays one.                                *)
LEMMA VersionKept ==
    ASSUME CatalogTypeOK, NEW r \in Request, CatalogStep(r),
           NEW item, NEW i, Version(item, i)
    PROVE  Version(item, i)' /\ Original(i)' = Original(i)
<1>1. i \in Request => i # r
  BY StepMovesOne DEF Version
<1>2. i \in Request => pc'[i] = pc[i] /\ call'[i] = call[i]
  BY <1>1, StepMovesOne
<1>3. Original(i)' = Original(i)
  BY <1>2 DEF Original, Version, Id
<1> QED
  BY <1>2, <1>3 DEF Version

LEMMA SameVersionKey ==
    ASSUME NEW r \in Request, PlaceOK(r), pc[r] = "checkNewKey",
           call[r].key # None
    PROVE  /\ call[r].key \in Key
           /\ ent[r].table = "feature"
           /\ [ent[r] EXCEPT !.key = call[r].key] \in Item
           /\ Version([ent[r] EXCEPT !.key = call[r].key], call[r].id)
<1>1. call[r] \in CatalogCall /\ call[r].op = "update"
  BY DEF PlaceOK
<1>2. call[r].key \in Key /\ call[r].table = "feature"
  BY <1>1, CallShape
<1>3. ent[r] \in Item /\ ent[r].table = "feature" /\ Version(ent[r], call[r].id)
  BY <1>1, <1>2 DEF PlaceOK, Version
<1>4. DEFINE new == [ent[r] EXCEPT !.key = call[r].key]
<1>5. new \in Item /\ new.table = "feature"
  BY <1>2, <1>3 DEF Item
<1>6. Version(new, call[r].id)
  <2> HIDE DEF new
  <2> QED
    BY <1>3, <1>5 DEF Version, Bundle
<1> QED
  BY <1>2, <1>3, <1>5, <1>6

-----------------------------------------------------------------------------
(* Places.  A request that does not move keeps what it has; the one that    *)
(* moves is looked at action by action.                                     *)
LEMMA OthersKept ==
    ASSUME CatalogTypeOK, PlacesOK, NEW r \in Request, CatalogStep(r),
           NEW q \in Request, q # r
    PROVE  PlaceOK(q)'
<1>1. pc'[q] = pc[q] /\ call'[q] = call[q] /\ ent'[q] = ent[q]
  BY StepMovesOne
<1>2. pc[q] \in Holding => Version(ent[q], call[q].id)
  BY DEF PlacesOK, PlaceOK
<1>3. pc[q] \in Holding => Version(ent[q], call[q].id)'
  BY <1>1, <1>2, VersionKept DEF Version, Original
<1>4. PlaceOK(q)
  BY DEF PlacesOK
<1> QED
  BY <1>1, <1>3, <1>4 DEF PlaceOK

LEMMA PlacesKept ==
    ASSUME CatalogTypeOK, PlacesOK, RowsOK, NEW r \in Request, CatalogStep(r)
    PROVE  PlacesOK'
<1> SUFFICES PlaceOK(r)'
  BY OthersKept DEF PlacesOK
<1>0. PlaceOK(r) /\ pc[r] \in PC
  BY DEF PlacesOK, CatalogTypeOK
<1>1. CASE Arrive(r)
  <2>1. PICK c \in Workload[r] : /\ call' = [call EXCEPT ![r] = c]
                                 /\ Goto(r, FirstStep(c.op))
    BY <1>1 DEF Arrive
  <2>2. c \in CatalogCall /\ c.op \in CatalogOp
    BY <2>1, CallAssumption, CallShape
  <2>3. call'[r] = c /\ pc'[r] = FirstStep(c.op)
    BY <2>1 DEF Goto, CatalogTypeOK
  <2>4. \/ c.op = "create" /\ pc'[r] = "checkKey"
        \/ c.op \in {"update", "delete"} /\ pc'[r] = "find"
        \/ c.op = "assign" /\ pc'[r] = "findBundle"
        \/ c.op = "unassign" /\ pc'[r] = "findMapping"
    BY <2>2, <2>3 DEF FirstStep, CatalogOp
  <2> QED
    BY <2>2, <2>3, <2>4 DEF PlaceOK
<1>2. CASE CreateCheckKey(r) \/ CreateInsert(r)
  BY <1>0, <1>2 DEF CreateCheckKey, CreateInsert, Goto, PlaceOK, CatalogTypeOK
<1>3. CASE UpdateFind(r) /\ pc'[r] \in Holding
  <2>1. /\ IsIn(call[r].id, call[r].table)
        /\ call'[r] = call[r] /\ ent'[r] = items[call[r].id]
        /\ pc'[r] = "checkNewKey" => call[r].key # None
        /\ call[r].op = "update" /\ pc[r] = "find"
    BY <1>3 DEF UpdateFind, Goto, CatalogTypeOK
  <2>2. call[r] \in CatalogCall /\ call[r].id \in Id
    BY <1>0, <2>1, CallShape DEF PlaceOK
  <2>3. Version(items[call[r].id], call[r].id)
    BY <2>1, <2>2 DEF RowsOK, IsIn
  <2>5. Version(ent[r], call[r].id)'
    BY <2>1, <2>3, VersionKept DEF Version, Original
  <2> QED
    BY <1>0, <1>3, <2>1, <2>2, <2>5 DEF PlaceOK, IsIn
<1>4. CASE UpdateFind(r) /\ pc'[r] \notin Holding
  BY <1>0, <1>4 DEF UpdateFind, Goto, PlaceOK, CatalogTypeOK
<1>5. CASE UpdateCheckNewKey(r)
  <2>1. CASE pc'[r] = "saveLoad"
    <3>1. /\ call'[r] = call[r] /\ pc[r] = "checkNewKey" /\ call[r].key # None
          /\ ent'[r] = [ent[r] EXCEPT !.key = call[r].key]
      BY <1>0, <1>5, <2>1 DEF UpdateCheckNewKey, Goto, PlaceOK, CatalogTypeOK
    <3>2. PICK new : new = [ent[r] EXCEPT !.key = call[r].key]
      OBVIOUS
    <3>3. Version(new, call[r].id) /\ ent'[r] = new /\ call'[r] = call[r]
      BY <1>0, <3>1, <3>2, SameVersionKey
    <3>4. Version(ent[r], call[r].id)'
      BY <3>3, VersionKept DEF Version, Original
    <3>5. ent[r] \in Item /\ ent[r].table = call[r].table /\ call[r].op = "update"
          /\ call[r] \in CatalogCall
      BY <1>0, <3>1 DEF PlaceOK, Version
    <3>6. ent'[r].table = call'[r].table
      BY <3>1, <3>5 DEF Item
    <3> QED
      BY <2>1, <3>1, <3>4, <3>5, <3>6 DEF PlaceOK
  <2>2. CASE pc'[r] # "saveLoad"
    BY <1>0, <1>5, <2>2 DEF UpdateCheckNewKey, Goto, PlaceOK, CatalogTypeOK
  <2> QED
    BY <2>1, <2>2
<1>6. CASE UpdateSaveLoad(r)
  <2>1. /\ call'[r] = call[r] /\ ent'[r] = ent[r] /\ pc[r] = "saveLoad"
        /\ pc'[r] \in {"ok", "saveWrite"}
    BY <1>6 DEF UpdateSaveLoad, Goto, CatalogTypeOK
  <2>2. Version(ent[r], call[r].id)'
    BY <1>0, <2>1, VersionKept DEF PlaceOK, Version, Original
  <2> QED
    BY <1>0, <2>1, <2>2 DEF PlaceOK
<1>7. CASE UpdateSaveWrite(r)
  BY <1>0, <1>7 DEF UpdateSaveWrite, Goto, PlaceOK, CatalogTypeOK
<1>8. CASE DeleteFind(r) \/ DeleteRemove(r)
  BY <1>0, <1>8 DEF DeleteFind, DeleteRemove, Goto, PlaceOK, CatalogTypeOK
<1>9. CASE AssignFindBundle(r) \/ AssignFindFeature(r) \/ AssignCheckMapping(r)
  BY <1>0, <1>9 DEF AssignFindBundle, AssignFindFeature, AssignCheckMapping, Goto,
     PlaceOK, CatalogTypeOK
<1>10. CASE AssignInsert(r) \/ UnassignRemove(r)
  BY <1>0, <1>10 DEF AssignInsert, UnassignRemove, Goto, PlaceOK, CatalogTypeOK
<1>11. CASE UnassignFind(r)
  BY <1>0, <1>11 DEF UnassignFind, MappingsOf, Goto, PlaceOK, CatalogTypeOK
<1> QED
  BY <1>1, <1>2, <1>3, <1>4, <1>5, <1>6, <1>7, <1>8, <1>9, <1>10, <1>11
     DEF CatalogStep

-----------------------------------------------------------------------------
LEMMA TypeKept ==
    ASSUME CatalogTypeOK, PlacesOK, NEW r \in Request, CatalogStep(r)
    PROVE  CatalogTypeOK'
<1>0. /\ PlaceOK(r)
      /\ pc[r] # "idle" => call[r] \in CatalogCall
  BY DEF PlacesOK, PlaceOK
<1>1. pc' \in [Request -> PC]
  <2>1. PICK l \in PC : pc' = [pc EXCEPT ![r] = l]
    BY StepMovesOne
  <2> QED
    BY <2>1 DEF CatalogTypeOK
<1>2. CASE Arrive(r)
  <2>1. PICK c \in Workload[r] : call' = [call EXCEPT ![r] = c]
    BY <1>2 DEF Arrive
  <2>2. c \in Call
    BY <2>1, CallAssumption
  <2> QED
    BY <1>1, <1>2, <2>1, <2>2 DEF Arrive, CatalogTypeOK
<1>3. CASE CreateInsert(r)
  <2>1. call[r].item \in Item /\ r \in Id
    BY <1>0, <1>3, CallShape DEF CreateInsert, PlaceOK, Id
  <2> QED
    BY <1>1, <1>3, <2>1 DEF CreateInsert, CatalogTypeOK
<1>4. CASE UpdateFind(r)
  <2>1. call[r].id \in Id
    BY <1>0, <1>4, CallShape DEF UpdateFind
  <2>2. IsIn(call[r].id, call[r].table) => items[call[r].id] \in Item
    BY <2>1 DEF IsIn, CatalogTypeOK
  <2> QED
    BY <1>1, <1>4, <2>2 DEF UpdateFind, CatalogTypeOK
<1>5. CASE UpdateCheckNewKey(r)
  <2>1. [ent[r] EXCEPT !.key = call[r].key] \in Item
    BY <1>0, <1>5, SameVersionKey DEF UpdateCheckNewKey, PlaceOK
  <2> QED
    BY <1>1, <1>5, <2>1 DEF UpdateCheckNewKey, CatalogTypeOK
<1>6. CASE UpdateSaveLoad(r)
  <2>1. call[r].id \in Id
    BY <1>0, <1>6, CallShape DEF UpdateSaveLoad, PlaceOK
  <2> QED
    BY <1>1, <1>6, <2>1 DEF UpdateSaveLoad, CatalogTypeOK
<1>7. CASE UpdateSaveWrite(r)
  <2>1. ent[r] \in Item /\ call[r].id \in Id
    BY <1>0, <1>7 DEF UpdateSaveWrite, PlaceOK, Version
  <2> QED
    BY <1>1, <1>7, <2>1 DEF UpdateSaveWrite, CatalogTypeOK
<1>8. CASE DeleteRemove(r)
  BY <1>1, <1>8 DEF DeleteRemove, CatalogTypeOK
<1>9. CASE AssignInsert(r)
  <2>1. [bundle |-> call[r].bundle, feature |-> call[r].feature] \in Mapping
    BY <1>0, <1>9, CallShape DEF AssignInsert, PlaceOK, Mapping
  <2> QED
    BY <1>1, <1>9, <2>1 DEF AssignInsert, CatalogTypeOK
<1>10. CASE UnassignFind(r)
  BY <1>1, <1>10 DEF UnassignFind, MappingsOf, CatalogTypeOK
<1>11. CASE UnassignRemove(r)
  BY <1>1, <1>11 DEF UnassignRemove, CatalogTypeOK
<1>12. CASE CreateCheckKey(r) \/ DeleteFind(r)
  BY <1>1, <1>12 DEF CreateCheckKey, DeleteFind, CatalogTypeOK
<1>13. CASE AssignFindBundle(r) \/ AssignFindFeature(r) \/ AssignCheckMapping(r)
  BY <1>1, <1>13 DEF AssignFindBundle, AssignFindFeature, AssignCheckMapping, CatalogTypeOK
<1> QED
  BY <1>2, <1>3, <1>4, <1>5, <1>6, <1>7, <1>8, <1>9, <1>10, <1>11, <1>12, <1>13
     DEF CatalogStep

-----------------------------------------------------------------------------
(* All a step can do to the tables.                                         *)
Put(i, item) ==
    /\ UniqueAllows(i, item)
    /\ items' = [items EXCEPT ![i] = item]
    /\ UNCHANGED mappings

Remove(i) ==
    /\ ~\E m \in Request : Uses(m, i)
    /\ items' = [items EXCEPT ![i] = None]
    /\ mappings' = [m \in Request |->
          IF mappings[m] # None /\ mappings[m].bundle = i THEN None ELSE mappings[m]]

Assign(r) ==
    /\ AssignAllowed(r)
    /\ mappings' = [mappings EXCEPT ![r] =
          [bundle |-> call[r].bundle, feature |-> call[r].feature]]
    /\ UNCHANGED items

Unassign(m) ==
    /\ mappings' = [mappings EXCEPT ![m] = None]
    /\ UNCHANGED items

LEMMA StepWrites ==
    ASSUME CatalogTypeOK, PlacesOK, NEW r \in Request, CatalogStep(r)
    PROVE  \/ UNCHANGED <<items, mappings>>
           \/ \E i \in Id, item \in Item : Put(i, item) /\ Version(item, i)'
           \/ \E i \in Id : Remove(i)
           \/ Assign(r)
           \/ \E m \in Request : Unassign(m)
<1>0. /\ PlaceOK(r)
      /\ pc[r] # "idle" => call[r] \in CatalogCall
  BY DEF PlacesOK, PlaceOK
<1>1. CASE CreateInsert(r) /\ items' # items
  <2>1. /\ call'[r] = call[r] /\ pc'[r] = "ok" /\ Put(r, call[r].item)
        /\ call[r].op = "create" /\ call[r] \in CatalogCall
    BY <1>0, <1>1 DEF CreateInsert, Goto, Put, PlaceOK, CatalogTypeOK
  <2>2. call[r].item \in Item /\ r \in Id /\ r \notin DOMAIN Seeded
    BY <2>1, CallShape, SeededAssumption DEF Id
  <2>3. \E item \in Item : Put(r, item) /\ Version(item, r)'
    BY <2>1, <2>2 DEF Version, Original
  <2> QED
    BY <2>2, <2>3
<1>2. CASE UpdateSaveWrite(r) /\ items' # items
  <2>1. Put(call[r].id, ent[r]) /\ Version(ent[r], call[r].id)
    BY <1>0, <1>2 DEF UpdateSaveWrite, Put, PlaceOK
  <2>2. PICK i, item : i = call[r].id /\ item = ent[r]
    OBVIOUS
  <2>3. Put(i, item) /\ Version(item, i) /\ i \in Id /\ item \in Item
    BY <2>1, <2>2 DEF Version
  <2> QED
    BY <2>3, VersionKept
<1>3. CASE DeleteRemove(r) /\ items' # items
  <2>1. call[r].id \in Id
    BY <1>0, <1>3, CallShape DEF DeleteRemove, PlaceOK
  <2> QED
    BY <1>3, <2>1 DEF DeleteRemove, Remove
<1>4. CASE AssignInsert(r)
  BY <1>4 DEF AssignInsert, Assign
<1>5. CASE UnassignRemove(r)
  BY <1>0, <1>5 DEF UnassignRemove, Unassign, PlaceOK
<1>6. CASE (CreateInsert(r) \/ UpdateSaveWrite(r)) /\ items' = items
  BY <1>6 DEF CreateInsert, UpdateSaveWrite
<1>7. CASE DeleteRemove(r) /\ items' = items
  <2>1. call[r].id \in Id
    BY <1>0, <1>7, CallShape DEF DeleteRemove, PlaceOK
  <2> QED
    BY <1>7, <2>1 DEF DeleteRemove, Remove
<1>8. CASE Arrive(r) \/ CreateCheckKey(r) \/ UpdateFind(r) \/ UpdateCheckNewKey(r)
           \/ UpdateSaveLoad(r)
  BY <1>8 DEF Arrive, CreateCheckKey, UpdateFind, UpdateCheckNewKey, UpdateSaveLoad
<1>9. CASE DeleteFind(r) \/ AssignFindBundle(r) \/ AssignFindFeature(r)
           \/ AssignCheckMapping(r) \/ UnassignFind(r)
  BY <1>9 DEF DeleteFind, AssignFindBundle, AssignFindFeature, AssignCheckMapping, UnassignFind
<1> QED
  BY <1>1, <1>2, <1>3, <1>4, <1>5, <1>6, <1>7, <1>8, <1>9 DEF CatalogStep

-----------------------------------------------------------------------------
LEMMA RowsKept ==
    ASSUME CatalogTypeOK, PlacesOK, RowsOK, NEW r \in Request, CatalogStep(r)
    PROVE  RowsOK'
<1> SUFFICES ASSUME NEW j \in Id, items'[j] # None
             PROVE  Version(items[j], j)'
  BY DEF RowsOK
<1>1. CASE items'[j] = items[j]
  <2>1. Version(items[j], j)
    BY <1>1 DEF RowsOK
  <2>2. PICK item : item = items[j]
    OBVIOUS
  <2>3. Version(item, j) /\ item = items'[j]
    BY <1>1, <2>1, <2>2
  <2>4. Version(item, j)'
    BY <2>3, VersionKept
  <2> QED
    BY <2>3, <2>4 DEF Version, Original
<1>2. CASE items'[j] # items[j]
  <2>1. PICK i \in Id, item \in Item : Put(i, item) /\ Version(item, i)'
    BY <1>2, StepWrites DEF Remove, Assign, Unassign, CatalogTypeOK
  <2>2. i = j /\ items'[j] = item
    BY <1>2, <2>1 DEF Put, CatalogTypeOK
  <2> QED
    BY <2>1, <2>2 DEF Version, Original
<1> QED
  BY <1>1, <1>2

LEMMA KeysKept ==
    ASSUME CatalogTypeOK, PlacesOK, KeysNameOneRow,
           NEW r \in Request, CatalogStep(r)
    PROVE  KeysNameOneRow'
<1>1. CASE UNCHANGED items
  BY <1>1 DEF KeysNameOneRow
<1>2. ASSUME NEW i \in Id, NEW item \in Item, Put(i, item)
      PROVE  KeysNameOneRow'
  <2>1. \A j \in Id : items'[j] = IF j = i THEN item ELSE items[j]
    BY <1>2 DEF Put, CatalogTypeOK
  <2> QED
    BY <1>2, <2>1 DEF Put, UniqueAllows, Same, KeysNameOneRow
<1>3. ASSUME NEW i \in Id, Remove(i)
      PROVE  KeysNameOneRow'
  <2>1. \A j \in Id : items'[j] = IF j = i THEN None ELSE items[j]
    BY <1>3 DEF Remove, CatalogTypeOK
  <2> QED
    BY <2>1 DEF KeysNameOneRow
<1> QED
  BY <1>1, <1>2, <1>3, StepWrites DEF Assign, Unassign

LEMMA MappedKept ==
    ASSUME CatalogTypeOK, PlacesOK, MappedOnce,
           NEW r \in Request, CatalogStep(r)
    PROVE  MappedOnce'
<1>1. CASE UNCHANGED mappings
  BY <1>1 DEF MappedOnce
<1>2. CASE \E i \in Id : Remove(i)
  BY <1>2 DEF Remove, MappedOnce
<1>3. CASE \E m \in Request : Unassign(m)
  BY <1>3 DEF Unassign, MappedOnce, CatalogTypeOK
<1>4. CASE Assign(r)
  BY <1>4 DEF Assign, AssignAllowed, MappingsOf, MappedOnce, CatalogTypeOK
<1> QED
  BY <1>1, <1>2, <1>3, <1>4, StepWrites DEF Put

(* A row written over another one has its table, and a row that is removed  *)
(* takes the mappings that name it along or is kept by them.                *)
LEMMA ReferencesKept ==
    ASSUME CatalogTypeOK, PlacesOK, RowsOK, MappingsReferToRows,
           NEW r \in Request, CatalogStep(r)
    PROVE  MappingsReferToRows'
<1>1. CASE UNCHANGED <<items, mappings>>
  BY <1>1 DEF MappingsReferToRows, IsIn
<1>2. ASSUME NEW i \in Id, NEW item \in Item, Put(i, item), Version(item, i)'
      PROVE  MappingsReferToRows'
  <2>1. items[i] # None => items[i].table = item.table
    <3>1. PICK old : old = items[i]
      OBVIOUS
    <3>2. items[i] # None => Version(old, i)
      BY <3>1 DEF RowsOK
    <3>3. items[i] # None => Original(i)' = Original(i) /\ old.table = Original(i).table
      BY <3>2, VersionKept DEF Version
    <3> QED
      BY <1>2, <3>1, <3>3 DEF Version
  <2>2. \A j \in Id, t \in Table : IsIn(j, t) => IsIn(j, t)'
    BY <1>2, <2>1, CatalogNoneAssumption DEF IsIn, Put, CatalogTypeOK
  <2>3. \A m \in Request : mappings[m] # None =>
          mappings[m].bundle \in Id /\ mappings[m].feature \in Id
    BY DEF CatalogTypeOK, Mapping
  <2> QED
    BY <1>2, <2>2, <2>3 DEF Put, MappingsReferToRows, Table
<1>3. ASSUME NEW i \in Id, Remove(i)
      PROVE  MappingsReferToRows'
  <2>1. SUFFICES ASSUME NEW m \in Request, mappings'[m] # None
                 PROVE  /\ \E t \in Bundle : IsIn(mappings[m].bundle, t)'
                        /\ IsIn(mappings[m].feature, "feature")'
    BY DEF MappingsReferToRows
  <2>2. mappings'[m] = mappings[m] /\ mappings[m].bundle # i /\ mappings[m].feature # i
    BY <1>3, <2>1 DEF Remove, Uses
  <2>3. \A j \in Id : j # i => items'[j] = items[j]
    BY <1>3 DEF Remove, CatalogTypeOK
  <2>4. mappings[m].bundle \in Id /\ mappings[m].feature \in Id
    BY <2>1, <2>2 DEF CatalogTypeOK, Mapping
  <2> QED
    BY <2>1, <2>2, <2>3, <2>4 DEF MappingsReferToRows, IsIn
<1>4. CASE Assign(r)
  <2>1. \A m \in Request : mappings'[m] = IF m = r
          THEN [bundle |-> call[r].bundle, feature |-> call[r].feature] ELSE mappings[m]
    BY <1>4 DEF Assign, CatalogTypeOK
  <2>2. UNCHANGED items
    BY <1>4 DEF Assign
  <2>3. (\E t \in Bundle : IsIn(call[r].bundle, t)) /\ IsIn(call[r].feature, "feature")
    BY <1>4 DEF Assign, AssignAllowed
  <2> QED
    BY <2>1, <2>2, <2>3 DEF MappingsReferToRows, IsIn
<1>5. CASE \E m \in Request : Unassign(m)
  BY <1>5 DEF Unassign, MappingsReferToRows, IsIn, CatalogTypeOK
<1> QED
  BY <1>1, <1>2, <1>3, <1>4, <1>5, StepWrites

-----------------------------------------------------------------------------
LEMMA IInvInit == CatalogInit => IInv
<1> SUFFICES ASSUME CatalogInit PROVE IInv
  OBVIOUS
<1>1. CatalogTypeOK /\ PlacesOK
  BY SeededAssumption DEF CatalogInit, CatalogTypeOK, PlacesOK, PlaceOK
<1>2. RowsOK /\ KeysNameOneRow
  BY SeededAssumption DEF CatalogInit, RowsOK, KeysNameOneRow, Version, Original, Id
<1>3. MappedOnce /\ MappingsReferToRows
  BY DEF CatalogInit, MappedOnce, MappingsReferToRows
<1> QED
  BY <1>1, <1>2, <1>3 DEF IInv

LEMMA IInvNext == IInv /\ [CatalogNext]_catalogVars => IInv'
<1>1. ASSUME IInv, NEW r \in Request, CatalogStep(r)
      PROVE  IInv'
  BY <1>1, TypeKept, PlacesKept, RowsKept, KeysKept, MappedKept, ReferencesKept DEF IInv
<1>2. ASSUME IInv, UNCHANGED catalogVars
      PROVE  IInv'
  BY <1>2 DEF IInv, catalogVars, CatalogTypeOK, PlacesOK, PlaceOK, RowsOK, Version,
     Original, KeysNameOneRow, MappedOnce, MappingsReferToRows, IsIn
<1> QED
  BY <1>1, <1>2 DEF CatalogNext

LEMMA Inductive == CatalogSpec => []IInv
BY IInvInit, IInvNext, PTL DEF CatalogSpec

(* Every reachable state of the catalog is typed.                           *)
THEOREM CatalogTypeCorrect == CatalogSpec => []CatalogTypeOK
<1>1. IInv => CatalogTypeOK
  BY DEF IInv
<1> QED
  BY <1>1, Inductive, PTL

(* However many creates, renames and late saves pass their check together,  *)
(* a key names one row.                                                     *)
THEOREM UniqueKeys == CatalogSpec => []KeysNameOneRow
<1>1. IInv => KeysNameOneRow
  BY DEF IInv
<1> QED
  BY <1>1, Inductive, PTL

(* However many assignments pass their check together, a feature is in a    *)
(* bundle once.                                                             *)
THEOREM UniqueMappings == CatalogSpec => []MappedOnce
<1>1. IInv => MappedOnce
  BY DEF IInv
<1> QED
  BY <1>1, Inductive, PTL

(* No order of deletes, cascades, assignments and saves that insert deleted *)
(* rows again leaves a mapping without its bundle or feature.               *)
THEOREM ReferencesHold == CatalogSpec => []MappingsReferToRows
<1>1. IInv => MappingsReferToRows
  BY DEF IInv
<1> QED
  BY <1>1, Inductive, PTL

(* No update, not even one that inserts a deleted row again, gives a plan   *)
(* or an addon another slug than it was created with.                       *)
THEOREM SlugsStay == CatalogSpec => []SlugIsImmutable
<1>1. IInv => SlugIsImmutable
  BY DEF IInv, RowsOK, Version, SlugIsImmutable
<1> QED
  BY <1>1, Inductive, PTL

(* A deleted row nobody holds any more never comes back.                    *)
THEOREM DeletedStayDeleted == CatalogSpec => GoneForGood
<1>1. ASSUME IInv, NEW r \in Request, CatalogStep(r), NEW i \in Id, Gone(i)
      PROVE  Gone(i)'
  <2>0. /\ pc[r] \notin Ended /\ (pc[r] # "idle" => UNCHANGED call)
        /\ \A q \in Request : q # r => pc'[q] = pc[q] /\ call'[q] = call[q]
    BY <1>1, StepMovesOne DEF IInv
  <2>1. items'[i] = None
    <3>1. CASE CreateInsert(r)
      BY <1>1, <2>0, <3>1 DEF CreateInsert, Gone, IInv, CatalogTypeOK
    <3>2. CASE UpdateSaveWrite(r)
      BY <1>1, <3>2 DEF UpdateSaveWrite, Gone, IInv, CatalogTypeOK
    <3>3. CASE DeleteRemove(r)
      BY <1>1, <3>3 DEF DeleteRemove, Gone, IInv, CatalogTypeOK
    <3>4. CASE UNCHANGED items
      BY <1>1, <3>4 DEF Gone
    <3> QED
      BY <1>1, <3>1, <3>2, <3>3, <3>4 DEF CatalogStep, Arrive, CreateCheckKey, UpdateFind,
         UpdateCheckNewKey, UpdateSaveLoad, DeleteFind, AssignFindBundle, AssignFindFeature,
         AssignCheckMapping, AssignInsert, UnassignFind, UnassignRemove
  <2>2. i \in Request => pc'[i] \in Ended
    BY <1>1, <2>0 DEF Gone
  <2>3. ~(pc'[r] \in Holding /\ call'[r].id = i)
    <3>1. CASE Arrive(r)
      <4>1. pc'[r] \in {"checkKey", "find", "findBundle", "findMapping"}
        <5>1. PICK c \in Workload[r] : Goto(r, FirstStep(c.op))
          BY <3>1 DEF Arrive
        <5>2. c.op \in CatalogOp
          BY <5>1, CallAssumption, CallShape
        <5> QED
          BY <1>1, <5>1, <5>2 DEF Goto, FirstStep, CatalogOp, IInv, CatalogTypeOK
      <4> QED
        BY <4>1
    <3>2. CASE UpdateFind(r)
      BY <1>1, <2>0, <3>2 DEF UpdateFind, IsIn, Goto, Gone, IInv, CatalogTypeOK
    <3>3. CASE pc[r] \in Holding
      BY <1>1, <2>0, <3>3 DEF Gone
    <3>4. CASE CreateCheckKey(r) \/ CreateInsert(r) \/ DeleteFind(r) \/ DeleteRemove(r)
      BY <1>1, <3>4 DEF CreateCheckKey, CreateInsert, DeleteFind, DeleteRemove, Goto,
         IInv, CatalogTypeOK
    <3>5. CASE AssignFindBundle(r) \/ AssignFindFeature(r) \/ AssignCheckMapping(r)
      BY <1>1, <3>5 DEF AssignFindBundle, AssignFindFeature, AssignCheckMapping, Goto,
         IInv, CatalogTypeOK
    <3>6. CASE AssignInsert(r) \/ UnassignFind(r) \/ UnassignRemove(r)
      BY <1>1, <3>6 DEF AssignInsert, UnassignFind, UnassignRemove, Goto, IInv, CatalogTypeOK
    <3> QED
      BY <1>1, <3>1, <3>2, <3>3, <3>4, <3>5, <3>6 DEF CatalogStep, UpdateCheckNewKey,
         UpdateSaveLoad, UpdateSaveWrite
  <2> QED
    BY <1>1, <2>0, <2>1, <2>2, <2>3 DEF Gone
<1>2. ASSUME IInv, [CatalogNext]_catalogVars
      PROVE  [\A i \in Id : Gone(i) => Gone(i)']_catalogVars
  BY <1>1, <1>2 DEF CatalogNext
<1> QED
  BY <1>2, Inductive, PTL DEF CatalogSpec, GoneForGood

-----------------------------------------------------------------------------
(* The overrides beside the catalog                                         *)

USE DEF Updating, Places

(* The composition implements the catalog.                                  *)
THEOREM ImplementsCatalog == Spec => CatalogSpec
<1>1. Init => CatalogInit
  BY DEF Init
<1>2. [Next]_vars => [CatalogNext]_catalogVars
  BY DEF Next, vars, catalogVars
<1> QED
  BY <1>1, <1>2, PTL DEF Spec, CatalogSpec

(* The rows and mappings of the catalog are sound with the overrides beside *)
(* it: keys name one row, mappings are unique and refer to rows, slugs of   *)
(* bundles stay, and nobody brings back a deleted row nobody holds.         *)
THEOREM CatalogHolds ==
    Spec => /\ [](CatalogTypeOK /\ KeysNameOneRow /\ MappedOnce)
            /\ [](MappingsReferToRows /\ SlugIsImmutable)
            /\ GoneForGood
BY ImplementsCatalog, CatalogTypeCorrect, UniqueKeys, UniqueMappings, ReferencesHold,
   SlugsStay, DeletedStayDeleted, PTL

-----------------------------------------------------------------------------
(* What the place of a request says about its call, and that the window it  *)
(* is going to write has been checked.                                      *)
AskOK(r) ==
    /\ at[r] # "idle" => ask[r] \in OverrideCall
    /\ at[r] \in {"findFeature", "checkOverride", "insert"} => ask[r].op = "create"
    /\ at[r] \in {"checkOverride", "insert"} => Ordered(ask[r].row)
    /\ at[r] = "find" => ask[r].op \in {"update", "delete"}
    /\ at[r] \in Updating =>
         /\ ask[r].op = "update"
         /\ held[r] \in Held
         /\ Ordered(held[r].row)
    /\ at[r] = "remove" => ask[r].op = "delete"

TypeInv ==
    /\ TypeOK
    /\ \A r \in OverrideRequest : AskOK(r)

OverrideInv ==
    /\ TypeInv
    /\ OneOverridePerFeature
    /\ OverridesReferToFeatures
    /\ WindowsAreOrdered

LEMMA AskShape ==
    ASSUME NEW c \in OverrideCall
    PROVE  /\ c # None
           /\ c.op \in {"create", "update", "delete"}
           /\ c.op = "create" => c.row \in Override
           /\ c.op = "update" => /\ c.id \in OverrideId
                                 /\ c.startsAt \in Date \cup {Absent}
                                 /\ c.endsAt \in Date \cup {Absent}
           /\ c.op = "delete" => c.id \in OverrideId
BY OverrideNoneAssumption DEF OverrideCall

LEMMA AssignedTyped ==
    ASSUME NEW c \in OverrideCall, c.op = "update", NEW o \in Override
    PROVE  Assigned(o, c) \in Override
BY AskShape DEF Assigned, Given, Override

LEMMA DiffedTyped ==
    ASSUME NEW h \in Held, h.base # None, NEW now \in Override
    PROVE  /\ Diffed(h, now) \in Override
           /\ Diffed(h, now).feature = now.feature
           /\ now = h.base /\ Ordered(h.row) => Ordered(Diffed(h, now))
<1>1. h.row \in Override /\ h.base \in Override
  BY DEF Held
<1>2. Diffed(h, now) \in Override /\ Diffed(h, now).feature = now.feature
  BY <1>1 DEF Diffed, Written, Override
<1>3. now = h.base => /\ Diffed(h, now).startsAt = h.row.startsAt
                      /\ Diffed(h, now).endsAt = h.row.endsAt
  BY <1>1 DEF Diffed, Written, Override
<1> QED
  BY <1>2, <1>3 DEF Ordered

-----------------------------------------------------------------------------
LEMMA TypeInvStep ==
    ASSUME TypeInv, NEW r \in OverrideRequest, OverrideStep(r), UNCHANGED catalogVars
    PROVE  TypeInv'
<1>0. /\ AskOK(r) /\ CatalogTypeOK'
      /\ r \in OverrideId
      /\ at[r] # "idle" => ask[r] \in OverrideCall
  BY DEF TypeInv, TypeOK, AskOK, catalogVars, CatalogTypeOK, OverrideId
<1> SUFFICES TypeOK' /\ AskOK(r)' /\ \A q \in OverrideRequest \ {r} :
                 at'[q] = at[q] /\ ask'[q] = ask[q] /\ held'[q] = held[q]
  BY DEF TypeInv, AskOK, Ordered
<1>1. CASE Ask(r)
  <2>1. PICK c \in OverrideWorkload[r] :
          /\ ask' = [ask EXCEPT ![r] = c]
          /\ at' = [at EXCEPT ![r] = IF c.op = "create" THEN "findFeature" ELSE "find"]
    BY <1>1 DEF Ask, Turn
  <2>2. c \in OverrideCall
    BY <2>1, OverrideWorkloadAssumption
  <2> QED
    BY <1>0, <1>1, <2>1, <2>2, AskShape DEF Ask, TypeInv, TypeOK, AskOK, There
<1>2. CASE CreateFindFeature(r)
  BY <1>0, <1>2 DEF CreateFindFeature, ValidDateRange, Turn, TypeInv, TypeOK, AskOK, Ordered
<1>3. CASE CreateCheckOverride(r)
  BY <1>0, <1>3 DEF CreateCheckOverride, Turn, TypeInv, TypeOK, AskOK, Ordered
<1>4. CASE OverrideInsert(r)
  <2>1. ask[r].row \in Override
    BY <1>0, <1>4, AskShape DEF OverrideInsert, AskOK
  <2> QED
    BY <1>0, <1>4, <2>1 DEF OverrideInsert, Turn, TypeInv, TypeOK, AskOK, Ordered
<1>5. CASE OverrideUpdateFind(r)
  <2>1. ask[r].id \in OverrideId /\ ask[r].op = "update"
    BY <1>0, <1>5, AskShape DEF OverrideUpdateFind
  <2>2. PICK o : o = overrides[ask[r].id]
    OBVIOUS
  <2>3. o # None => o \in Override /\ Assigned(o, ask[r]) \in Override
    BY <1>0, <1>5, <2>1, <2>2, AssignedTyped DEF OverrideUpdateFind, TypeInv, TypeOK
  <2>4. CASE o # None /\ ValidDateRange(Assigned(o, ask[r]))
    <3>1. [read |-> o, row |-> Assigned(o, ask[r]), base |-> None] \in Held
      BY <2>3, <2>4 DEF Held
    <3>2. Ordered(Assigned(o, ask[r]))
      BY <2>4 DEF ValidDateRange
    <3> QED
      BY <1>0, <1>5, <2>1, <2>2, <2>4, <3>1, <3>2
         DEF OverrideUpdateFind, Turn, TypeInv, TypeOK, AskOK, Ordered
  <2>5. CASE ~(o # None /\ ValidDateRange(Assigned(o, ask[r])))
    BY <1>0, <1>5, <2>2, <2>5 DEF OverrideUpdateFind, Turn, TypeInv, TypeOK, AskOK, Ordered
  <2> QED
    BY <2>4, <2>5
<1>6. CASE OverrideSaveLoad(r)
  <2>1. ask[r].id \in OverrideId /\ held[r] \in Held /\ Ordered(held[r].row)
    BY <1>0, <1>6, AskShape DEF OverrideSaveLoad, AskOK
  <2>2. PICK o : o = overrides[ask[r].id]
    OBVIOUS
  <2>3. o \in Override \cup {None}
    BY <2>1, <2>2 DEF TypeInv, TypeOK
  <2>4. PICK h : h = [held[r] EXCEPT !.base = o]
    OBVIOUS
  <2>5. h \in Held /\ h.row = held[r].row
    BY <2>1, <2>3, <2>4 DEF Held
  <2>6. held' = [held EXCEPT ![r] = h]
    BY <1>6, <2>2, <2>4 DEF OverrideSaveLoad
  <2> QED
    BY <1>0, <1>6, <2>1, <2>5, <2>6 DEF OverrideSaveLoad, Turn, TypeInv, TypeOK, AskOK, Ordered
<1>7. CASE OverrideSaveWrite(r)
  <2>1. ask[r].id \in OverrideId /\ held[r] \in Held
    BY <1>0, <1>7, AskShape DEF OverrideSaveWrite, AskOK
  <2>2. held[r].row \in Override
    BY <2>1 DEF Held
  <2>3. held[r].base # None /\ overrides[ask[r].id] # None =>
          Diffed(held[r], overrides[ask[r].id]) \in Override
    BY <2>1, DiffedTyped DEF TypeInv, TypeOK
  <2>4. overrides' \in [OverrideId -> Override \cup {None}] /\ mixed' \subseteq OverrideId
    BY <1>7, <2>1, <2>2, <2>3 DEF OverrideSaveWrite, TypeInv, TypeOK
  <2>5. at' = [at EXCEPT ![r] = "ok"] \/ at' = [at EXCEPT ![r] = "failed"]
    BY <1>7 DEF OverrideSaveWrite, Turn
  <2> QED
    BY <1>0, <1>7, <2>4, <2>5 DEF OverrideSaveWrite, TypeInv, TypeOK, AskOK
<1>8. CASE OverrideDeleteFind(r)
  BY <1>0, <1>8 DEF OverrideDeleteFind, Turn, TypeInv, TypeOK, AskOK
<1>9. CASE OverrideDelete(r)
  BY <1>0, <1>9 DEF OverrideDelete, Turn, TypeInv, TypeOK, AskOK
<1> QED
  BY <1>1, <1>2, <1>3, <1>4, <1>5, <1>6, <1>7, <1>8, <1>9 DEF OverrideStep

(* What a step of the overrides writes: nothing, a row that the constraints *)
(* allow and whose window was checked, the columns of an update over a row, *)
(* or the row away.                                                         *)
Write(i, o) ==
    /\ RowAllowed(i, o) /\ Ordered(o)
    /\ overrides' = [overrides EXCEPT ![i] = o]

Update(i, o) ==
    /\ overrides[i] # None /\ o.feature = overrides[i].feature
    /\ i \notin mixed' => Ordered(o)
    /\ overrides' = [overrides EXCEPT ![i] = o]

Drop(i) == overrides' = [overrides EXCEPT ![i] = None]

LEMMA OverrideWrites ==
    ASSUME TypeInv, NEW r \in OverrideRequest, OverrideStep(r)
    PROVE  \E i \in OverrideId :
             /\ \A j \in OverrideId \ {i} : j \in mixed' <=> j \in mixed
             /\ \/ UNCHANGED overrides /\ UNCHANGED mixed
                \/ \E o \in Override : Write(i, o) \/ Update(i, o)
                \/ Drop(i)
<1>0. AskOK(r) /\ r \in OverrideId
  BY DEF TypeInv, OverrideId
<1>1. CASE OverrideInsert(r)
  <2>1. ask[r].row \in Override
    BY <1>0, <1>1, AskShape DEF OverrideInsert, AskOK
  <2> QED
    BY <1>0, <1>1, <2>1 DEF OverrideInsert, Write, AskOK
<1>2. CASE OverrideSaveWrite(r)
  <2>1. PICK i, h, now : i = ask[r].id /\ h = held[r] /\ now = overrides[i]
    OBVIOUS
  <2>2. /\ i \in OverrideId /\ h \in Held /\ h.row \in Override /\ Ordered(h.row)
        /\ now \in Override \cup {None}
    BY <1>0, <1>2, <2>1, AskShape DEF OverrideSaveWrite, AskOK, Held, TypeInv, TypeOK
  <2>3. \A j \in OverrideId \ {i} : j \in mixed' <=> j \in mixed
    BY <1>2, <2>1 DEF OverrideSaveWrite
  <2>4. CASE h.base = None /\ now = None /\ RowAllowed(i, h.row)
             /\ overrides' = [overrides EXCEPT ![i] = h.row]
    BY <2>2, <2>3, <2>4 DEF Write
  <2>5. CASE /\ h.base # None /\ now # None
             /\ overrides' = [overrides EXCEPT ![i] = Diffed(h, now)]
             /\ mixed' = IF now = h.read /\ h.base = h.read
                         THEN mixed \ {i} ELSE mixed \cup {i}
    <3>1. /\ Diffed(h, now) \in Override /\ Diffed(h, now).feature = now.feature
          /\ now = h.base => Ordered(Diffed(h, now))
      BY <2>2, <2>5, DiffedTyped
    <3> QED
      BY <2>1, <2>2, <2>3, <2>5, <3>1 DEF Update
  <2>6. CASE UNCHANGED <<overrides, mixed>>
    BY <2>2, <2>6
  <2> QED
    BY <1>2, <2>1, <2>4, <2>5, <2>6 DEF OverrideSaveWrite
<1>3. CASE OverrideDelete(r)
  <2>1. ask[r].id \in OverrideId
    BY <1>0, <1>3, AskShape DEF OverrideDelete, AskOK
  <2> QED
    BY <1>3, <2>1 DEF OverrideDelete, Drop
<1>4. CASE Ask(r) \/ CreateFindFeature(r) \/ CreateCheckOverride(r)
           \/ OverrideUpdateFind(r) \/ OverrideSaveLoad(r) \/ OverrideDeleteFind(r)
  BY <1>0, <1>4 DEF Ask, CreateFindFeature, CreateCheckOverride, OverrideUpdateFind,
     OverrideSaveLoad, OverrideDeleteFind
<1> QED
  BY <1>1, <1>2, <1>3, <1>4 DEF OverrideStep

LEMMA OverrideInvStep ==
    ASSUME OverrideInv, NEW r \in OverrideRequest, OverrideStep(r), UNCHANGED catalogVars
    PROVE  OverrideInv'
<1>1. TypeInv /\ TypeInv'
  BY TypeInvStep DEF OverrideInv
<1>2. PICK i \in OverrideId :
        /\ \A j \in OverrideId \ {i} : j \in mixed' <=> j \in mixed
        /\ \/ UNCHANGED overrides /\ UNCHANGED mixed
           \/ \E o \in Override : Write(i, o) \/ Update(i, o)
           \/ Drop(i)
  BY <1>1, OverrideWrites
<1>3. UNCHANGED items
  BY DEF catalogVars
<1>4. CASE UNCHANGED overrides /\ UNCHANGED mixed
  BY <1>1, <1>3, <1>4 DEF OverrideInv, OneOverridePerFeature, OverridesReferToFeatures,
     WindowsAreOrdered, There, IsIn
<1>5. CASE Drop(i)
  <2>1. \A j \in OverrideId : overrides'[j] = IF j = i THEN None ELSE overrides[j]
    BY <1>1, <1>5 DEF Drop, TypeInv, TypeOK
  <2> QED
    BY <1>1, <1>2, <1>3, <2>1 DEF OverrideInv, OneOverridePerFeature,
       OverridesReferToFeatures, WindowsAreOrdered, There, IsIn
<1>6. ASSUME NEW o \in Override, Write(i, o)
      PROVE  OverrideInv'
  <2>1. \A j \in OverrideId : overrides'[j] = IF j = i THEN o ELSE overrides[j]
    BY <1>1, <1>6 DEF Write, TypeInv, TypeOK
  <2>2. OneOverridePerFeature'
    BY <1>6, <2>1 DEF Write, RowAllowed, OverridesOf, OverrideInv, OneOverridePerFeature, There
  <2>3. OverridesReferToFeatures'
    BY <1>3, <1>6, <2>1 DEF Write, RowAllowed, OverrideInv, OverridesReferToFeatures, There, IsIn
  <2>4. WindowsAreOrdered'
    BY <1>2, <1>6, <2>1 DEF Write, OverrideInv, WindowsAreOrdered, There
  <2> QED
    BY <1>1, <2>2, <2>3, <2>4 DEF OverrideInv
<1>7. ASSUME NEW o \in Override, Update(i, o)
      PROVE  OverrideInv'
  <2>1. \A j \in OverrideId : overrides'[j] = IF j = i THEN o ELSE overrides[j]
    BY <1>1, <1>7 DEF Update, TypeInv, TypeOK
  <2>2. OneOverridePerFeature' /\ OverridesReferToFeatures'
    BY <1>3, <1>7, <2>1 DEF Update, OverrideInv, OneOverridePerFeature,
       OverridesReferToFeatures, There, IsIn
  <2>3. WindowsAreOrdered'
    BY <1>2, <1>7, <2>1 DEF Update, OverrideInv, WindowsAreOrdered, There
  <2> QED
    BY <1>1, <2>2, <2>3 DEF OverrideInv
<1> QED
  BY <1>2, <1>4, <1>5, <1>6, <1>7

(* A step of the catalog keeps the table of every row it does not remove,   *)
(* and the foreign key keeps it from removing a feature with an override.   *)
LEMMA OverrideInvCatalog ==
    ASSUME OverrideInv, IInv, NEW r \in Request, CatalogStep(r),
           OverridesRestrict, UNCHANGED overrideVars
    PROVE  OverrideInv'
<1>1. TypeInv'
  BY TypeKept DEF IInv, OverrideInv, TypeInv, TypeOK, AskOK, overrideVars, There
<1>2. OverridesReferToFeatures'
  <2> SUFFICES ASSUME NEW j \in There, NEW f, f = overrides[j].feature
               PROVE  IsIn(f, "feature")'
    BY DEF OverridesReferToFeatures, overrideVars, There, IsIn
  <2>1. f \in Id /\ IsIn(f, "feature") /\ items'[f] # None
    BY DEF OverrideInv, TypeInv, TypeOK, OverridesReferToFeatures, OverridesRestrict,
       There, Override
  <2>2. PICK old : old = items[f]
    OBVIOUS
  <2>3. Version(old, f) /\ old.table = "feature"
    BY <2>1, <2>2 DEF IInv, RowsOK, IsIn
  <2>4. Version(old, f)'
    BY <2>3, VersionKept DEF IInv
  <2>5. RowsOK'
    BY RowsKept DEF IInv
  <2>6. Version(items[f], f)'
    BY <2>1, <2>5 DEF RowsOK
  <2> QED
    BY <2>1, <2>3, <2>4, <2>6 DEF Version, IsIn
<1>3. OneOverridePerFeature' /\ WindowsAreOrdered'
  BY DEF OverrideInv, OneOverridePerFeature, WindowsAreOrdered, There, overrideVars
<1> QED
  BY <1>1, <1>2, <1>3 DEF OverrideInv

LEMMA OverrideInvInit == Init => OverrideInv
<1> SUFFICES ASSUME Init PROVE OverrideInv
  OBVIOUS
<1>1. CatalogTypeOK /\ CatalogInit
  BY IInvInit DEF Init, IInv
<1>2. TypeInv
  BY <1>1, SeededOverridesAssumption, TimeAssumption
     DEF Init, TypeInv, TypeOK, AskOK, Time, OverrideId
<1>3. \A i \in There : i \in DOMAIN SeededOverrides /\ overrides[i] = SeededOverrides[i]
  BY DEF Init, There, OverrideId
<1>4. \A i \in There : IsIn(overrides[i].feature, "feature")
  BY <1>1, <1>3, SeededOverridesAssumption, SeededAssumption, CatalogNoneAssumption
     DEF CatalogInit, IsIn, Id
<1> QED
  BY <1>2, <1>3, <1>4, SeededOverridesAssumption
     DEF OverrideInv, OneOverridePerFeature, OverridesReferToFeatures, WindowsAreOrdered

LEMMA OverrideInvNext == OverrideInv /\ IInv /\ [Next]_vars => OverrideInv'
<1> SUFFICES ASSUME OverrideInv, IInv, [Next]_vars PROVE OverrideInv'
  OBVIOUS
<1>1. CASE CatalogNext /\ OverridesRestrict /\ UNCHANGED overrideVars
  BY <1>1, OverrideInvCatalog DEF CatalogNext
<1>2. CASE (\E r \in OverrideRequest : OverrideStep(r)) /\ UNCHANGED catalogVars
  BY <1>2, OverrideInvStep
<1>3. CASE Tick /\ UNCHANGED catalogVars
  <2>1. clock' \in Time
    BY <1>3, TimeAssumption DEF Tick, OverrideInv, TypeInv, TypeOK, Time
  <2> QED
    BY <1>3, <2>1 DEF Tick, catalogVars, OverrideInv, TypeInv, TypeOK, CatalogTypeOK, AskOK,
       OneOverridePerFeature, OverridesReferToFeatures, WindowsAreOrdered, There, IsIn
<1>4. CASE UNCHANGED vars
  BY <1>4 DEF vars, OverrideInv, TypeInv, TypeOK, CatalogTypeOK, AskOK,
     OneOverridePerFeature, OverridesReferToFeatures, WindowsAreOrdered, There, IsIn
<1> QED
  BY <1>1, <1>2, <1>3, <1>4 DEF Next

LEMMA OverridesInductive == Spec => []OverrideInv
<1>1. Init => IInv
  BY IInvInit DEF Init
<1>2. IInv /\ [Next]_vars => IInv'
  BY IInvNext DEF Next, vars, catalogVars
<1> QED
  BY <1>1, <1>2, OverrideInvInit, OverrideInvNext, PTL DEF Spec

(* Catalog, overrides and clock keep their types in every reachable state.  *)
THEOREM TypeCorrect == Spec => []TypeOK
<1>1. OverrideInv => TypeOK
  BY DEF OverrideInv, TypeInv
<1> QED
  BY <1>1, OverridesInductive, PTL

(* However many creates race and late saves insert deleted overrides again, *)
(* a feature has one override.                                              *)
THEOREM OneOverride == Spec => []OneOverridePerFeature
<1>1. OverrideInv => OneOverridePerFeature
  BY DEF OverrideInv
<1> QED
  BY <1>1, OverridesInductive, PTL

(* No step of the catalog or the overrides leaves an override without its   *)
(* feature.                                                                 *)
THEOREM OverridesHaveFeatures == Spec => []OverridesReferToFeatures
<1>1. OverrideInv => OverridesReferToFeatures
  BY DEF OverrideInv
<1> QED
  BY <1>1, OverridesInductive, PTL

(* A window is out of order only where a save overtook another update, and  *)
(* an update that nobody overtakes repairs it.                              *)
THEOREM WindowsOrdered == Spec => []WindowsAreOrdered
<1>1. OverrideInv => WindowsAreOrdered
  BY DEF OverrideInv
<1> QED
  BY <1>1, OverridesInductive, PTL
=============================================================================
