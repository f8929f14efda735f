------------------------------- MODULE Catalog -------------------------------
(****************************************************************************)
(* The catalog: CatalogService over the tables "features", "plans",         *)
(* "addons", and "plan_features" / "addon_features", the mappings.          *)
(*                                                                          *)
(* Features, plans and addons are handled alike: a row has a unique key     *)
(* (the code of a feature, the slug of a plan or an addon), is looked up,   *)
(* saved and removed by id, and no handler holds a lock or a transaction    *)
(* across its awaits.  So they are one map from ids to rows here, a row     *)
(* naming its table; plans and addons are the bundles features are mapped   *)
(* to.  An action is one database round trip of a request.  A row is named  *)
(* after the request that first inserts it; Seeded are the rows there from  *)
(* the start.  Columns other than keys and references are left out.         *)
(****************************************************************************)
EXTENDS Naturals, FiniteSets

CONSTANTS
    Key,         \* normalized codes and slugs
    Request,     \* the requests to the catalog of a behaviour
    Seeded,      \* Seeded[i]: the rows of the first state, by id
    CatalogCall, \* what requests may ask for
    Workload,    \* Workload[r]: what request r may ask for
    None         \* undefined, or "no row"

Bundle == {"plan", "addon"}
Table == {"feature"} \cup Bundle
Item == [table : Table, key : Key]
Id == Request \cup DOMAIN Seeded
Mapping == [bundle : Id, feature : Id]

CatalogOp == {"create", "update", "delete", "assign", "unassign"}
Call == [op : {"create"}, item : Item]
   \cup [op : {"update"}, id : Id, table : Table, key : Key \cup {None}]
   \cup [op : {"delete"}, id : Id, table : Table]
   \cup [op : {"assign", "unassign"}, bundle : Id, feature : Id]

Same(i, j) == i.table = j.table /\ i.key = j.key

ASSUME SeededAssumption ==
    /\ Seeded \in [DOMAIN Seeded -> Item]
    /\ DOMAIN Seeded \cap Request = {}
    /\ \A i, j \in DOMAIN Seeded : Same(Seeded[i], Seeded[j]) => i = j
ASSUME CatalogNoneAssumption ==
    /\ None \notin Key \cup Id /\ None \notin Item
    /\ None \notin Mapping /\ None \notin Call
ASSUME CallAssumption ==
    /\ CatalogCall \subseteq Call
    /\ Workload \in [Request -> SUBSET CatalogCall]
    \* no body of PATCH plan or addon has a slug
    /\ \A c \in CatalogCall : c.op = "update" /\ c.table # "feature" => c.key = None

VARIABLES
    items,    \* tables features, plans and addons, by id
    mappings, \* the mapping request r inserted
    pc,
    call,
    ent,      \* the entity an update holds; for unassign, the id it found
    base      \* what save() re-read: the row, or None if it was gone

catalogVars == <<items, mappings, pc, call, ent, base>>

Ended == {"ok", "rejected", "failed"}
Holding == {"checkNewKey", "saveLoad", "saveWrite"}
PC == {"idle", "checkKey", "insert", "find", "remove", "findBundle",
       "findFeature", "checkMapping", "insertMapping", "findMapping",
       "removeMapping"} \cup Holding \cup Ended

IsIn(i, table) == items[i] # None /\ items[i].table = table
KeyTaken(item) == \E i \in Id : items[i] # None /\ Same(items[i], item)
MappingsOf(c) == {m \in Request : mappings[m] = [bundle |-> c.bundle,
                                                 feature |-> c.feature]}

Goto(r, label) == pc' = [pc EXCEPT ![r] = label]

CatalogInit ==
    /\ items = [i \in Id |-> IF i \in DOMAIN Seeded THEN Seeded[i] ELSE None]
    /\ mappings = [r \in Request |-> None]
    /\ pc = [r \in Request |-> "idle"]
    /\ call = [r \in Request |-> None]
    /\ ent = [r \in Request |-> None]
    /\ base = [r \in Request |-> None]

FirstStep(op) == CASE op = "create" -> "checkKey"
                   [] op \in {"update", "delete"} -> "find"
                   [] op = "assign" -> "findBundle"
                   [] op = "unassign" -> "findMapping"

Arrive(r) ==
    /\ pc[r] = "idle"
    /\ \E c \in Workload[r] :
         /\ call' = [call EXCEPT ![r] = c]
         /\ Goto(r, FirstStep(c.op))
    /\ UNCHANGED <<items, mappings, ent, base>>

-----------------------------------------------------------------------------
(* createFeature, createPlan, createAddon                                   *)

CreateCheckKey(r) ==
    /\ pc[r] = "checkKey"
    /\ Goto(r, IF KeyTaken(call[r].item) THEN "rejected" ELSE "insert")
    /\ UNCHANGED <<items, mappings, call, ent, base>>

(* Mutant: the migration without the unique keys.                           *)
UniqueAllows_noKey(i, item) == TRUE

(* uq_feature_code, uq_plan_slug, uq_addon_slug: no row but i has the key.  *)
UniqueAllows(i, item) ==
    \A j \in Id : items[j] # None /\ Same(items[j], item) => j = i

CreateInsert(r) ==
    /\ pc[r] = "insert"
    /\ IF UniqueAllows(r, call[r].item)
       THEN /\ items' = [items EXCEPT ![r] = call[r].item]
            /\ Goto(r, "ok")
       ELSE Goto(r, "failed") /\ UNCHANGED items
    /\ UNCHANGED <<mappings, call, ent, base>>

-----------------------------------------------------------------------------
(* updateFeature, updatePlan, updateAddon: find, check a new code, save     *)

(* Mutant: PATCH of an id that is not there starts from an empty entity.    *)
UpdateFind_orCreate(r) ==
    LET c == call[r]
    IN /\ pc[r] = "find"
       /\ c.op = "update"
       /\ \E k \in Key : ent' = [ent EXCEPT ![r] = IF IsIn(c.id, c.table)
             THEN items[c.id] ELSE [table |-> c.table, key |-> k]]
       /\ Goto(r, "saveLoad")
       /\ UNCHANGED <<items, mappings, call, base>>

(* Mutant: no test for undefined before the new code is looked at.          *)
UpdateFind_unchecked(r) ==
    LET c == call[r]
    IN /\ pc[r] = "find"
       /\ c.op = "update"
       /\ IF IsIn(c.id, c.table)
          THEN /\ ent' = [ent EXCEPT ![r] = items[c.id]]
               /\ Goto(r, IF c.key = items[c.id].key THEN "saveLoad" ELSE "checkNewKey")
          ELSE Goto(r, "rejected") /\ UNCHANGED ent
       /\ UNCHANGED <<items, mappings, call, base>>

(* Mutant: a new name derives a new slug, as it does on create.             *)
UpdateFind_newSlug(r) ==
    LET c == call[r]
    IN /\ pc[r] = "find"
       /\ c.op = "update"
       /\ IF IsIn(c.id, c.table)
          THEN /\ \E k \in Key :
                    ent' = [ent EXCEPT ![r] = [table |-> c.table, key |-> k]]
               /\ Goto(r, "saveLoad")
          ELSE Goto(r, "rejected") /\ UNCHANGED ent
       /\ UNCHANGED <<items, mappings, call, base>>

(* A code that is null instead of left out throws in normalizeCode; as      *)
(* nothing has changed by then, no body here carries one.                   *)
UpdateFind(r) ==
    LET c == call[r]
    IN /\ pc[r] = "find"
       /\ c.op = "update"
       /\ IF IsIn(c.id, c.table)
          THEN /\ ent' = [ent EXCEPT ![r] = items[c.id]]
               /\ Goto(r, IF c.key \in {None, items[c.id].key}
                          THEN "saveLoad" ELSE "checkNewKey")
          ELSE Goto(r, "rejected") /\ UNCHANGED ent
       /\ UNCHANGED <<items, mappings, call, base>>

UpdateCheckNewKey(r) ==
    LET new == [ent[r] EXCEPT !.key = call[r].key]
    IN /\ pc[r] = "checkNewKey"
       /\ IF KeyTaken(new)
          THEN Goto(r, "rejected") /\ UNCHANGED ent
          ELSE /\ ent' = [ent EXCEPT ![r] = new]
               /\ Goto(r, "saveLoad")
       /\ UNCHANGED <<items, mappings, call, base>>

(* save(), first half: re-read by id.  Without a difference in the key the  *)
(* UPDATE touches nothing modelled here.                                    *)
UpdateSaveLoad(r) ==
    /\ pc[r] = "saveLoad"
    /\ base' = [base EXCEPT ![r] = items[call[r].id]]
    /\ Goto(r, IF items[call[r].id] = ent[r] THEN "ok" ELSE "saveWrite")
    /\ UNCHANGED <<items, mappings, call, ent>>

(* save(), second half.  A row the re-read did not find is inserted, under  *)
(* the id of the entity; one that disappears only now is passed over.       *)
UpdateSaveWrite(r) ==
    LET i == call[r].id
        gone == items[i] = None
    IN /\ pc[r] = "saveWrite"
       /\ IF gone /\ base[r] # None
          THEN Goto(r, "ok") /\ UNCHANGED items
          ELSE IF UniqueAllows(i, ent[r]) /\ (base[r] = None => gone)
          THEN items' = [items EXCEPT ![i] = ent[r]] /\ Goto(r, "ok")
          ELSE Goto(r, "failed") /\ UNCHANGED items
       /\ UNCHANGED <<mappings, call, ent, base>>

-----------------------------------------------------------------------------
(* deleteFeature, deletePlan, deleteAddon                                   *)

DeleteFind(r) ==
    /\ pc[r] = "find"
    /\ call[r].op = "delete"
    /\ Goto(r, IF IsIn(call[r].id, call[r].table) THEN "remove" ELSE "rejected")
    /\ UNCHANGED <<items, mappings, call, ent, base>>

Uses(m, i) == mappings[m] # None /\ mappings[m].feature = i

(* Mutant: a feature in use is deleted all the same.                        *)
DeleteRemove_unrestricted(r) ==
    LET i == call[r].id
    IN /\ pc[r] = "remove"
       /\ items' = [items EXCEPT ![i] = None]
       /\ mappings' = [m \in Request |->
             IF mappings[m] # None /\ mappings[m].bundle = i
             THEN None ELSE mappings[m]]
       /\ Goto(r, "ok")
       /\ UNCHANGED <<call, ent, base>>

(* The mappings of a bundle go with it (CASCADE); a feature some mapping    *)
(* uses stays (RESTRICT).  Rows of other tables refer to features, plans    *)
(* and addons and restrict their deletion, too: it may be refused anyway.   *)
DeleteRemove(r) ==
    LET i == call[r].id
    IN /\ pc[r] = "remove"
       /\ \/ /\ ~\E m \in Request : Uses(m, i)
             /\ items' = [items EXCEPT ![i] = None]
             /\ mappings' = [m \in Request |->
                   IF mappings[m] # None /\ mappings[m].bundle = i
                   THEN None ELSE mappings[m]]
             /\ Goto(r, "ok")
          \/ /\ items[i] # None
             /\ Goto(r, "failed")
             /\ UNCHANGED <<items, mappings>>
       /\ UNCHANGED <<call, ent, base>>

-----------------------------------------------------------------------------
(* assignFeatureToPlan, assignFeatureToAddon                                *)

AssignFindBundle(r) ==
    /\ pc[r] = "findBundle"
    /\ Goto(r, IF \E t \in Bundle : IsIn(call[r].bundle, t)
               THEN "findFeature" ELSE "rejected")
    /\ UNCHANGED <<items, mappings, call, ent, base>>

AssignFindFeature(r) ==
    /\ pc[r] = "findFeature"
    /\ Goto(r, IF IsIn(call[r].feature, "feature") THEN "checkMapping" ELSE "rejected")
    /\ UNCHANGED <<items, mappings, call, ent, base>>

AssignCheckMapping(r) ==
    /\ pc[r] = "checkMapping"
    /\ Goto(r, IF MappingsOf(call[r]) = {} THEN "insertMapping" ELSE "rejected")
    /\ UNCHANGED <<items, mappings, call, ent, base>>

(* Mutant: no unique key of a bundle and a feature behind the check.        *)
AssignAllowed_noUnique(r) ==
    /\ \E t \in Bundle : IsIn(call[r].bundle, t)
    /\ IsIn(call[r].feature, "feature")

(* Both foreign keys, uq_plan_feature and uq_addon_feature.                 *)
AssignAllowed(r) ==
    /\ \E t \in Bundle : IsIn(call[r].bundle, t)
    /\ IsIn(call[r].feature, "feature")
    /\ MappingsOf(call[r]) = {}

AssignInsert(r) ==
    /\ pc[r] = "insertMapping"
    /\ IF AssignAllowed(r)
       THEN /\ mappings' = [mappings EXCEPT ![r] =
                   [bundle |-> call[r].bundle, feature |-> call[r].feature]]
            /\ Goto(r, "ok")
       ELSE Goto(r, "failed") /\ UNCHANGED mappings
    /\ UNCHANGED <<items, call, ent, base>>

-----------------------------------------------------------------------------
(* removePlanFeature, removeAddonFeature                                    *)

UnassignFind(r) ==
    /\ pc[r] = "findMapping"
    /\ \/ /\ \E m \in MappingsOf(call[r]) : ent' = [ent EXCEPT ![r] = m]
          /\ Goto(r, "removeMapping")
       \/ /\ MappingsOf(call[r]) = {}
          /\ Goto(r, "rejected")
          /\ UNCHANGED ent
    /\ UNCHANGED <<items, mappings, call, base>>

UnassignRemove(r) ==
    /\ pc[r] = "removeMapping"
    /\ mappings' = [mappings EXCEPT ![ent[r]] = None]
    /\ Goto(r, "ok")
    /\ UNCHANGED <<items, call, ent, base>>

-----------------------------------------------------------------------------
CatalogStep(r) ==
    \/ Arrive(r)
    \/ CreateCheckKey(r) \/ CreateInsert(r)
    \/ UpdateFind(r) \/ UpdateCheckNewKey(r)
    \/ UpdateSaveLoad(r) \/ UpdateSaveWrite(r)
    \/ DeleteFind(r) \/ DeleteRemove(r)
    \/ AssignFindBundle(r) \/ AssignFindFeature(r)
    \/ AssignCheckMapping(r) \/ AssignInsert(r)
    \/ UnassignFind(r) \/ UnassignRemove(r)

CatalogNext == \E r \in Request : CatalogStep(r)

CatalogSpec == CatalogInit /\ [][CatalogNext]_catalogVars

-----------------------------------------------------------------------------
(* Properties                                                               *)

(* Every variable of the catalog keeps its type.                            *)
CatalogTypeOK ==
    /\ items \in [Id -> Item \cup {None}]
    /\ mappings \in [Request -> Mapping \cup {None}]
    /\ pc \in [Request -> PC]
    /\ call \in [Request -> Call \cup {None}]
    /\ ent \in [Request -> Item \cup Request \cup {None}]
    /\ base \in [Request -> Item \cup {None}]

(* No code, plan slug or addon slug names two rows, although every create   *)
(* and rename checks before it writes and a save may insert a deleted row   *)
(* again after its key was given away.                                      *)
KeysNameOneRow ==
    \A i, j \in Id :
        items[i] # None /\ items[j] # None /\ Same(items[i], items[j]) => i = j

(* A feature is in a plan or an addon at most once, with two assignments    *)
(* past their check.                                                        *)
MappedOnce ==
    \A m, n \in Request :
        mappings[m] # None /\ mappings[m] = mappings[n] => m = n

(* Both ends of a mapping exist and are a bundle and a feature, whatever is *)
(* deleted, cascades or comes back between the checks and the insert.       *)
MappingsReferToRows ==
    \A m \in Request : mappings[m] # None =>
        /\ \E t \in Bundle : IsIn(mappings[m].bundle, t)
        /\ IsIn(mappings[m].feature, "feature")

(* A plan or addon has the slug it was created with for as long as it is    *)
(* there ("immutable after creation", plan.entity.ts:15), even when a save  *)
(* inserts its row again.                                                   *)
Original(i) == IF i \in DOMAIN Seeded THEN Seeded[i] ELSE call[i].item
SlugIsImmutable ==
    \A i \in Id : items[i] # None /\ items[i].table \in Bundle =>
        items[i] = Original(i)

(* A deleted row comes back only by the save of an update that had read it: *)
(* once no update holds it, no request brings it back or comes to hold it.  *)
Gone(i) ==
    /\ items[i] = None
    /\ i \in Request => pc[i] \in Ended
    /\ \A r \in Request : ~(pc[r] \in Holding /\ call[r].id = i)
GoneForGood == [][\A i \in Id : Gone(i) => Gone(i)']_catalogVars
=============================================================================
