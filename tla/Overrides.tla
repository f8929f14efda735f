------------------------------ MODULE Overrides ------------------------------
(****************************************************************************)
(* The feature overrides of one organization: OverridesService over the     *)
(* table "organization_feature_overrides", beside the catalog its rows      *)
(* refer to.  The two components share no request; they meet in the rows of *)
(* features and in the foreign key of an override.                          *)
(*                                                                          *)
(* An override may be limited to a window [startsAt, endsAt).  create and   *)
(* update check the window against the clock and in itself, but update      *)
(* checks the window of the entity it read and writes only what differs     *)
(* from the row save() reads later.                                         *)
(****************************************************************************)
EXTENDS Catalog

CONSTANTS
    OverrideRequest,  \* the requests to the overrides of a behaviour
    SeededOverrides,  \* SeededOverrides[i]: the rows of the first state
    OverrideWorkload, \* OverrideWorkload[r]: what request r may ask for
    MaxTime,          \* bound of the clock
    Absent            \* a field a PATCH body does not have

Time == 0 .. MaxTime
Date == Time \cup {None}
Override == [feature : Id, startsAt : Date, endsAt : Date]
OverrideId == OverrideRequest \cup DOMAIN SeededOverrides
OverrideCall == [op : {"create"}, row : Override]
           \cup [op : {"update"}, id : OverrideId,
                 startsAt : Date \cup {Absent}, endsAt : Date \cup {Absent}]
           \cup [op : {"delete"}, id : OverrideId]

(* What an update holds: the row it read, the entity with the body assigned *)
(* to it, and the row save() re-read.                                       *)
Held == [read : Override, row : Override, base : Override \cup {None}]

Ordered(o) == o.startsAt # None /\ o.endsAt # None => o.startsAt < o.endsAt

ASSUME TimeAssumption == MaxTime \in Nat
ASSUME SeededOverridesAssumption ==
    /\ SeededOverrides \in [DOMAIN SeededOverrides -> Override]
    /\ DOMAIN SeededOverrides \cap OverrideRequest = {}
    /\ \A i \in DOMAIN SeededOverrides :
         /\ Ordered(SeededOverrides[i])
         /\ SeededOverrides[i].feature \in DOMAIN Seeded
         /\ Seeded[SeededOverrides[i].feature].table = "feature"
         /\ \A j \in DOMAIN SeededOverrides :
              SeededOverrides[i].feature = SeededOverrides[j].feature => i = j
ASSUME OverrideNoneAssumption ==
    /\ None \notin Time \cup OverrideId /\ None \notin Override
    /\ None \notin OverrideCall /\ None \notin Held /\ Absent \notin Date
ASSUME OverrideWorkloadAssumption ==
    OverrideWorkload \in [OverrideRequest -> SUBSET OverrideCall]

VARIABLES
    overrides, \* table organization_feature_overrides, by id
    clock,
    at,        \* where each request to the overrides is
    ask,       \* what it asks for
    held,
    mixed      \* history: rows last written by a save that overtook another

overrideVars == <<overrides, clock, at, ask, held, mixed>>
vars == <<items, mappings, pc, call, ent, base,
          overrides, clock, at, ask, held, mixed>>

Updating == {"saveLoad", "saveWrite"}
Places == {"idle", "findFeature", "checkOverride", "insert", "find", "remove"}
          \cup Updating \cup Ended

There == {i \in OverrideId : overrides[i] # None}
OverridesOf(feature) == {i \in There : overrides[i].feature = feature}

Turn(r, place) == at' = [at EXCEPT ![r] = place]

Init ==
    /\ CatalogInit
    /\ overrides = [i \in OverrideId |->
           IF i \in DOMAIN SeededOverrides THEN SeededOverrides[i] ELSE None]
    /\ clock = 0
    /\ at = [r \in OverrideRequest |-> "idle"]
    /\ ask = [r \in OverrideRequest |-> None]
    /\ held = [r \in OverrideRequest |-> None]
    /\ mixed = {}

Ask(r) ==
    /\ at[r] = "idle"
    /\ \E c \in OverrideWorkload[r] :
         /\ ask' = [ask EXCEPT ![r] = c]
         /\ Turn(r, IF c.op = "create" THEN "findFeature" ELSE "find")
    /\ UNCHANGED <<overrides, clock, held, mixed>>

-----------------------------------------------------------------------------
(* Mutant: only an endsAt without startsAt is looked at.                    *)
ValidDateRange_endOnly(o) == o.endsAt # None => o.endsAt > clock

(* assertValidDateRange                                                     *)
ValidDateRange(o) ==
    /\ o.endsAt # None => o.endsAt > clock
    /\ Ordered(o)

(* create: the feature and the window, then a look for another override of  *)
(* the feature, then the insert                                             *)
CreateFindFeature(r) ==
    /\ at[r] = "findFeature"
    /\ Turn(r, IF IsIn(ask[r].row.feature, "feature") /\ ValidDateRange(ask[r].row)
               THEN "checkOverride" ELSE "rejected")
    /\ UNCHANGED <<overrides, clock, ask, held, mixed>>

CreateCheckOverride(r) ==
    /\ at[r] = "checkOverride"
    /\ Turn(r, IF OverridesOf(ask[r].row.feature) = {} THEN "insert" ELSE "rejected")
    /\ UNCHANGED <<overrides, clock, ask, held, mixed>>

(* Mutant: the migration without uq_override_org_feature.                   *)
RowAllowed_noUnique(i, o) == IsIn(o.feature, "feature")

(* uq_override_org_feature and fk_override_feature                          *)
RowAllowed(i, o) ==
    /\ IsIn(o.feature, "feature")
    /\ OverridesOf(o.feature) \subseteq {i}

OverrideInsert(r) ==
    /\ at[r] = "insert"
    /\ IF RowAllowed(r, ask[r].row)
       THEN /\ overrides' = [overrides EXCEPT ![r] = ask[r].row]
            /\ Turn(r, "ok")
       ELSE Turn(r, "failed") /\ UNCHANGED overrides
    /\ UNCHANGED <<clock, ask, held, mixed>>

-----------------------------------------------------------------------------
(* update: find, validate the window as it would be, assign, save           *)

Given(new, old) == IF new = Absent THEN old ELSE new

Assigned(o, c) == [o EXCEPT !.startsAt = Given(c.startsAt, @),
                            !.endsAt = Given(c.endsAt, @)]

OverrideUpdateFind(r) ==
    LET o == overrides[ask[r].id]
    IN /\ at[r] = "find"
       /\ ask[r].op = "update"
       /\ IF o # None /\ ValidDateRange(Assigned(o, ask[r]))
          THEN /\ held' = [held EXCEPT ![r] =
                     [read |-> o, row |-> Assigned(o, ask[r]), base |-> None]]
               /\ Turn(r, "saveLoad")
          ELSE Turn(r, "rejected") /\ UNCHANGED held
       /\ UNCHANGED <<overrides, clock, ask, mixed>>

OverrideSaveLoad(r) ==
    LET o == overrides[ask[r].id]
    IN /\ at[r] = "saveLoad"
       /\ held' = [held EXCEPT ![r].base = o]
       /\ Turn(r, IF o = held[r].row THEN "ok" ELSE "saveWrite")
       /\ UNCHANGED <<overrides, clock, ask, mixed>>

(* The columns of the UPDATE are those in which the entity differs from the *)
(* re-read row; a row the re-read did not find is inserted again.           *)
Written(new, old, now) == IF new # old THEN new ELSE now

Diffed(h, now) ==
    [feature |-> now.feature,
     startsAt |-> Written(h.row.startsAt, h.base.startsAt, now.startsAt),
     endsAt |-> Written(h.row.endsAt, h.base.endsAt, now.endsAt)]

OverrideSaveWrite(r) ==
    LET i == ask[r].id
        h == held[r]
        now == overrides[i]
    IN /\ at[r] = "saveWrite"
       /\ \/ /\ h.base = None
             /\ now = None /\ RowAllowed(i, h.row)
             /\ overrides' = [overrides EXCEPT ![i] = h.row]
             /\ mixed' = mixed \ {i}
             /\ Turn(r, "ok")
          \/ /\ h.base = None
             /\ ~(now = None /\ RowAllowed(i, h.row))
             /\ Turn(r, "failed")
             /\ UNCHANGED <<overrides, mixed>>
          \/ /\ h.base # None
             /\ now = None
             /\ Turn(r, "ok")
             /\ UNCHANGED <<overrides, mixed>>
          \/ /\ h.base # None
             /\ now # None
             /\ overrides' = [overrides EXCEPT ![i] = Diffed(h, now)]
             /\ mixed' = IF now = h.read /\ h.base = h.read
                         THEN mixed \ {i} ELSE mixed \cup {i}
             /\ Turn(r, "ok")
       /\ UNCHANGED <<clock, ask, held>>

-----------------------------------------------------------------------------
(* delete                                                                   *)

OverrideDeleteFind(r) ==
    /\ at[r] = "find"
    /\ ask[r].op = "delete"
    /\ Turn(r, IF ask[r].id \in There THEN "remove" ELSE "rejected")
    /\ UNCHANGED <<overrides, clock, ask, held, mixed>>

OverrideDelete(r) ==
    /\ at[r] = "remove"
    /\ overrides' = [overrides EXCEPT ![ask[r].id] = None]
    /\ Turn(r, "ok")
    /\ UNCHANGED <<clock, ask, held, mixed>>

-----------------------------------------------------------------------------
OverrideStep(r) ==
    \/ Ask(r)
    \/ CreateFindFeature(r) \/ CreateCheckOverride(r) \/ OverrideInsert(r)
    \/ OverrideUpdateFind(r) \/ OverrideSaveLoad(r) \/ OverrideSaveWrite(r)
    \/ OverrideDeleteFind(r) \/ OverrideDelete(r)

(* Bound: the last date stays in the future.                                *)
Tick ==
    /\ clock + 1 < MaxTime
    /\ clock' = clock + 1
    /\ UNCHANGED <<overrides, at, ask, held, mixed>>

(* Mutant: the foreign key of feature_id does not restrict.                 *)
OverridesRestrict_no == TRUE

(* fk_override_feature (ON DELETE RESTRICT): no step of the catalog deletes *)
(* a feature that has an override.                                          *)
OverridesRestrict == \A i \in There : items'[overrides[i].feature] # None

Next ==
    \/ CatalogNext /\ OverridesRestrict /\ UNCHANGED overrideVars
    \/ (\E r \in OverrideRequest : OverrideStep(r)) /\ UNCHANGED catalogVars
    \/ Tick /\ UNCHANGED catalogVars

Spec == Init /\ [][Next]_vars

-----------------------------------------------------------------------------
(* Every variable keeps its type, those of the catalog included.            *)
TypeOK ==
    /\ CatalogTypeOK
    /\ overrides \in [OverrideId -> Override \cup {None}]
    /\ clock \in Time
    /\ at \in [OverrideRequest -> Places]
    /\ ask \in [OverrideRequest -> OverrideCall \cup {None}]
    /\ held \in [OverrideRequest -> Held \cup {None}]
    /\ mixed \subseteq OverrideId

(* One override per feature, with creates past their check and a save that  *)
(* inserts a deleted override again after another one took its place.       *)
OneOverridePerFeature ==
    \A i, j \in There : overrides[i].feature = overrides[j].feature => i = j

(* The feature of an override exists, although the catalog may delete it    *)
(* between the check and the insert and a late save may insert the override *)
(* after its feature has gone.                                              *)
OverridesReferToFeatures ==
    \A i \in There : IsIn(overrides[i].feature, "feature")

(* The window of an override opens before it ends unless a save mixed two   *)
(* updates; one later update that nobody overtakes puts even that right.    *)
WindowsAreOrdered == \A i \in There \ mixed : Ordered(overrides[i])

(* "startsAt and endsAt must form a valid range if both are provided"       *)
(* (overrides.service.ts:19).                                               *)
WindowIsValid == \A i \in There : Ordered(overrides[i])
=============================================================================
