---------------------------- MODULE Subscriptions ----------------------------
(****************************************************************************)
(* The subscription component: SubscriptionsService over the tables         *)
(* "subscriptions" and "subscription_addons".                               *)
(*                                                                          *)
(* Every HTTP request is a process.  A handler awaits the database several  *)
(* times, and any other request may run at each await, so a handler is one  *)
(* action per database round trip; what it read earlier stays in its own    *)
(* variables (ent, base) while the tables move on.  A transaction of        *)
(* several statements keeps what it inserted in draft until it commits:     *)
(* other requests read committed rows only (READ COMMITTED) but wait for    *)
(* the keys and the referenced rows a running transaction has locked.       *)
(*                                                                          *)
(* A request writes at most one row of each table and addon, so rows are    *)
(* named after the request that inserted them: subs[r] is the subscription  *)
(* request r created, [by |-> r, addon |-> a, ...] the addon row it added.  *)
(* Rows of subscriptions are never deleted by this program.                 *)
(****************************************************************************)
EXTENDS Naturals, FiniteSets, Sequences, SequencesExt

CONSTANTS
    Org, Plan, Addon, \* organizations, catalog plans, catalog addons
    Terms,            \* values of the columns the service passes through:
                      \* billing period and cancelAtPeriodEnd
    Request,          \* one element per HTTP request of a behaviour
    CreateDto,        \* bodies of POST subscription
    UpdateDto,        \* bodies of PATCH subscription
    Workload,         \* Workload[r]: the operations request r may be
    AddonTableHasUpdatedAt, \* does subscription_addons have the column
                            \* updated_at its entity declares?
    Null,             \* null as the value of a field of a PATCH body
    None              \* undefined (a field left out), a null column, no row

Status == {"trialing", "active", "past_due", "canceled"}
ACTIVE_STATUSES == {"trialing", "active"}
Op == {"create", "update", "addAddon", "removeAddon"}

Row == [org : Org, plan : Plan, status : Status, terms : Terms,
        canceledAt : Request \cup {None}]
AddonRow == [by : Request, sub : Request, addon : Addon]
EntityRow == [org : Org, plan : Plan \cup {Null}, status : Status \cup {Null},
              terms : Terms \cup {Null}, canceledAt : Request \cup {None}]
Entity == [id : Request, row : EntityRow, addons : SUBSET AddonRow]
Draft == [row : Row, addons : SUBSET AddonRow]

ASSUME DtoAssumption ==
    /\ CreateDto \subseteq [plan : Plan, status : Status, terms : Terms,
                            addons : Seq(Addon)]
    /\ UpdateDto \subseteq [plan : Plan \cup {None, Null},
                            status : Status \cup {None, Null},
                            terms : Terms \cup {None, Null}]
ASSUME NoneAssumption ==
    /\ None \notin Status \cup Plan \cup Addon \cup Terms \cup Request \cup Org
    /\ None \notin Row /\ None \notin Entity /\ None \notin Draft
ASSUME NullAssumption ==
    Null \notin Status \cup Plan \cup Terms \cup {None}
ASSUME WorkloadAssumption == Workload \in [Request -> SUBSET Op]
ASSUME DriftAssumption == AddonTableHasUpdatedAt \in BOOLEAN

VARIABLES
    plans,     \* plans[p]: "active", "inactive" or "deleted"
    addons,    \* the catalog addons that exist
    subs,      \* table subscriptions, by the request that inserted the row
    subAddons, \* table subscription_addons
    draft,     \* what the transaction of a create has inserted so far
    pc,        \* where each request is
    call,      \* operation, organization and body of each request
    ent,       \* the entity a handler holds: id, columns, addons
    base,      \* what save() re-read before computing its diff
    stale,     \* history: requests whose entity was overtaken by a write
    raced      \* history: subscriptions written by a stale save

tables == <<plans, addons, subs, subAddons, draft>>
history == <<stale, raced>>
vars == <<plans, addons, subs, subAddons, draft,
          pc, call, ent, base, stale, raced>>

Call == [op : Op, org : Org, body : CreateDto \cup UpdateDto \cup Addon]

Ended == {"ok", "rejected", "failed"}
InTransaction == {"insertAddons", "commit"}
Holding == {"checkPlanSwitch", "saveLoad", "saveWrite"}
PC == {"idle", "checkPlan", "checkExisting", "checkAddons", "insertSub",
       "findCurrent", "checkAddon", "checkDuplicate", "insertAddon",
       "findAddonRow", "deleteAddonRow"}
      \cup InTransaction \cup Holding \cup Ended

Existing == {s \in Request : subs[s] # None}
IsActive(row) == row.status \in ACTIVE_STATUSES
ActiveOf(org) == {s \in Existing : subs[s].org = org /\ IsActive(subs[s])}
AddonsOf(s) == {a \in subAddons : a.sub = s}

Goto(r, label) == pc' = [pc EXCEPT ![r] = label]

Init ==
    /\ plans \in [Plan -> {"active", "inactive"}]
    /\ addons = Addon
    /\ subs = [r \in Request |-> None]
    /\ subAddons = {}
    /\ draft = [r \in Request |-> None]
    /\ pc = [r \in Request |-> "idle"]
    /\ call = [r \in Request |-> None]
    /\ ent = [r \in Request |-> None]
    /\ base = [r \in Request |-> None]
    /\ stale = {}
    /\ raced = {}

-----------------------------------------------------------------------------
(* A request arrives.  "body" is the dto for create and update, the addon   *)
(* for the two addon operations.                                            *)

Bodies(op) == CASE op = "create" -> CreateDto
                [] op = "update" -> UpdateDto
                [] OTHER -> Addon

Arrive(r) ==
    /\ pc[r] = "idle"
    /\ \E op \in Workload[r], o \in Org : \E b \in Bodies(op) :
         /\ call' = [call EXCEPT ![r] = [op |-> op, org |-> o, body |-> b]]
         /\ Goto(r, IF op = "create" THEN "checkPlan" ELSE "findCurrent")
    /\ UNCHANGED <<tables, ent, base, history>>

-----------------------------------------------------------------------------
(* create                                                                   *)

CreateCheckPlan(r) ==
    /\ pc[r] = "checkPlan"
    /\ Goto(r, IF plans[call[r].body.plan] = "active"
               THEN "checkExisting" ELSE "rejected")
    /\ UNCHANGED <<tables, call, ent, base, history>>

CreateCheckExisting(r) ==
    /\ pc[r] = "checkExisting"
    /\ Goto(r, IF ActiveOf(call[r].org) = {} THEN "checkAddons" ELSE "rejected")
    /\ UNCHANGED <<tables, call, ent, base, history>>

CreateCheckAddons(r) ==
    /\ pc[r] = "checkAddons"
    /\ LET wanted == call[r].body.addons
       IN Goto(r, IF ToSet(wanted) \subseteq addons /\ IsInjective(wanted)
                  THEN "insertSub" ELSE "rejected")
    /\ UNCHANGED <<tables, call, ent, base, history>>

(* Mutant: the migration without the partial unique index.                  *)
ActiveIndexAllows_noIndex(s, row) == TRUE

(* uq_subscription_org_active: among the rows other than s, none is active  *)
(* in row's organization unless row itself is not active.                   *)
ActiveIndexAllows(s, row) == IsActive(row) => ActiveOf(row.org) \subseteq {s}

NewRow(c) == [org |-> c.org, plan |-> c.body.plan, status |-> c.body.status,
              terms |-> c.body.terms, canceledAt |-> None]
NewAddonRows(r, c) ==
    {[by |-> r, sub |-> r, addon |-> a] : a \in ToSet(c.body.addons)}

(* The same index while a create that has inserted an active row in the     *)
(* organization has not ended: the statement waits for its outcome.         *)
IndexWaits(s, row) ==
    /\ IsActive(row)
    /\ \E q \in Request \ {s} :
         /\ draft[q] # None
         /\ IsActive(draft[q].row) /\ draft[q].row.org = row.org

(* Mutant: the subscription saved by its repository, outside the            *)
(* transaction of the addon rows.                                           *)
CreateInsertSub_ownConnection(r) ==
    /\ pc[r] = "insertSub"
    /\ ActiveIndexAllows(r, NewRow(call[r]))
    /\ subs' = [subs EXCEPT ![r] = NewRow(call[r])]
    /\ draft' = [draft EXCEPT ![r] = [row |-> NewRow(call[r]), addons |-> {}]]
    /\ Goto(r, IF call[r].body.addons = <<>> THEN "commit" ELSE "insertAddons")
    /\ UNCHANGED <<plans, addons, subAddons, call, ent, base, history>>

(* The transaction, statement by statement: the subscription, its addons in *)
(* one INSERT, COMMIT.  A failed statement rolls the transaction back.      *)
CreateInsertSub(r) ==
    LET row == NewRow(call[r])
    IN /\ pc[r] = "insertSub"
       /\ ~IndexWaits(r, row)
       /\ IF ActiveIndexAllows(r, row) /\ plans[row.plan] # "deleted"
          THEN /\ draft' = [draft EXCEPT ![r] = [row |-> row, addons |-> {}]]
               /\ Goto(r, IF call[r].body.addons = <<>>
                          THEN "commit" ELSE "insertAddons")
          ELSE /\ Goto(r, "failed")
               /\ UNCHANGED draft
       /\ UNCHANGED <<plans, addons, subs, subAddons, call, ent, base, history>>

CreateInsertAddons(r) ==
    LET rows == NewAddonRows(r, call[r])
    IN /\ pc[r] = "insertAddons"
       /\ IF AddonTableHasUpdatedAt /\ {x.addon : x \in rows} \subseteq addons
          THEN /\ draft' = [draft EXCEPT ![r].addons = rows]
               /\ Goto(r, "commit")
          ELSE /\ draft' = [draft EXCEPT ![r] = None]
               /\ Goto(r, "failed")
       /\ UNCHANGED <<plans, addons, subs, subAddons, call, ent, base, history>>

CreateCommit(r) ==
    /\ pc[r] = "commit"
    /\ subs' = [subs EXCEPT ![r] = draft[r].row]
    /\ subAddons' = subAddons \cup draft[r].addons
    /\ draft' = [draft EXCEPT ![r] = None]
    /\ Goto(r, "ok")
    /\ UNCHANGED <<plans, addons, call, ent, base, history>>

(* The process dies or loses its connection before the COMMIT.              *)
CreateAbort(r) ==
    /\ pc[r] \in InTransaction
    /\ draft' = [draft EXCEPT ![r] = None]
    /\ Goto(r, "failed")
    /\ UNCHANGED <<plans, addons, subs, subAddons, call, ent, base, history>>

-----------------------------------------------------------------------------
(* findCurrent: the first step of every other operation.                    *)

AfterFind(op) == CASE op = "update" -> "checkPlanSwitch"
                   [] op = "addAddon" -> "checkAddon"
                   [] op = "removeAddon" -> "findAddonRow"

(* Mutant: the latest subscription, whatever its status.                    *)
FindCurrent_anyStatus(r) ==
    /\ pc[r] = "findCurrent"
    /\ \E s \in {x \in Existing : subs[x].org = call[r].org} :
         ent' = [ent EXCEPT ![r] = [id |-> s, row |-> subs[s],
                                    addons |-> AddonsOf(s)]]
    /\ Goto(r, AfterFind(call[r].op))
    /\ UNCHANGED <<tables, call, base, history>>

FindCurrent(r) ==
    /\ pc[r] = "findCurrent"
    /\ \/ /\ AddonTableHasUpdatedAt
          /\ \E s \in ActiveOf(call[r].org) :
               ent' = [ent EXCEPT ![r] = [id |-> s, row |-> subs[s],
                                          addons |-> AddonsOf(s)]]
          /\ Goto(r, AfterFind(call[r].op))
       \/ /\ AddonTableHasUpdatedAt
          /\ ActiveOf(call[r].org) = {}
          /\ Goto(r, "rejected")
          /\ UNCHANGED ent
       \/ /\ ~AddonTableHasUpdatedAt \* column does not exist: the query fails
          /\ Goto(r, "failed")
          /\ UNCHANGED ent
    /\ UNCHANGED <<tables, call, base, history>>

-----------------------------------------------------------------------------
(* updateCurrent                                                            *)

(* Mutant: no test for undefined before the assignment.                     *)
Given_unchecked(new, old) == new

Given(new, old) == IF new = None THEN old ELSE new

(* Mutant: every change of status stamps canceledAt.                        *)
Assigned_stampsAnyStatus(r, row, dto) ==
    [row EXCEPT
        !.plan = Given(dto.plan, @),
        !.status = Given(dto.status, @),
        !.terms = Given(dto.terms, @),
        !.canceledAt = IF dto.status # None /\ @ = None THEN r ELSE @]

(* The assignments to the entity; canceledAt gets the time of this request. *)
Assigned(r, row, dto) ==
    [row EXCEPT
        !.plan = Given(dto.plan, @),
        !.status = Given(dto.status, @),
        !.terms = Given(dto.terms, @),
        !.canceledAt = IF dto.status = "canceled" /\ @ = None THEN r ELSE @]

(* planRepo.findOne: TypeORM drops a condition that is null, so a null id   *)
(* finds whatever plan comes first.                                         *)
PlansFound(id) == IF id = Null THEN {p \in Plan : plans[p] # "deleted"}
                  ELSE {id}

UpdateAssign(r) ==
    LET dto == call[r].body
        switches == dto.plan # None /\ dto.plan # ent[r].row.plan
        found == PlansFound(dto.plan)
    IN /\ pc[r] = "checkPlanSwitch"
       /\ \/ /\ switches => \E p \in found : plans[p] = "active"
             /\ ent' = [ent EXCEPT ![r].row = Assigned(r, @, dto)]
             /\ Goto(r, "saveLoad")
          \/ /\ switches
             /\ (\E p \in found : plans[p] = "active")
                   => \E p \in found : plans[p] # "active"
             /\ Goto(r, "rejected")
             /\ UNCHANGED ent
       /\ UNCHANGED <<tables, call, base, history>>

(* save(), first half: re-read the row and its addon rows.  When the entity *)
(* shows no difference nothing is written.                                  *)
UpdateSaveLoad(r) ==
    LET s == ent[r].id
        read == [id |-> s, row |-> subs[s], addons |-> AddonsOf(s)]
    IN /\ pc[r] = "saveLoad"
       /\ base' = [base EXCEPT ![r] = read]
       /\ Goto(r, IF read = ent[r] THEN "ok" ELSE "saveWrite")
       /\ UNCHANGED <<tables, call, ent, history>>

(* save(), second half, one transaction.  The columns in which the entity   *)
(* differs from the re-read row are written, whatever the row holds by now; *)
(* the version column takes no part.  Addon rows of the entity that the     *)
(* re-read did not find are inserted again (cascade insert); rows it found  *)
(* and the entity does not know are detached (subscription_id = NULL),      *)
(* which the column's NOT NULL refuses if the row still exists, as it       *)
(* refuses a null the body assigned.                                        *)
Written(new, old, now) == IF new # old THEN new ELSE now

Diffed(new, old, now) ==
    [org |-> now.org,
     plan |-> Written(new.plan, old.plan, now.plan),
     status |-> Written(new.status, old.status, now.status),
     terms |-> Written(new.terms, old.terms, now.terms),
     canceledAt |-> Written(new.canceledAt, old.canceledAt, now.canceledAt)]

SaveRow(r) == Diffed(ent[r].row, base[r].row, subs[ent[r].id])
Revived(r) == ent[r].addons \ base[r].addons
Detached(r) == base[r].addons \ ent[r].addons

NotNull(row) == Null \notin {row.plan, row.status, row.terms}

SaveAllowed(r) ==
    /\ NotNull(SaveRow(r))
    /\ Detached(r) \cap subAddons = {}
    /\ \A a \in Revived(r) :
         /\ a.addon \in addons
         /\ ~\E b \in AddonsOf(ent[r].id) : b.addon = a.addon
    /\ plans[SaveRow(r).plan] # "deleted"
    /\ ActiveIndexAllows(ent[r].id, SaveRow(r))

UpdateSaveWrite(r) ==
    LET s == ent[r].id
    IN /\ pc[r] = "saveWrite"
       /\ ~IndexWaits(s, SaveRow(r))
       /\ IF SaveAllowed(r)
          THEN /\ subs' = [subs EXCEPT ![s] = SaveRow(r)]
               /\ subAddons' = subAddons \cup Revived(r)
               /\ Goto(r, "ok")
               /\ stale' = IF SaveRow(r) = subs[s] THEN stale ELSE stale \cup
                      {q \in Request \ {r} : pc[q] \in Holding /\ ent[q].id = s}
               /\ raced' = IF r \in stale THEN raced \cup {s} ELSE raced
          ELSE /\ Goto(r, "failed")
               /\ UNCHANGED <<subs, subAddons, history>>
       /\ UNCHANGED <<plans, addons, draft, call, ent, base>>

-----------------------------------------------------------------------------
(* addAddon                                                                 *)

AddCheckAddon(r) ==
    /\ pc[r] = "checkAddon"
    /\ Goto(r, IF call[r].body \in addons THEN "checkDuplicate" ELSE "rejected")
    /\ UNCHANGED <<tables, call, ent, base, history>>

OnSubscription(s, addon) == \E a \in AddonsOf(s) : a.addon = addon

AddCheckDuplicate(r) ==
    /\ pc[r] = "checkDuplicate"
    /\ Goto(r, IF OnSubscription(ent[r].id, call[r].body)
               THEN "rejected" ELSE "insertAddon")
    /\ UNCHANGED <<tables, call, ent, base, history>>

(* Mutant: no UNIQUE (subscription_id, addon_id) behind the check.          *)
AddInsert_noUnique(r) ==
    /\ pc[r] = "insertAddon"
    /\ call[r].body \in addons
    /\ subAddons' = subAddons \cup
           {[by |-> r, sub |-> ent[r].id, addon |-> call[r].body]}
    /\ Goto(r, "ok")
    /\ UNCHANGED <<plans, addons, subs, draft, call, ent, base, history>>

AddInsert(r) ==
    LET new == [by |-> r, sub |-> ent[r].id, addon |-> call[r].body]
    IN /\ pc[r] = "insertAddon"
       /\ IF new.addon \in addons /\ ~OnSubscription(new.sub, new.addon)
          THEN /\ subAddons' = subAddons \cup {new}
               /\ Goto(r, "ok")
          ELSE /\ Goto(r, "failed")
               /\ UNCHANGED subAddons
       /\ UNCHANGED <<plans, addons, subs, draft, call, ent, base, history>>

-----------------------------------------------------------------------------
(* removeAddon                                                              *)

RemoveFindRow(r) ==
    /\ pc[r] = "findAddonRow"
    /\ LET found == {a \in AddonsOf(ent[r].id) : a.addon = call[r].body}
       IN /\ ent' = [ent EXCEPT ![r].addons = found]
          /\ Goto(r, IF found = {} THEN "rejected" ELSE "deleteAddonRow")
    /\ UNCHANGED <<tables, call, base, history>>

RemoveDelete(r) ==
    /\ pc[r] = "deleteAddonRow"
    /\ subAddons' = subAddons \ ent[r].addons
    /\ Goto(r, "ok")
    /\ UNCHANGED <<plans, addons, subs, draft, call, ent, base, history>>

-----------------------------------------------------------------------------
(* The platform administrator edits the catalog meanwhile; the foreign keys *)
(* (ON DELETE RESTRICT) refuse to delete what a subscription refers to, and *)
(* a delete waits for a transaction that has just referred to the row.      *)

SetPlanActive(p) ==
    /\ plans[p] # "deleted"
    /\ \E b \in {"active", "inactive"} : plans' = [plans EXCEPT ![p] = b]
    /\ UNCHANGED <<addons, subs, subAddons, draft,
                   pc, call, ent, base, history>>

DeletePlan(p) ==
    /\ plans[p] # "deleted"
    /\ \A s \in Existing : subs[s].plan # p
    /\ \A r \in Request : draft[r] # None => draft[r].row.plan # p
    /\ plans' = [plans EXCEPT ![p] = "deleted"]
    /\ UNCHANGED <<addons, subs, subAddons, draft,
                   pc, call, ent, base, history>>

(* Mutant: the foreign key of addon_id does not restrict.                   *)
DeleteAddon_unrestricted(a) ==
    /\ a \in addons
    /\ addons' = addons \ {a}
    /\ UNCHANGED <<plans, subs, subAddons, draft,
                   pc, call, ent, base, history>>

DeleteAddon(a) ==
    /\ a \in addons
    /\ \A x \in subAddons : x.addon # a
    /\ \A r \in Request :
         draft[r] # None => \A x \in draft[r].addons : x.addon # a
    /\ addons' = addons \ {a}
    /\ UNCHANGED <<plans, subs, subAddons, draft,
                   pc, call, ent, base, history>>

-----------------------------------------------------------------------------
Step(r) ==
    \/ Arrive(r)
    \/ CreateCheckPlan(r) \/ CreateCheckExisting(r) \/ CreateCheckAddons(r)
    \/ CreateInsertSub(r) \/ CreateInsertAddons(r)
    \/ CreateCommit(r) \/ CreateAbort(r)
    \/ FindCurrent(r)
    \/ UpdateAssign(r) \/ UpdateSaveLoad(r) \/ UpdateSaveWrite(r)
    \/ AddCheckAddon(r) \/ AddCheckDuplicate(r) \/ AddInsert(r)
    \/ RemoveFindRow(r) \/ RemoveDelete(r)

Catalog ==
    \/ \E p \in Plan : SetPlanActive(p) \/ DeletePlan(p)
    \/ \E a \in Addon : DeleteAddon(a)

Next == (\E r \in Request : Step(r)) \/ Catalog

Spec == Init /\ [][Next]_vars

-----------------------------------------------------------------------------
(* Properties                                                               *)

(* Every variable keeps its type: in particular no assignment of a partial  *)
(* PATCH body ever leaves a column undefined.                               *)
TypeOK ==
    /\ plans \in [Plan -> {"active", "inactive", "deleted"}]
    /\ addons \subseteq Addon
    /\ subs \in [Request -> Row \cup {None}]
    /\ subAddons \subseteq AddonRow
    /\ draft \in [Request -> Draft \cup {None}]
    /\ pc \in [Request -> PC]
    /\ call \in [Request -> Call \cup {None}]
    /\ \A r \in Request :
         pc[r] # "idle" => /\ call[r] \in Call
                           /\ call[r].body \in Bodies(call[r].op)
    /\ ent \in [Request -> Entity \cup {None}]
    /\ base \in [Request -> Entity \cup {None}]
    /\ stale \subseteq Request
    /\ raced \subseteq Request

(* At most one trialing or active subscription per organization, although   *)
(* create checks before it inserts and a stale save can bring a canceled    *)
(* subscription back while another one was created.                         *)
OneActivePerOrg ==
    \A s, t \in Existing :
        subs[s].org = subs[t].org /\ IsActive(subs[s]) /\ IsActive(subs[t])
            => s = t

(* An addon is at most once on a subscription, with two addAddon requests   *)
(* past their duplicate check and a save that re-inserts a removed row.     *)
OneRowPerAddon ==
    \A x, y \in subAddons : x.sub = y.sub /\ x.addon = y.addon => x = y

(* Nothing a subscription refers to disappears: the plan of a row, the      *)
(* subscription and the addon of an addon row exist, whatever deletion,     *)
(* stale save or late insert runs in between.                               *)
RowsReferToRows ==
    /\ \A s \in Existing : plans[subs[s].plan] # "deleted"
    /\ \A x \in subAddons : x.sub \in Existing /\ x.addon \in addons

(* A create becomes visible at once or not at all: the step that shows its  *)
(* subscription shows every addon row of its body, and one that is under    *)
(* way, was refused or ended between its statements shows neither, not even *)
(* an addon row that a save of another request inserts again.               *)
CreateIsAllOrNothing ==
    [][\A r \in Request :
         /\ pc'[r] # "ok" =>
              subs'[r] = None /\ \A x \in subAddons' : x.by # r
         /\ subs[r] = None /\ subs'[r] # None =>
              NewAddonRows(r, call[r]) \subseteq subAddons']_vars

(* past_due and canceled are final: once no request holds an entity of an   *)
(* inactive subscription, its row never changes again, and no request comes *)
(* to hold it.  (A request that read it before may bring it back.)          *)
Settled(s) ==
    /\ ~IsActive(subs[s])
    /\ \A r \in Request : ~(pc[r] \in Holding /\ ent[r].id = s)
InactiveIsFinal ==
    [][\A s \in Existing :
         Settled(s) => subs'[s] = subs[s] /\ Settled(s)']_vars

(* Without a stale save a recorded cancellation date means canceled.        *)
CanceledAtMeansCanceled ==
    \A s \in Existing \ raced :
        subs[s].canceledAt # None => subs[s].status = "canceled"

-----------------------------------------------------------------------------
(* What comments and tests say and the code does not do                     *)

(* subscriptions.service.ts:170 says that save() throws when the row was    *)
(* modified since it was read: no save overwrites a row it has not seen.    *)
SaveThrowsWhenStale == raced = {}

(* findCurrent returns the active subscription or says that there is none   *)
(* (subscriptions.integration-spec.ts:220-243): a request that fails        *)
(* otherwise has got past it.                                               *)
CurrentIsFound ==
    \A r \in Request :
        pc[r] = "failed" /\ call[r].op # "create" => ent[r] # None

=============================================================================
