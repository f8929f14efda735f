# FeatureLedger in TLA+

FeatureLedger is a multi-tenant backend (NestJS, TypeORM, PostgreSQL) that
answers one question: what may this organization use? Organizations subscribe
to a plan and to addons, platform administrators may override single features,
and the three are merged into a snapshot of entitlements that access decisions
read. Every handler is an `async` function over a pooled PostgreSQL connection,
so its steps interleave with those of every other request (and of every other
instance of the process). Few handlers use a transaction, none takes a lock.
What keeps the data right is a mixture of checks made before an `await`, unique
and partial indexes, foreign keys, and the order of writes: this is what the
modules here model, check and prove.

## 1. Inventory

| Component (under `src/src/`) | State | Operations | Hard behaviours | What makes it correct |
|---|---|---|---|---|
| **Subscriptions** `modules/subscriptions` | `subscriptions`, `subscription_addons` | create, updateCurrent, addAddon, removeAddon; findCurrent, findHistory | check-then-insert; entities held across awaits; TypeORM's save() re-reads, diffs and cascades; catalog rows deleted meanwhile | one active subscription per organization; cancellations stay; addons at most once; nothing refers to a deleted row; a failed create leaves nothing |
| **Entitlement resolver** `modules/entitlements/services/entitlement-resolver.service.ts` | none (pure) | merge | rows in no order; null limits; half-open windows | the result is the documented one for every order of the rows |
| **Entitlement snapshot** `modules/entitlements/services/entitlement-snapshot.service.ts` | `organization_entitlements` | recalculate | inputs read one by one; overlapping transactions at READ COMMITTED; deadlocks; failure half-way | all rows or none; the rows are what the inputs amount to; every request ends |
| **Overrides** `modules/entitlements/services/overrides.service.ts` | `feature_overrides` | create, update, delete, list | dates checked against an entity read before; saves that insert deleted rows again; features deleted meanwhile | a window opens before it ends; one override per feature, of a feature that exists |
| **Access** `modules/access` | none | check, simulate | reads a snapshot that may be stale | a decision follows from the snapshot; a simulation predicts a recalculation |
| **Sessions** `modules/auth` | `refresh_tokens` | login, refresh, logout, getMe | overlapping rotations, replays, lost answers, crashes between two writes | no session is lost by a rotation; none comes back; reuse ends it |
| **Organizations, memberships** `modules/organizations`, `modules/memberships` | `organizations`, `memberships`, `invitations` | create, inviteMember, acceptInvitation, lists | several writes without a transaction; checks before writes | keys are unique; an invitation is used once, by its addressee; an organization in use has its owner |
| **Guards** `common/guards` | none | OrganizationMemberGuard, RolesGuard, PlatformAdminGuard | decide before the handler runs | only members, of enough weight, get through |
| **Users** `modules/users` | `users` | lookups | none: nothing writes | – |
| **Catalog** `modules/catalog` | `features`, `plans`, `plan_features`, `addons`, `addon_features` | create, update, delete, (un)assign | check-then-insert; cascading deletes | codes and slugs name one row and slugs stay; a mapping refers to rows that exist; what is deleted stays so |
| **Migrations, entities** `database` | the schema | constraints, indexes, column types | entity and migration may differ | the entity's columns exist |
| **Shell** `main.ts`, config, filters, interceptors, health | none | bootstrap, formatting, throttling | – | – |
| usage metering, API keys, webhooks, audit | – | described in the architecture document, not written yet | – | – |

Interactions. A controller's guards read memberships, then the handler runs.
Subscriptions read the catalog; the resolver reads subscriptions (findCurrent),
overrides and the catalog; the snapshot service calls the resolver and writes
the snapshot; access decisions read the snapshot, the simulation calls the
resolver. Organizations call memberships (the founder's). There are no events,
queues, timers or caches: components meet in the database only, and **nothing
but `POST entitlements/recalculate` starts a recalculation**.

## 2. Modules

| Module | Models | Extends |
|---|---|---|
| `Subscriptions` | the four writing handlers of SubscriptionsService, one action per database round trip, with the catalog's changes beside them | – |
| `EntitlementResolver` | merge() as operators: one step per row, and `Merge` as folds; resolveForOrg around it (`Resolve`) | – |
| `EntitlementMerge` | merge() as its two loops, rows in any order, against a reference definition | `EntitlementResolver` |
| `EntitlementInputs` | what a recalculation reads, how it changes, what it amounts to (`Entitled`) | `EntitlementResolver` |
| `SnapshotReplace` | the abstract specification: a recalculation replaces all rows at once or leaves them | `EntitlementInputs` |
| `EntitlementSnapshot` | recalculate() statement by statement, with row locks, deadlocks, failures and crashes; instantiates `SnapshotReplace` | `EntitlementInputs` |
| `AccessDecision` | check() and simulate(), composed with changing inputs and the recalculations of `SnapshotReplace` | `SnapshotReplace` |
| `Catalog` | the handlers of CatalogService that write, for features, plans, addons and their mappings | – |
| `Overrides` | create, update and delete of OverridesService with the clock, composed with the catalog | `Catalog` |
| `Sessions` | login, refresh, logout | – |
| `Memberships` | creating organizations, inviting, accepting | – |
| `Subscriptions_proofs`, `EntitlementResolver_proofs`, `EntitlementMerge_proofs`, `EntitlementSnapshot_proofs`, `AccessDecision_proofs`, `Overrides_proofs`, `Sessions_proofs`, `Memberships_proofs` | the theorems of each; those of the three other entitlement modules rest on `EntitlementResolver_proofs`; `Overrides_proofs` has those of `Catalog`, too | the component, TLAPS |
| `MC*` | the small instances TLC explores | the module named |

Conventions. A request is a process; `pc[r]` is the await it is at; an action
is everything from one await to the next. What a handler has read stays in
variables of its own (`ent`, `base`, `got`, `loaded`, ...) while the tables move
on. Rows are named after the request that inserts them, since a request inserts
at most one row per table (and addon). `"rejected"` is an exception the code
throws on purpose (404, 409, 422, 401), `"failed"` an error of the database or
an end of the process. Definitions with a suffix (`CreateInsertSub_ownConnection`)
are plausible bugs, used only to see that a property notices them.

### Subscriptions

`subs[r]` is a row of `subscriptions`, `subAddons` the rows of
`subscription_addons`; `plans` and `addons` are the catalog as far as the
handlers look at it. `ent[r]` is the entity a handler holds. Actions follow the
handlers: `CreateCheckPlan`, `CreateCheckExisting`, `CreateCheckAddons`, then the
transaction; `FindCurrent`; `UpdateAssign`, `UpdateSaveLoad`, `UpdateSaveWrite`;
`AddCheckAddon`, `AddCheckDuplicate`, `AddInsert`; `RemoveFindRow`, `RemoveDelete`.
The billing period and cancelAtPeriodEnd, which the service passes through, are the
one column `terms`.

The transaction of a create goes statement by statement: `CreateInsertSub`,
`CreateInsertAddons`, `CreateCommit`, and `CreateAbort` for the process or connection
that dies before the COMMIT. What it has inserted is `draft[r]`, which other requests
do not see; but a row of the same active organization waits for its outcome
(`IndexWaits`), and the catalog cannot delete what a draft refers to. A statement
that a constraint refuses rolls everything back.

A PATCH body leaves a field out (`None`) or may carry `null` (`Null`), which
`@IsOptional` lets through: the handler assigns it, `planRepo.findOne` drops a
condition that is null and finds any plan (`PlansFound`), and in the end `NOT NULL`
refuses the row (`NotNull`).

TypeORM's `save(entity)` is where the interleavings bite, and is modelled as
what the library does: it re-reads the row (`UpdateSaveLoad`), and in a
transaction (`UpdateSaveWrite`) writes the columns in which the entity differs
from that re-read, by id, over whatever the row holds by then. A version column
is incremented, not compared. The list of addons is declared with
`cascade: ['insert']`: addon rows the entity knows and the re-read did not find
are inserted again; those the re-read found and the entity does not know are
detached, which `NOT NULL` refuses. The partial unique index on active
subscriptions, the unique key of addon rows and the foreign keys (`RESTRICT`) of
migration 3 are guards of the writing actions.

`AddonTableHasUpdatedAt` says whether `subscription_addons` has the column
`updated_at`. The entity declares it; the migration does not create it and
`synchronize` is off. With the migrations as they are (FALSE) findCurrent fails
always, run `addon_column`; all other runs describe the table the entity
declares (TRUE), since otherwise nothing after findCurrent would ever run. The
theorems hold for both values.

### Entitlements

`EntitlementResolver` has the rules: `FromPlan`, `AddonStep` (limits add up, null
wins, the more permissive policy wins), `OverrideStep` (the limit is replaced,
a disabled override switches the feature off). `EntitlementMerge` takes the rows
one by one in any order and compares the end with `ExpectedLimit` and
`ExpectedPolicy`, which are said with sets and sums, and with the folds of
`Merge`, which licenses the other modules to use `Merge` for a whole merge.
The sourceType kept for audits is no part of these rules: two addons that grant a feature
without the plan make it `mixed` in the code, while entitlement-source-type.enum.ts:9
says of `addon` that the feature "comes from one or more addons". Comment and code
disagree, and no run takes the code's side; the theorem `SourceNamed` records what the
code does (`SourceNamesTheOnlyRow`), and a reader of the audit column should know it.
The limit of an override counts in `ExpectedLimit` only if the override enables the
feature, as create-override.dto.ts:27-29 says and merge() does; a disabled feature
has no limit worth naming.

`EntitlementSnapshot` reads `sub`, `overrides` and `catalog` in four queries
(`Start`, `ReadOverrides`, `ReadPlanFeatures`, `ReadAddonFeatures`), then runs the
transaction: `FindExisting`, `DeleteStale` row by row, `SaveSelect` (save()'s
re-read), `InsertRow`, `StartUpdates`, `UpdateRow`, `Commit`. Uncommitted writes
are `wr[w]`; a statement waits where another transaction has one (`Locked`), then
sees the committed row, as READ COMMITTED does. `DeadlockVictim` is PostgreSQL's
detector, `Crash` the end of a process or connection, and an entitlement limit that
does not fit INTEGER fails the statement. Other handlers appear as `Change`; an
override's window opening or closing is such a change too, so windows are
evaluated in `EntitlementMerge` and are always open here.

How much of this a client can rely on is `SnapshotReplace`: `Begin`, then
`Replace` (everything, by the merge of the inputs, each seen at some moment of
the recalculation), `Abandon` (nothing), or `Tear` (any rows) for a recalculation
beside whose transaction another one committed. `overlapped` is history that
says which those are, `dirty` which ones an input changed under.

### Access

`Check` takes a row of the snapshot that carries the code asked for (`Rows`) and
decides at once (`Decide`). Code and meter type in the rows are copies: `copied`
holds them, `Copies` and `CopyFeatures` take them from the features a recalculation
read, while a change of catalog may rename a feature, pass its code to another or
change its meter type.
`SimulateFind`, `SimulatePlan`, `SimulateAddons` and `SimulateOverrides` are the
queries of simulate(); `seen[r]` is what it has read, with what the body gives put
in its place. It uses the same `Resolve` as a recalculation. Around it run the
steps of `SnapshotReplace`, one recalculation at a time, since after an
overlapped one the snapshot may be anything and nothing is left to say about a
check. `Decide` ignores overagePolicy because check() does.

### Catalog and overrides

Features, plans and addons are handled by the same code three times over, so
they are one map `items` here, a row naming its table; a mapping is a row of
`plan_features` or `addon_features`. A PATCH of a feature may carry a new code
(`UpdateCheckNewKey`), one of a plan or an addon carries nothing modelled, and
still matters: its `save()` inserts the row again when it has been deleted since the
find. Unique keys, CASCADE from bundle to mapping and RESTRICT from mapping to
feature are guards of the writing actions; other tables may refuse a delete as
well (`DeleteRemove`).

`Overrides` extends `Catalog`: `overrides` are the rows of one organization, with
`clock` for the checks against the current time. `CreateFindFeature`,
`CreateCheckOverride`, `OverrideInsert`; `OverrideUpdateFind` (assigns the body and
checks the window of the result), `OverrideSaveLoad`, `OverrideSaveWrite`;
`OverrideDeleteFind`, `OverrideDelete`. The two components meet in `OverridesRestrict`,
the foreign key that keeps the catalog from deleting a feature with overrides.
`mixed` is history: rows whose last write was computed from an older row.

### Sessions

`tokens[r]` is the refresh token request r inserted. `RefreshFind` decides on
the row it reads (revoked, expired, account inactive or fine), then
`RefreshInsert` issues the successor and `RefreshSave` revokes and links the
predecessor; `RevokeFamily` is the reaction to a reused token. `Crash` covers the
process stopping, a query failing and the answer getting lost; `Expire` is time.
A client presents only tokens of answers that arrived, but any of them, any
number of times. Passwords, JWTs and hashing are left out: a login is accepted
or rejected.

### Memberships

`CheckSlug`, `InsertOrg`, then `CheckMember` and `InsertMember` for the founder;
`Guards` (OrganizationMemberGuard and RolesGuard) and `InsertInvitation`;
`FindInvitation`, `SaveAccepted`, then `CheckMember` and `InsertMember` for the
invited. A request may crash before any step. Nothing in the code removes a
member or changes a role.

## 3. What TLC checks

| Run | Instance | Properties | Shows |
|---|---|---|---|
| `subscriptions` | 1 organization, 2 plans, 1 addon; a create, a create or addon change, two of update, addAddon, removeAddon | `TypeOK`, `OneActivePerOrg`, `CanceledAtMeansCanceled`, `OneRowPerAddon`, `RowsReferToRows`, `CreateIsAllOrNothing`, `InactiveIsFinal` | races of creates, stale saves that re-insert addon rows, and catalog deletions never give two active subscriptions, duplicate or dangling rows or, cut off between two statements of its transaction, half a create; past_due and canceled are final |
| `entitlement_merge` | 2 features, 2 addons; all combinations of plan row, addon rows, override and window | `TypeOK`, `MergeGivesDocumentedRules`, `MergeIsTheFold`, `PolicyOnlyWidens` | the merge gives the documented result, whatever the order of the rows |
| `snapshot_concurrent` | 2 overlapping recalculations, 2 features, 3 subscriptions, an override, a limit that does not fit | `TypeOK`, `LoneRecalculationReplaces`, `RecalculationEnds`, `KeepsPromise` (refinement of `SnapshotReplace`, with its fairness) | all or nothing unless overlapped; transactions that wait for each other end, and one during which no other commits repairs whatever others left |
| `access` | a check or simulation, a recalculation, 2 features, 3 codes, 3 subscriptions, 3 sets of overrides, 2 catalogs that rename a feature, change its meter type and pass its code on, 5 bodies | `TypeOK`, `SimulationPredicts`, `FreshCheckIsRight`, `FrozenWithoutSubscription` | on a snapshot no input has outrun, checks grant what plan, addons and overrides grant of the feature that has the code now, by its meter type now; a simulation no change ran into predicts the recalculation; without a subscription the snapshot can no longer be emptied and checks go on granting |
| `catalog_overrides` | a feature, a plan and an override from the start, 2 keys, 3 catalog and 3 override requests, times 0..2 | `TypeOK`, `KeysNameOneRow`, `MappedOnce`, `MappingsReferToRows`, `SlugIsImmutable`, `OneOverridePerFeature`, `OverridesReferToFeatures`, `WindowsAreOrdered`, `GoneForGood` | creates, renames, assignments, deletes and saves that bring deleted rows back, racing on the same rows, leave keys and references sound; a window is out of order only where a save overtook another |
| `sessions` | 5 requests, each a login, refresh or logout | `TypeOK`, `SessionSurvives`, `OneLiveToken`, `ChainUnlessForked`, `DeadStaysDead` | see section 5 |
| `memberships` | 3 users, 2 slugs, 2 creates, 2 invitations, 2 acceptances | `TypeOK`, `KeysAreUnique`, `AcceptedMeansMember`, `InvitationIsSingleUse`, `SettledOrgHasOwner`, `MembershipIsEarned` | non-transactional handlers that may die at any step keep keys, owners and single-use invitations |

Five runs state what a comment or a test says and show that the code does
something else:

| Run | Property | Divergence |
|---|---|---|
| `stale_save` | `SaveThrowsWhenStale` | `subscriptions.service.ts:170` says that `save()` throws when the row was modified concurrently; TypeORM does not compare the version, and the change is overwritten |
| `addon_column` | `CurrentIsFound` | the entity SubscriptionAddon declares `updated_at`, migration 3 does not create it, so findCurrent fails |
| `snapshot_torn` | `CommitReplacesAllRows` | "atomically replace all snapshot rows": two overlapping recalculations commit a mixture |
| `logout_race` | `LogoutEndsSession` | `auth.service.ts:117` says that logout revokes the token, "ending the session": a rotation that found the token valid before leaves a new one that outlives the logout |
| `override_window` | `WindowIsValid` | "startsAt and endsAt must form a valid range": two overlapping PATCHes, one of each date, both pass and store a window that never opens |

What does hold beside the last three: `KeepsPromise` and `LoneRecalculationReplaces`;
`DeadStaysDead`; `WindowsAreOrdered`.

No run says it, since a behaviour in which nothing happens would refute it already: the
comment of organization-entitlement.entity.ts:18-20 has the snapshot rebuilt "whenever
the subscription, addons, or overrides change", and no handler but recalculate's own
does. `FreshCheckIsRight` says what an answer is worth until the next change, and
`FrozenWithoutSubscription` that after a cancellation no request can put it right.

**What the passing properties permit.** Some of them describe what is left of a promise
the code does not keep, and must not be read as more. `AcceptedMeansMember` permits the
crash between the two saves of an acceptance, which consumes the invitation;
`SettledOrgHasOwner` permits an organization whose founder was never saved, as long as
nobody is in it or invited to it. `OneLiveToken` and `ChainUnlessForked` are about
sessions whose rotations do not overlap: two overlapping ones leave two live tokens and
overwrite one link of the "auditable chain" (`refresh-token.entity.ts`); for those,
`SessionSurvives` is what remains. `CanceledAtMeansCanceled` and `WindowsAreOrdered` leave
out the rows that a stale save has mixed, which `stale_save` and `override_window` show.

**Bounds.** No state variable counts anything but `clock` (`MaxTime`, with a date
before, at and after each boundary): all other bounds are the sets of
requests, and `MaxConcurrent` (recalculations at the same time). Each race here is
between two requests over rows a third one made or deletes; four to six requests give
every pair of operations on the same rows, with one more to observe or to disturb.
Requests in `MCSubscriptions`, `MCOverrides` and `MCMemberships` are given operations
(`Workload`) so that these races fit; `Workload` does not restrict the order. The
conflicts the catalog's third request is there for are an assign behind a delete,
a rename into a key just created, and an update of a row just created.
`MaxInteger` is 2 so that a limit exceeds it without an override that lowers it.
Symmetry is used where requests (or users, slugs) are interchangeable and only
safety is checked. Deadlock checking is off because every behaviour ends when its
requests are used up. What two requests and two rows show of the statements of
recalculate, its theorems show for any number of both.

**Fairness.** Only recalculations need it. `WF(Advance(w))`: Node's event loop
and PostgreSQL carry on with every request that can take its next step; a
statement that waits for a row is not enabled, so nothing is promised to it.
`WF(DeadlockVictim(w))`: PostgreSQL looks for cycles of waits after
`deadlock_timeout`. The abstract specification asks the same of the end of a
recalculation only. `Start` is not fair, since only a client starts a
recalculation; `Change` and `Crash` are not fair. This suffices for
`RecalculationEnds` because a holder of a row always finishes or fails.

**Assumptions about the outside.** READ COMMITTED (TypeORM's default here), row
locks until commit, unique and partial indexes, foreign keys with RESTRICT
checked at the statement, and TypeORM's `save()`, `remove()` and `transaction()`
as described in section 2. Clocks matter
through expiry, which may come at any step, and through the dates of overrides.

## 4. Mutants

Each property has a mutant in PROJECT.json, a plausible bug in the definition it
guards against (a dropped index, a swapped order of writes, a missing check),
under which TLC finds it violated. They sit before the definition they alter.

## 5. What TLAPS proves

Proved for every value of the constants: any number of requests, organizations,
plans, addons, bodies, and either schema.

`Subscriptions_proofs`. `TypeOK` is not inductive: a save writes columns of
`ent[r]` and `base[r]`, so one must know that a request at `saveWrite` has read
both, that its call is an update, and that the row of a held entity still exists.
`ControlOK` says this for each place of a handler, and `TypeInv == TypeOK /\ ControlOK`
is the inductive invariant, proved action by action. `OneActive` follows from one
lemma on a change of one row, applied to the two actions that write `subs`: the
partial index admits the row only if no other one is active in that organization,
committed or (`DraftIndex`) in the draft of a transaction that has passed it,
and a save cannot change the organization. `RowsInv` carries the addon properties:
committed rows name a create or add that answered 201 (`SubsCommitted`,
`AddonsCommitted`), an entity's rows are those of its subscription (`EntitiesOwn`),
and every change of `subAddons` adds only rows the constraints admit
(`AddonsChange`): `OneRowEach` and `ReferencesKept` follow. `DraftInv` says of a
transaction under way that its draft has the row and addon rows of its body, that what
they refer to exists, and that no other active row of the organization is committed or in
another draft. A row of `subs` appears only by a commit, with all the draft; and a create
that has not answered has no committed row (`SubsCommitted`, `AddonsCommitted`), nor has
anybody an entity with one that a cascading save could insert: hence `CreateAtomic`.
`CancelInv` adds that an entity no write overtook equals its row (`FreshInv`), which
is why a save outside `raced` keeps date and status together (`CanceledAtHolds`).
`InactiveStays` is an action property proved from `RowChange` and `HoldingChange`.

`EntitlementResolver_proofs` is about the operators of the merge, for any number of
rows. `Merge` folds the rows in the order given; a closed form says what comes out:
`Added(m, R)` gives each feature the sum of the units of its addon rows (`TotalOf`,
the cardinality of a set with one element per unit, so that a sum needs no
recursion) and its widest policy, `Decided(m, P)` applies its override, if any.
`MergeComputes` proves that the fold is the closed form, for every enumeration
of the rows; the order they come in therefore does not matter. The fold is defined by
recursion over subsets of positions, and no induction principle with an operator
for a parameter can be used here; instead, a smallest subset of positions at which the
fold and the closed form differ is chosen by well-foundedness of strict inclusion
(`SmallestSubset`), and one step of either shows that a smaller one exists
(`AddedOneMore`, `DecidedOneMore`). `MergeTyped` and `MergeFollowsRules` follow:
`RulesFor` says the rules of the service's comment about one feature (there if some row
grants it, enabled unless its override disables it, the most permissive policy, the
override's limit, else the sum, or none if a row without a limit is among them).
`ResolveTyped` and `ResolveFollowsRules` say the same of what resolveForOrg reads.
`RowsAddUp` compares sums over catalog rows, with their quantities, with the units of
the rows the merge gets.

`EntitlementMerge_proofs`. `MergeInv` says that the map is the closed form of the rows
met so far. `TypeCorrect` (every entry is complete, in any order of the rows) and
`PolicyWidens` follow, and, after the last row, `RulesFollowed` (the documented
rules, the values of sums included) and `LoopsAreTheFold`: the loops hold what `Merge`
computes, which licenses the other modules to use `Merge` for a whole merge.
`SourceNamed` reads the source off the same closed form (`SourceIs`): what the code
does, not what the comment of the enum says (section 2).

`EntitlementSnapshot_proofs`. `SnapInv` says of each recalculation what it has read
(`ReadOK`: its result is the merge of *some* reading of the inputs; `CurrentOK`: of the
present ones if none has changed), which rows its statement has left (`TodoOK`),
and, as long as no other one has committed since its transaction began, `LoneOK`:
the rows it found are those in the table, it has written exactly the rows it has
passed (`Passed`), with the resolved content. At the commit these are all rows that
differ, hence `LoneReplaces`. A commit of another ends `LoneOK` for good, because
it makes the transaction `overlapped`; without that history nothing of the kind
is inductive. `ImplementsReplace` is the refinement: initial states map to initial
states and each step to a step of `SnapshotReplace` or a stutter (`PromiseCommit`:
a commit is `Replace`, or `Tear` if overlapped). It is `KeepsPromise` without fairness.
`CommitObeysRules` puts this together with `ResolveFollowsRules`: the rows a recalculation
leaves, if no other one commits beside it, obey the documented rules for inputs that
were there while it ran. `SerialReplaces` is the other side of the violation that
`snapshot_torn` finds: with `MaxConcurrent = 1` every commit replaces all rows and none is
a `Tear` (`SerialInv`: the one transaction is never overlapped), so it is the missing
lock, and nothing else in the statements, that makes the service's comment untrue.

`AccessDecision_proofs`. `AccessInv` says what a simulation holds at each stage:
the parts of *some* inputs read one by one (`SomeReading`), and of the present ones
as long as none has changed (`PresentReading`), next to `FreshOK`: a snapshot is
fresh only if it is the merge of the present inputs and copies their codes and meter
types. `Predicts` follows since both sides are the same merge; `Frozen` needs no
invariant. `ChecksRight` goes from end to end: the row a check finds is that of the
one feature with the code now (codes are unique), its entry obeys `RulesFor`, and
`GrantedIsMerged` shows that `Granted`, said of plan, addons and overrides with a sum of
its own, says the same of it (`RowsAddUp`).

`Overrides_proofs`. First the catalog alone: a row can come back, so "this row was
inserted by a create and has its slug" must be said of entities in updates' hands
as well as of rows (`Version`). `IInv` is this, the place of each request and the
properties themselves: `UniqueKeys`, `UniqueMappings`, `ReferencesHold`, `SlugsStay`
and `DeletedStayDeleted` follow. The composition implements the catalog
(`ImplementsCatalog`: steps of the overrides are stutters), so all of this carries
over (`CatalogHolds`), and `OverridesHaveFeatures` uses it: the feature an insert
sees is a row the foreign key then keeps. For `WindowsOrdered` an update must hold a
checked window (`AskOK`); where the row still is the one save() re-read and that
the one it first read, the columns written amount to that window.

`Sessions_proofs`. Two layers. `SessionInv` adds to `TypeOK` and `SessionSurvives`
that a presented token comes from an answered request (`PresentedOK`), so nobody
but the rotation itself has the successor it has just inserted; hence a
successor can be revoked only by an end of the whole session (`SuccessorOK`), and
when the old token is revoked the new one is live. `ChainInv` adds the links:
each is the work of one finished rotation (`LinkOK`), in a family that has not
forked at most one rotation is under way (`AloneOK`) and two live tokens are the
two of that rotation (`LiveOK`). Steps that start nothing, insert nothing and link
nothing are treated together (`Orderly`); the other four one by one. The
theorems are `TypeCorrect`, `SessionsSurvive`, `OneLive`, `ChainKept` and
`DeadSessionsStayDead`.

`Memberships_proofs`. All six invariants of the run are theorems. `IInv` adds to
them which body a request at each place carries and that its joining is set
exactly from the insert or save before createMembership on (`PlaceOK`), that the rows
a body refers to are those of requests already answered (`BodyOK`, `RowsOK`), that
createMembership is called for the founder as owner or for the addressee of an
invitation in the role it names (`JoiningOK`), and that the memberships are exactly those
of the answered requests that joined (`MembersOK`). `AcceptedMeansMember`
needs that: a request which finds the user a member already has stopped for a
membership of the same organization and user as the invitation's. With
`KeysAreUnique`, `InvitationIsSingleUse` follows: two memberships of one
invitation would have the same key. `SettledOrgHasOwner` follows by the chain from
any row back to the organization's request, which must have been answered, hence
has joined. The steps that only move a request are one lemma (`IInvMove`),
arrivals another, each step that writes a row one of its own.

The proofs assume the named ASSUMEs of the modules only: `None` (or `Null`) is none
of the values it stands beside, bodies have the shape of their DTOs, seeded rows
satisfy the constraints of the schema, subscriptions refer to plans, there is one
override per feature, quantities are positive, features have codes of their own, and
what the merge is given is finite. What the entitlement modules assume of rows is what
the theorems about their writers give: the plan of a subscription exists
(`ReferencesKept`), a feature has one override (`OneOverride`) and codes are unique
(`UniqueKeys`). That the merge of such rows gives entitlements is
not assumed but proved (`ResolveTyped`).

**Model-checked only.** Liveness: `RecalculationEnds`, and the fairness in
`KeepsPromise`, whose steps `ImplementsReplace` proves. ENABLED and fairness are out of
the provers' reach. Every other property of the passing runs is a theorem.

## 6. Not modelled, and why

- Users: nothing writes them. getMe, list and get handlers only read.
- Credentials, JWTs, hashing, throttling, validation pipes, error and response
  formatting, health checks, seeds, running and reverting migrations.
- Names that are copied into snapshot rows. Codes and meter types, which decide what a
  check answers, are in `AccessDecision`, not in the statements of `EntitlementSnapshot`.
- OrganizationMemberGuard and RolesGuard on routes other than inviteMember: they read
  rows nobody changes meanwhile.
- overagePolicy in a decision: check() ignores it, and the metering that
  could use it is not written yet. Usage metering, API keys, webhooks and audit exist
  in the architecture document only.

## 7. Plan

Done: every component that writes, the access decisions, and theorems about all of
them. What is left:

1. **Subscriptions under the snapshot**: `Subscriptions` and `Catalog` in the place of the
   abstract changes of `EntitlementInputs`; only the reachable inputs would change.
2. **Proofs**: liveness, if the provers learn about ENABLED; until then what remains is
   with TLC.
