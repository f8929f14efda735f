-------------------------- MODULE EntitlementSnapshot --------------------------
(****************************************************************************)
(* The entitlement snapshot of one organization: the rows of                *)
(* organization_entitlements and EntitlementSnapshotService.recalculate(),  *)
(* which rebuilds them.  Recalculations are requests: several may run at    *)
(* once, next to requests that change the subscription, the overrides and   *)
(* the catalog they read.                                                   *)
(*                                                                          *)
(* A recalculation reads its inputs with one query each, merges them, and   *)
(* replaces the rows in a transaction of several statements at READ         *)
(* COMMITTED.  A statement works on one row after another and waits while   *)
(* another transaction has an uncommitted write on the row (or on the key   *)
(* it inserts); PostgreSQL ends a cycle of such waits by failing one        *)
(* transaction.                                                             *)
(****************************************************************************)
EXTENDS EntitlementInputs

CONSTANTS
    Recalculation,      \* the POST recalculate requests of a behaviour
    MaxConcurrent,      \* how many of them may run at the same time
    MaxInteger          \* largest value of an INTEGER column

ASSUME RowIdAssumption == Null \notin Recalculation \cup {"earlier"}

VARIABLES
    table,     \* the snapshot rows, as committed: at most one per feature
    pc,
    got,       \* what a recalculation read before the merge
    resolved,  \* the merge's result
    existing,  \* ids of the rows the transaction found, by feature
    loaded,    \* the rows save() re-read before computing its diff
    todo,      \* features the current statement has not reached
    wr,        \* uncommitted writes of each transaction, by feature
    dirty,     \* history: an input changed since the recalculation began
    overlapped \* history: another one committed since the transaction began

locals == <<got, resolved, existing, loaded>>
vars == <<sub, overrides, catalog, table, pc, got, resolved, existing, loaded,
          todo, wr, dirty, overlapped>>

Fits(e) == e.effectiveLimit = Null \/ e.effectiveLimit <= MaxInteger
Row == [id : Recalculation \cup {"earlier"}, ent : {e \in Entitlement : Fits(e)}]
Ended == {"done", "failed"}
InTransaction == {"delete", "insert", "update"}
Reading == {"overrides", "planFeatures", "addonFeatures", "find"}
Running == {w \in Recalculation : pc[w] \in Reading \cup InTransaction}
ASSUME RowAssumption ==
    Null \notin [id : Recalculation \cup {"earlier"}, ent : Entitlement]

NoRows == [f \in Feature |-> Null]
Content(row) == IF row = Null THEN Null ELSE row.ent

RowsOf(map, id) ==
    [f \in Feature |-> IF map[f] = Null THEN Null ELSE [id |-> id, ent |-> map[f]]]

Init ==
    /\ InputsInit
    /\ LET rows == RowsOf(Entitled(sub, overrides, catalog), "earlier")
       IN table \in {NoRows} \cup
            {t \in {rows} : \A f \in Feature : t[f] # Null => Fits(t[f].ent)}
    /\ pc = [w \in Recalculation |-> "idle"]
    /\ got = [w \in Recalculation |-> Null]
    /\ resolved = [w \in Recalculation |-> NoRows]
    /\ existing = [w \in Recalculation |-> NoRows]
    /\ loaded = [w \in Recalculation |-> NoRows]
    /\ todo = [w \in Recalculation |-> {}]
    /\ wr = [w \in Recalculation |-> <<>>]
    /\ dirty = {}
    /\ overlapped = {}

-----------------------------------------------------------------------------
Change ==
    /\ ChangeInputs
    /\ dirty' = Running
    /\ UNCHANGED <<table, pc, locals, todo, wr, overlapped>>

-----------------------------------------------------------------------------
(* Reading, one query per step                                              *)

Goto(w, label) == pc' = [pc EXCEPT ![w] = label]

Start(w) ==
    /\ pc[w] = "idle"
    /\ Cardinality(Running) < MaxConcurrent
    /\ IF sub = Null
       THEN Goto(w, "failed") /\ UNCHANGED got
       ELSE Goto(w, "overrides") /\ got' = [got EXCEPT ![w] = [sub |-> sub]]
    /\ UNCHANGED <<inputs, table, resolved, existing, loaded, todo, wr, dirty,
                   overlapped>>

ReadOverrides(w) ==
    /\ pc[w] = "overrides"
    /\ got' = [got EXCEPT ![w] =
           [sub |-> @.sub, overrides |-> overrides]]
    /\ Goto(w, "planFeatures")
    /\ UNCHANGED <<inputs, table, resolved, existing, loaded, todo, wr, dirty,
                   overlapped>>

ReadPlanFeatures(w) ==
    /\ pc[w] = "planFeatures"
    /\ got' = [got EXCEPT ![w] =
           [sub |-> @.sub, overrides |-> @.overrides,
            plan |-> catalog.plan[@.sub.plan]]]
    /\ Goto(w, "addonFeatures")
    /\ UNCHANGED <<inputs, table, resolved, existing, loaded, todo, wr, dirty,
                   overlapped>>

ReadAddonFeatures(w) ==
    /\ pc[w] = "addonFeatures"
    /\ resolved' = [resolved EXCEPT ![w] =
           Resolve(got[w].sub, got[w].plan, AddonRowsFor(got[w].sub, catalog),
                   got[w].overrides)]
    /\ got' = [got EXCEPT ![w] = Null]
    /\ Goto(w, "find")
    /\ UNCHANGED <<inputs, table, existing, loaded, todo, wr, dirty, overlapped>>

-----------------------------------------------------------------------------
(* The transaction                                                          *)

Locked(w, f) == \E v \in Recalculation \ {w} : f \in DOMAIN wr[v]
View(w) ==
    [f \in Feature |-> IF f \in DOMAIN wr[w] THEN wr[w][f] ELSE table[f]]
Write(w, f, row) ==
    wr' = [wr EXCEPT ![w] =
        [g \in DOMAIN @ \cup {f} |-> IF g = f THEN row ELSE @[g]]]
Next1(w, f) == todo' = [todo EXCEPT ![w] = @ \ {f}]

(* Mutant: the statements commit one by one; a failure keeps the first ones. *)
Fail_keepsWrites(w) ==
    /\ Goto(w, "failed")
    /\ got' = [got EXCEPT ![w] = Null]
    /\ resolved' = [resolved EXCEPT ![w] = NoRows]
    /\ existing' = [existing EXCEPT ![w] = NoRows]
    /\ loaded' = [loaded EXCEPT ![w] = NoRows]
    /\ todo' = [todo EXCEPT ![w] = {}]
    /\ wr' = [wr EXCEPT ![w] = <<>>]
    /\ dirty' = dirty \ {w}
    /\ overlapped' = overlapped \ {w}
    /\ table' = View(w)
    /\ UNCHANGED inputs

(* Rolled back: nothing of the transaction remains.                         *)
Fail(w) ==
    /\ Goto(w, "failed")
    /\ got' = [got EXCEPT ![w] = Null]
    /\ resolved' = [resolved EXCEPT ![w] = NoRows]
    /\ existing' = [existing EXCEPT ![w] = NoRows]
    /\ loaded' = [loaded EXCEPT ![w] = NoRows]
    /\ todo' = [todo EXCEPT ![w] = {}]
    /\ wr' = [wr EXCEPT ![w] = <<>>]
    /\ dirty' = dirty \ {w}
    /\ overlapped' = overlapped \ {w}
    /\ UNCHANGED <<inputs, table>>

Resolved(w) == {f \in Feature : resolved[w][f] # Null}

(* Mutant: rows of features no longer entitled are not cleaned up.          *)
StaleRows_none(w) == {}

StaleRows(w) == {f \in Feature : table[f] # Null /\ f \notin Resolved(w)}

FindExisting(w) ==
    /\ pc[w] = "find"
    /\ existing' = [existing EXCEPT ![w] =
           [f \in Feature |-> IF table[f] = Null THEN Null ELSE table[f].id]]
    /\ todo' = [todo EXCEPT ![w] = StaleRows(w)]
    /\ Goto(w, "delete")
    /\ UNCHANGED <<inputs, table, got, resolved, loaded, wr, dirty, overlapped>>

(* DELETE ... WHERE id IN (staleIds): a row gone meanwhile is passed over.  *)
DeleteStale(w) ==
    /\ pc[w] = "delete"
    /\ \E f \in todo[w] :
         /\ ~Locked(w, f)
         /\ IF table[f] # Null /\ table[f].id = existing[w][f]
            THEN Write(w, f, Null) ELSE UNCHANGED wr
         /\ Next1(w, f)
    /\ UNCHANGED <<inputs, table, pc, locals, dirty, overlapped>>

(* save() re-reads the rows it was given with an id; those it finds become  *)
(* updates, all others inserts.                                             *)
SaveSelect(w) ==
    LET found == [f \in Feature |->
                    IF table[f] # Null /\ f \in Resolved(w)
                       /\ table[f].id = existing[w][f]
                    THEN table[f] ELSE Null]
    IN /\ pc[w] = "delete"
       /\ todo[w] = {}
       /\ loaded' = [loaded EXCEPT ![w] = found]
       /\ todo' = [todo EXCEPT ![w] = {f \in Resolved(w) : found[f] = Null}]
       /\ Goto(w, "insert")
       /\ UNCHANGED <<inputs, table, got, resolved, existing, wr, dirty,
                      overlapped>>

(* Mutant: the column takes any number.                                     *)
Accepts_any(e) == TRUE

(* effective_limit is an INTEGER column.                                    *)
Accepts(e) == Fits(e)

(* The unique key (organization_id, feature_id) refuses a second row.       *)
InsertRow(w) ==
    /\ pc[w] = "insert"
    /\ \E f \in todo[w] :
         /\ ~Locked(w, f)
         /\ IF table[f] = Null /\ Accepts(resolved[w][f])
            THEN /\ Write(w, f, [id |-> IF existing[w][f] = Null THEN w
                                        ELSE existing[w][f],
                                 ent |-> resolved[w][f]])
                 /\ Next1(w, f)
                 /\ UNCHANGED <<inputs, table, pc, locals, dirty, overlapped>>
            ELSE Fail(w)

StartUpdates(w) ==
    /\ pc[w] = "insert"
    /\ todo[w] = {}
    /\ todo' = [todo EXCEPT ![w] = {f \in Resolved(w) : loaded[w][f] # Null}]
    /\ Goto(w, "update")
    /\ UNCHANGED <<inputs, table, locals, wr, dirty, overlapped>>

(* UPDATE ... WHERE id = : only the columns that differ from the re-read    *)
(* row are set; a row gone meanwhile is passed over.                        *)
Diffed(new, old, now) ==
    [c \in DOMAIN new |-> IF new[c] # old[c] THEN new[c] ELSE now[c]]

UpdateRow(w) ==
    /\ pc[w] = "update"
    /\ \E f \in todo[w] :
         LET old == loaded[w][f]
         IN /\ ~Locked(w, f)
            /\ IF table[f] = Null \/ table[f].id # old.id
               THEN /\ Next1(w, f)
                    /\ UNCHANGED <<inputs, table, pc, locals, wr, dirty, overlapped>>
               ELSE IF Accepts(resolved[w][f])
               THEN /\ Write(w, f, [id |-> old.id, ent |->
                           Diffed(resolved[w][f], old.ent, table[f].ent)])
                    /\ Next1(w, f)
                    /\ UNCHANGED <<inputs, table, pc, locals, dirty, overlapped>>
               ELSE Fail(w)

Commit(w) ==
    /\ pc[w] = "update"
    /\ todo[w] = {}
    /\ table' = View(w)
    /\ Goto(w, "done")
    /\ resolved' = [resolved EXCEPT ![w] = NoRows]
    /\ existing' = [existing EXCEPT ![w] = NoRows]
    /\ loaded' = [loaded EXCEPT ![w] = NoRows]
    /\ wr' = [wr EXCEPT ![w] = <<>>]
    /\ dirty' = dirty \ {w}
    /\ overlapped' = (overlapped \ {w}) \cup
           {v \in Recalculation \ {w} : pc[v] \in InTransaction}
    /\ UNCHANGED <<inputs, got, todo>>

-----------------------------------------------------------------------------
(* The process or its connection may stop at any point; PostgreSQL fails a  *)
(* transaction that is part of a cycle of waits (here of up to three).      *)
Crash(w) == w \in Running /\ Fail(w)

WaitsFor(w, v) ==
    pc[w] \in InTransaction /\ w # v /\ \E f \in todo[w] : f \in DOMAIN wr[v]

(* Mutant: nobody resolves a cycle of waits.                                *)
Deadlocked_never(w) == FALSE

Deadlocked(w) ==
    \E v \in Recalculation :
        /\ WaitsFor(w, v)
        /\ \/ WaitsFor(v, w)
           \/ \E u \in Recalculation : WaitsFor(v, u) /\ WaitsFor(u, w)

DeadlockVictim(w) == Deadlocked(w) /\ Fail(w)

Advance(w) ==
    \/ ReadOverrides(w) \/ ReadPlanFeatures(w) \/ ReadAddonFeatures(w)
    \/ FindExisting(w) \/ DeleteStale(w) \/ SaveSelect(w) \/ InsertRow(w)
    \/ StartUpdates(w) \/ UpdateRow(w) \/ Commit(w)

Next ==
    \/ Change
    \/ \E w \in Recalculation :
         Start(w) \/ Advance(w) \/ DeadlockVictim(w) \/ Crash(w)

(* The event loop and the database keep serving every request, and the      *)
(* deadlock detector keeps looking; nobody has to start a recalculation.    *)
Fairness ==
    \A w \in Recalculation : WF_vars(Advance(w)) /\ WF_vars(DeadlockVictim(w))

Spec == Init /\ [][Next]_vars /\ Fairness

-----------------------------------------------------------------------------
TypeOK ==
    /\ sub \in SubscriptionStates
    /\ overrides \in OverrideStates
    /\ catalog \in CatalogStates
    /\ table \in [Feature -> Row \cup {Null}]
    /\ pc \in [Recalculation -> {"idle"} \cup Reading \cup InTransaction \cup Ended]
    /\ resolved \in [Recalculation -> Entitlements]
    /\ existing \in [Recalculation ->
           [Feature -> Recalculation \cup {"earlier", Null}]]
    /\ loaded \in [Recalculation -> [Feature -> Row \cup {Null}]]
    /\ todo \in [Recalculation -> SUBSET Feature]
    /\ \A w \in Recalculation :
         /\ DOMAIN wr[w] \subseteq Feature
         /\ \A f \in DOMAIN wr[w] : wr[w][f] \in Row \cup {Null}
    /\ dirty \subseteq Running
    /\ overlapped \subseteq Running

Commits(w) == pc[w] = "update" /\ pc'[w] = "done"

(* A recalculation during which no other one committed replaces the whole   *)
(* snapshot by what it resolved; when the inputs held still as well, the    *)
(* snapshot is what the plan, addons and overrides now entitle to, whatever *)
(* earlier overlapping recalculations left in the table.                    *)
LoneRecalculationReplaces ==
    [][\A w \in Recalculation :
         Commits(w) /\ w \notin overlapped =>
            /\ \A f \in Feature : Content(table'[f]) = resolved[w][f]
            /\ w \notin dirty =>
                 resolved[w] = Entitled(sub, overrides, catalog)]_vars

(* Every recalculation comes to an end, although their transactions may     *)
(* wait for each other.                                                     *)
RecalculationEnds ==
    \A w \in Recalculation : (w \in Running) ~> (pc[w] \in Ended)

(* "Atomically replace all snapshot rows for the org in a single            *)
(* transaction" (entitlement-snapshot.service.ts:17): after a commit the    *)
(* rows are those of the recalculation that committed.                      *)
CommitReplacesAllRows ==
    [][\A w \in Recalculation : Commits(w) =>
         \A f \in Feature : Content(table'[f]) = resolved[w][f]]_vars

(* The statements of recalculate, in any interleaving of overlapping        *)
(* transactions with failures, crashes and changing inputs, implement the   *)
(* service's promise: one no other commits beside replaces everything or    *)
(* nothing, and every one ends.                                             *)
Promise == INSTANCE SnapshotReplace WITH
    snapshot <- [f \in Feature |-> Content(table[f])],
    running <- Running

KeepsPromise == Promise!Spec
=============================================================================
