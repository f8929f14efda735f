--------------------------- MODULE AccessDecision ---------------------------
(****************************************************************************)
(* AccessDecisionService: check() answers from the snapshot row of a        *)
(* feature, simulate() merges hypothetical inputs the way a recalculation   *)
(* merges the real ones and writes nothing.  Both run beside the changes of *)
(* subscription, overrides and catalog and beside recalculations, which     *)
(* appear here as the steps of SnapshotReplace, one at a time (an           *)
(* overlapped one may leave any snapshot at all).  A check names a feature  *)
(* by its code; the rows of the snapshot hold copies of code and meter type,*)
(* which the catalog may change (c.feature for a catalog c) behind them.    *)
(****************************************************************************)
EXTENDS SnapshotReplace

CONSTANTS
    AccessRequest,  \* the access requests of a behaviour
    Code,           \* codes of features, past, present or unknown
    Plan,           \* ids a body may name as plan
    Asked,          \* quantities a check may ask for
    Hypothesis      \* bodies of POST simulate; Null where a field is left out

MeterType == {"boolean", "quantity", "seats", "storage", "usage"}
Identity == [code : Code, meterType : MeterType]

(* Every feature has a code of its own (uq_feature_code).                   *)
ASSUME FeatureAssumption ==
    \A c \in CatalogStates :
        /\ c.feature \in [Feature -> Identity]
        /\ \A f, g \in Feature : c.feature[f].code = c.feature[g].code => f = g

ASSUME NoIdentity == Null \notin Identity

(* A body may name a plan that nobody has created; its quantities are       *)
(* positive (@Min(1)).                                                      *)
ASSUME PlanAssumption ==
    /\ \A s \in SubscriptionStates \ {Null} : s.plan \in Plan
    /\ \A h \in Hypothesis : h.plan \in Plan \cup {Null}

ASSUME BodyAssumption ==
    \A h \in Hypothesis :
        /\ h.addons # Null =>
              \A a \in DOMAIN h.addons : h.addons[a] \in Nat \ {0}
        /\ h.overrides # Null =>
              /\ IsFiniteSet(h.overrides)
              /\ \A x \in h.overrides :
                    x.isEnabled \in BOOLEAN /\ x.limitOverride \in Limit

VARIABLES
    copied, \* code and meter type in each feature's row of the snapshot, or Null
    stage,  \* where each access request is
    ask,    \* its body
    seen,   \* what a simulation has read and put in its place
    answer,
    fresh,  \* history: the snapshot is the merge of the present inputs
    moved   \* history: simulations an input changed under

accessVars == <<stage, ask, seen, answer>>
allVars == <<sub, overrides, catalog, snapshot, running, dirty, overlapped,
             copied, stage, ask, seen, answer, fresh, moved>>

Simulating == {"planFeatures", "addonFeatures", "overrides"}
Stages == {"idle", "checked", "simulated", "rejected"} \cup Simulating
Reason == {"feature_not_included", "feature_disabled", "quota_exceeded",
           "feature_included", "quota_available"}
Answer == [allowed : BOOLEAN, reason : Reason, limit : Limit]

(* What the rows of a snapshot copy, if each feature f was read from the    *)
(* catalog from[f].                                                         *)
Copies(rows, from) ==
    [f \in Feature |-> IF rows[f] = Null THEN Null ELSE from[f].feature[f]]

To(r, s) == stage' = [stage EXCEPT ![r] = s]

AccessInit ==
    /\ Init
    /\ copied = Copies(snapshot, [f \in Feature |-> catalog])
    /\ stage = [r \in AccessRequest |-> "idle"]
    /\ ask = [r \in AccessRequest |-> Null]
    /\ seen = [r \in AccessRequest |-> Null]
    /\ answer = [r \in AccessRequest |-> Null]
    /\ fresh = FALSE
    /\ moved = {}

-----------------------------------------------------------------------------
(* check(): the row of the feature, then the rules                          *)

Allowed(reason, limit) == [allowed |-> TRUE, reason |-> reason, limit |-> limit]
Denied(reason, limit) == [allowed |-> FALSE, reason |-> reason, limit |-> limit]

Decide(row, meterType, quantity) ==
    CASE ~row.isEnabled -> Denied("feature_disabled", row.effectiveLimit)
      [] row.isEnabled /\ meterType = "boolean" ->
            Allowed("feature_included", Null)
      [] row.isEnabled /\ meterType # "boolean" ->
            IF row.effectiveLimit = Null \/ quantity <= row.effectiveLimit
            THEN Allowed("quota_available", row.effectiveLimit)
            ELSE Denied("quota_exceeded", row.effectiveLimit)

(* The features whose rows carry a code: findOne takes any of them.         *)
Rows(code) == {f \in Feature : snapshot[f] # Null /\ copied[f].code = code}

Check(r) ==
    /\ stage[r] = "idle"
    /\ \E k \in Code, q \in Asked :
         /\ ask' = [ask EXCEPT ![r] = [code |-> k, quantity |-> q]]
         /\ \/ \E f \in Rows(k) :
                 answer' = [answer EXCEPT ![r] =
                                Decide(snapshot[f], copied[f].meterType, q)]
            \/ /\ Rows(k) = {}
               /\ answer' = [answer EXCEPT ![r] =
                                Denied("feature_not_included", Null)]
    /\ To(r, "checked")
    /\ UNCHANGED seen

-----------------------------------------------------------------------------
(* simulate(): findCurrent, the features of the plan, those of the addons,  *)
(* then the features of the overrides in the body or, if it has none, the   *)
(* overrides of the organization: one query either way.  Whatever the body  *)
(* gives takes the place of what is there; Null is a field left out.  (null *)
(* for addons or overrides passes validation too; the handler then throws   *)
(* and has changed nothing.)                                                *)

(* Mutant: a plan the body leaves out is not replaced by the current one.   *)
Given_unchecked(new, old) == new

Given(new, old) == IF new = Null THEN old ELSE new

SimulateFind(r) ==
    /\ stage[r] = "idle"
    /\ \E h \in Hypothesis : ask' = [ask EXCEPT ![r] = h]
    /\ IF sub = Null
       THEN To(r, "rejected") /\ UNCHANGED seen
       ELSE /\ seen' = [seen EXCEPT ![r] = [current |-> sub, sub |-> sub]]
            /\ To(r, "planFeatures")
    /\ UNCHANGED answer

(* A plan nobody has created has no features.                               *)
FeaturesOf(c, p) == IF p \in DOMAIN c.plan THEN c.plan[p] ELSE NoEntitlements

SimulatePlan(r) ==
    LET p == Given(ask[r].plan, seen[r].sub.plan)
    IN /\ stage[r] = "planFeatures"
       /\ seen' = [seen EXCEPT ![r] =
              [current |-> @.current,
               sub |-> [plan |-> p, addons |-> @.sub.addons],
               planFeatures |-> FeaturesOf(catalog, p)]]
       /\ To(r, "addonFeatures")
       /\ UNCHANGED <<ask, answer>>

(* Mutant: the addons of the body come on top of the current ones.          *)
Hypothetical_added(new, old) == IF new = Null THEN old ELSE new @@ old

Hypothetical(new, old) == IF new = Null THEN old ELSE new

SimulateAddons(r) ==
    LET s == [plan |-> seen[r].sub.plan,
              addons |-> Hypothetical(ask[r].addons, seen[r].sub.addons)]
    IN /\ stage[r] = "addonFeatures"
       /\ seen' = [seen EXCEPT ![r] =
              [current |-> @.current, sub |-> s,
               planFeatures |-> @.planFeatures,
               addonFeatures |-> AddonRowsFor(s, catalog)]]
       /\ To(r, "overrides")
       /\ UNCHANGED <<ask, answer>>

(* buildHypotheticalOverrides: in force always, of features that exist.     *)
Synthetic(o) == [feature |-> o.feature, isEnabled |-> o.isEnabled,
                 limitOverride |-> o.limitOverride,
                 startsAt |-> Null, endsAt |-> Null]

SimulateOverrides(r) ==
    LET given == ask[r].overrides
        used == IF given = Null THEN overrides ELSE {Synthetic(o) : o \in given}
    IN /\ stage[r] = "overrides"
       /\ IF \A o \in used : o.feature \in Feature
          THEN /\ answer' = [answer EXCEPT ![r] = [entitlements |->
                     Resolve(seen[r].sub, seen[r].planFeatures,
                             seen[r].addonFeatures, used)]]
               /\ seen' = [seen EXCEPT ![r] = [current |-> @.current,
                     sub |-> @.sub, overrides |-> overrides, catalog |-> catalog]]
               /\ To(r, "simulated")
          ELSE /\ To(r, "rejected")
               /\ seen' = [seen EXCEPT ![r] = Null]
               /\ UNCHANGED answer
       /\ UNCHANGED ask

-----------------------------------------------------------------------------
AccessStep(r) ==
    \/ Check(r)
    \/ SimulateFind(r) \/ SimulatePlan(r)
    \/ SimulateAddons(r) \/ SimulateOverrides(r)

(* Mutant: the upsert leaves the copies in a row that is already there.     *)
CopyFeatures_kept(w) ==
    copied' = [f \in Feature |->
                  IF snapshot'[f] # Null /\ copied[f] # Null
                  THEN copied[f]
                  ELSE Copies(snapshot', [g \in Feature |-> catalog])[f]]

(* A recalculation copies code and meter type of the features it read, each *)
(* when it read the rows that name it.                                      *)
CopyFeatures(w) ==
    \E from \in [Feature -> IF w \in dirty THEN CatalogStates ELSE {catalog}] :
        copied' = Copies(snapshot', from)

AccessNext ==
    \/ /\ Change
       /\ fresh' = FALSE
       /\ moved' = moved \cup {r \in AccessRequest : stage[r] \in Simulating}
       /\ UNCHANGED <<accessVars, copied>>
    \/ \E w \in Recalculation :
         /\ \/ running = {} /\ Begin(w) /\ UNCHANGED <<copied, fresh>>
            \/ Replace(w) /\ CopyFeatures(w) /\ fresh' = (w \notin dirty)
            \/ Abandon(w) /\ UNCHANGED <<copied, fresh>>
         /\ UNCHANGED <<accessVars, moved>>
    \/ \E r \in AccessRequest :
         /\ AccessStep(r)
         /\ UNCHANGED <<inputs, snapshot, running, dirty, overlapped, copied,
                        fresh, moved>>

AccessSpec == AccessInit /\ [][AccessNext]_allVars

-----------------------------------------------------------------------------
(* Properties                                                               *)

(* The variables keep their types: a simulation knows the plan it asks for, *)
(* and every entitlement and answer is complete.                            *)
TypeOK ==
    /\ snapshot \in Entitlements
    /\ running \subseteq Recalculation
    /\ copied \in [Feature -> Identity \cup {Null}]
    /\ \A f \in Feature : copied[f] = Null <=> snapshot[f] = Null
    /\ stage \in [AccessRequest -> Stages]
    /\ \A r \in AccessRequest :
         /\ stage[r] = "checked" => answer[r] \in Answer
         /\ stage[r] = "simulated" => answer[r].entitlements \in Entitlements
         /\ seen[r] # Null => seen[r].sub.plan \in Plan
    /\ fresh \in BOOLEAN
    /\ moved \subseteq AccessRequest

(* What the documented rules grant, said of the inputs themselves: an       *)
(* override decides if it disables the feature or sets a limit; otherwise   *)
(* plan and addons decide, whose capacities add up unless one is unlimited. *)
PlanRow(f) == catalog.plan[sub.plan][f]
AddonRows(f) == {af \in AddonRowsFor(sub, catalog) : af.feature = f}
Unlimited(f) ==
    \/ PlanRow(f) # Null /\ PlanRow(f).includedLimit = Null
    \/ \E af \in AddonRows(f) : af.includedLimit = Null
PlannedCapacity(f) ==
    (IF PlanRow(f) = Null THEN 0 ELSE PlanRow(f).includedLimit) +
    FoldSet(LAMBDA af, sum : af.includedLimit * Quantity(sub, af) + sum, 0, AddonRows(f))

Granted(f, q) ==
    LET included == PlanRow(f) # Null \/ AddonRows(f) # {}
        own == {o \in overrides : o.feature = f}
        limits == {o.limitOverride : o \in own} \ {Null}
    IN /\ included \/ own # {}
       /\ \A o \in own : o.isEnabled
       /\ \/ catalog.feature[f].meterType = "boolean"
          \/ \E l \in limits : q <= l
          \/ limits = {} /\ (~included \/ Unlimited(f))
          \/ limits = {} /\ included /\ ~Unlimited(f) /\ q <= PlannedCapacity(f)

(* Through snapshot and recalculation, a check on a snapshot no input has   *)
(* outrun grants exactly what plan, addons and overrides grant of the       *)
(* feature that has the code now, whatever it was and was called before.    *)
FreshCheckIsRight ==
    [][\A r \in AccessRequest :
         stage[r] # "checked" /\ stage'[r] = "checked" /\ fresh =>
            answer'[r].allowed = (sub # Null /\
                \E f \in Feature : /\ catalog.feature[f].code = ask'[r].code
                                   /\ Granted(f, ask'[r].quantity))]_allVars

(* The inputs a body h supposes: what it gives, and what is there where it  *)
(* gives nothing.                                                           *)
Supposed(h, s) ==
    [plan |-> IF h.plan = Null THEN s.plan ELSE h.plan,
     addons |-> IF h.addons = Null THEN s.addons ELSE h.addons]
Used(h, o) ==
    IF h.overrides = Null THEN o ELSE {Synthetic(x) : x \in h.overrides}
Simulated(h, s, c, d, o) ==
    Resolve(Supposed(h, s), FeaturesOf(c, Supposed(h, s).plan),
            AddonRowsFor(Supposed(h, s), d), Used(h, o))

Assumed(r) ==
    [sub |-> Supposed(ask[r], seen[r].current),
     overrides |-> Used(ask[r], seen[r].overrides),
     catalog |-> seen[r].catalog]

(* A simulation that no change ran into predicts: once the inputs are what  *)
(* it assumed and a recalculation has finished on them, the snapshot is its *)
(* answer, however much happened in between.                                *)
SimulationPredicts ==
    \A r \in AccessRequest :
        stage[r] = "simulated" /\ r \notin moved /\ fresh
        /\ Assumed(r) = [sub |-> sub, overrides |-> overrides, catalog |-> catalog]
            => answer[r].entitlements = snapshot

(* Without a subscription, once running recalculations have ended, nothing  *)
(* replaces the snapshot: checks keep answering as if it were still there,  *)
(* until there is a subscription again.                                     *)
FrozenWithoutSubscription ==
    [][sub = Null /\ running = {} =>
         UNCHANGED <<snapshot, copied>> /\ (sub' = Null => running' = {})]_allVars
=============================================================================
