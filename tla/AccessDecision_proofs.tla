------------------------- MODULE AccessDecision_proofs -------------------------
(* A check on a fresh snapshot grants what the rules grant, simulations     *)
(* predict what a recalculation will grant, and a subscription that is gone *)
(* freezes the snapshot, for any features, inputs, bodies and number of     *)
(* requests.                                                                *)
EXTENDS AccessDecision, EntitlementResolver_proofs

USE DEF Simulating, Stages

(* What a simulation holds that read the subscription s, the plan features  *)
(* of the catalog c and the addon features of the catalog d.                *)
Reads(r, s, c, d) ==
    /\ stage[r] \in Simulating =>
         ask[r] \in Hypothesis /\ seen[r].current = s
    /\ stage[r] = "planFeatures" => seen[r].sub = s
    /\ stage[r] = "addonFeatures" =>
         /\ seen[r].sub = [plan |-> Supposed(ask[r], s).plan,
                           addons |-> s.addons]
         /\ seen[r].planFeatures = FeaturesOf(c, Supposed(ask[r], s).plan)
    /\ stage[r] = "overrides" =>
         /\ seen[r].sub = Supposed(ask[r], s)
         /\ seen[r].planFeatures = FeaturesOf(c, Supposed(ask[r], s).plan)
         /\ seen[r].addonFeatures = AddonRowsFor(Supposed(ask[r], s), d)

(* What a finished simulation answered, if no input changed under it.       *)
Answered(r) ==
    stage[r] = "simulated" =>
        answer[r].entitlements =
            Simulated(ask[r], seen[r].current, seen[r].catalog, seen[r].catalog,
                      seen[r].overrides)

InputsOK ==
    /\ sub \in SubscriptionStates
    /\ overrides \in OverrideStates
    /\ catalog \in CatalogStates

(* A recalculation that no change ran into found a subscription, and what   *)
(* it left is the merge of the present inputs, with the present codes.      *)
PresentCopies(rows) == Copies(rows, [f \in Feature |-> catalog])

FreshOK ==
    /\ \A w \in running \ dirty : sub # Null
    /\ fresh => /\ sub # Null
                /\ snapshot = Entitled(sub, overrides, catalog)
                /\ copied = PresentCopies(snapshot)

Functions ==
    /\ ask = [r \in AccessRequest |-> ask[r]]
    /\ seen = [r \in AccessRequest |-> seen[r]]
    /\ answer = [r \in AccessRequest |-> answer[r]]

SomeReading(r) ==
    \E s \in SubscriptionStates \ {Null}, c, d \in CatalogStates :
        Reads(r, s, c, d)

PresentReading(r) ==
    stage[r] \in Simulating => sub # Null /\ Reads(r, sub, catalog, catalog)

AccessInv ==
    /\ TypeOK
    /\ InputsOK
    /\ FreshOK
    /\ Functions
    /\ \A r \in AccessRequest : stage[r] \in Simulating => SomeReading(r)
    /\ \A r \in AccessRequest \ moved : PresentReading(r) /\ Answered(r)

-----------------------------------------------------------------------------
(* The rows read for a subscription that is there, or that a body supposes, *)
(* have a type the merge keeps.                                             *)
LEMMA PlanTyped ==
    ASSUME NEW c \in CatalogStates, NEW p
    PROVE  /\ FeaturesOf(c, p) \in PlanFeatures
           /\ p \in DOMAIN c.plan => c.plan[p] \in PlanFeatures
  BY CatalogAssumption DEF FeaturesOf, NoEntitlements, PlanFeatures

LEMMA AddonRowsSubscribed ==
    ASSUME NEW s, NEW d \in CatalogStates,
           \A a \in DOMAIN s.addons : s.addons[a] \in Nat \ {0}
    PROVE  Subscribed(s, AddonRowsFor(s, d))
<1>1. PICK A : A = AddonRowsFor(s, d)
  OBVIOUS
<1>2. d.addon \subseteq AddonTerms /\ IsFiniteSet(d.addon)
  BY CatalogAssumption
<1>3. A \subseteq d.addon
  BY <1>1 DEF AddonRowsFor
<1>4. IsFiniteSet(A)
  BY <1>2, <1>3, FS_Subset
<1>5. ASSUME NEW af \in A PROVE Quantity(s, af) \in Nat \ {0}
  BY <1>1 DEF AddonRowsFor, Quantity
<1> QED
  BY <1>1, <1>2, <1>3, <1>4, <1>5 DEF Subscribed

LEMMA ResolvedTyped ==
    ASSUME NEW s \in SubscriptionStates \ {Null}, NEW o \in OverrideStates,
           NEW c \in CatalogStates, NEW d \in CatalogStates
    PROVE  Resolve(s, c.plan[s.plan], AddonRowsFor(s, d), o) \in Entitlements
<1>1. PICK pf : pf = c.plan[s.plan] /\ pf \in PlanFeatures
  BY SubscriptionAssumption, PlanTyped
<1>2. PICK A : A = AddonRowsFor(s, d) /\ Subscribed(s, A)
  BY SubscriptionAssumption, AddonRowsSubscribed
<1>3. o \in SUBSET Override /\ IsFiniteSet(o)
  BY OverrideAssumption
<1> QED
  BY <1>1, <1>2, <1>3, ResolveTyped

LEMMA EntitledTyped ==
    ASSUME InputsOK, sub # Null
    PROVE  Entitled(sub, overrides, catalog) \in Entitlements
  BY ResolvedTyped DEF InputsOK, Entitled

(* A body that names only features that exist is merged like stored rows.   *)
LEMMA UsedTyped ==
    ASSUME NEW h \in Hypothesis, NEW o \in OverrideStates,
           \A x \in Used(h, o) : x.feature \in Feature
    PROVE  Used(h, o) \in SUBSET Override /\ IsFiniteSet(Used(h, o))
<1>1. CASE h.overrides = Null
  BY <1>1, OverrideAssumption DEF Used
<1>2. CASE h.overrides # Null
  <2>1. PICK g : g = [x \in h.overrides |-> Synthetic(x)]
    OBVIOUS
  <2>2. Used(h, o) = {g[x] : x \in h.overrides}
    BY <1>2, <2>1 DEF Used
  <2>3. IsFiniteSet({g[x] : x \in h.overrides})
    <3>1. PICK S : S = h.overrides /\ IsFiniteSet(S)
      BY <1>2, BodyAssumption
    <3>2. IsFiniteSet({g[x] : x \in S})
      BY <2>1, <3>1, ImageFinite
    <3> QED
      BY <3>1, <3>2
  <2>4. ASSUME NEW x \in h.overrides PROVE Synthetic(x) \in Override
    <3>1. Synthetic(x).feature \in Feature
      BY <1>2 DEF Used
    <3>2. x.isEnabled \in BOOLEAN /\ x.limitOverride \in Limit
      BY <1>2, BodyAssumption
    <3> QED
      BY <3>1, <3>2 DEF Synthetic, Override
  <2>5. Used(h, o) \subseteq Override
    BY <1>2, <2>4 DEF Used
  <2> QED
    BY <2>2, <2>3, <2>5
<1> QED
  BY <1>1, <1>2

LEMMA SimulatedTyped ==
    ASSUME NEW h \in Hypothesis, NEW s \in SubscriptionStates \ {Null},
           NEW c \in CatalogStates, NEW d \in CatalogStates,
           NEW o \in OverrideStates, \A x \in Used(h, o) : x.feature \in Feature
    PROVE  Simulated(h, s, c, d, o) \in Entitlements
<1>1. PICK t : t = Supposed(h, s)
  OBVIOUS
<1>2. \A a \in DOMAIN t.addons : t.addons[a] \in Nat \ {0}
  BY <1>1, BodyAssumption, SubscriptionAssumption DEF Supposed
<1>3. PICK A : A = AddonRowsFor(t, d) /\ Subscribed(t, A)
  BY <1>2, AddonRowsSubscribed
<1>4. PICK pf : pf = FeaturesOf(c, t.plan) /\ pf \in PlanFeatures
  BY PlanTyped
<1>5. PICK P : P = Used(h, o) /\ P \in SUBSET Override /\ IsFiniteSet(P)
  BY UsedTyped
<1>6. Resolve(t, pf, A, P) \in Entitlements
  BY <1>3, <1>4, <1>5, ResolveTyped
<1> QED
  BY <1>1, <1>3, <1>4, <1>5, <1>6 DEF Simulated

LEMMA SupposedPlan ==
    ASSUME NEW h \in Hypothesis, NEW s \in SubscriptionStates \ {Null}
    PROVE  Supposed(h, s).plan \in Plan
  BY PlanAssumption DEF Supposed

LEMMA DecideTyped ==
    ASSUME NEW row \in Entitlement, NEW t, NEW q
    PROVE  Decide(row, t, q) \in Answer
<1>1. row.isEnabled \in BOOLEAN /\ row.effectiveLimit \in Limit
  BY DEF Entitlement
<1>2. Null \in Limit
  BY DEF Limit
<1>3. CASE ~row.isEnabled
  BY <1>1, <1>3 DEF Decide, Denied, Answer, Reason
<1>4. CASE row.isEnabled
  <2>1. Decide(row, t, q) =
          IF t = "boolean" THEN Allowed("feature_included", Null)
          ELSE IF row.effectiveLimit = Null \/ q <= row.effectiveLimit
          THEN Allowed("quota_available", row.effectiveLimit)
          ELSE Denied("quota_exceeded", row.effectiveLimit)
    BY <1>4 DEF Decide
  <2> QED
    BY <1>1, <1>2, <2>1 DEF Allowed, Denied, Answer, Reason
<1> QED
  BY <1>1, <1>3, <1>4

(* Rows have copies, whatever catalogs the features were read from.         *)
LEMMA CopiesTyped ==
    ASSUME NEW rows, NEW from \in [Feature -> CatalogStates]
    PROVE  /\ Copies(rows, from) \in [Feature -> Identity \cup {Null}]
           /\ \A f \in Feature :
                Copies(rows, from)[f] = Null <=> rows[f] = Null
<1>1. \A f \in Feature : from[f].feature[f] \in Identity
  BY FeatureAssumption
<1> QED
  BY <1>1, NoIdentity DEF Copies

LEMMA AccessInvInit == AccessInit => AccessInv
<1> SUFFICES ASSUME AccessInit PROVE AccessInv
  OBVIOUS
<1>1. InputsOK /\ sub # Null
  BY DEF AccessInit, Init, InputsInit, InputsOK
<1>2. snapshot \in Entitlements
  BY <1>1, EntitledTyped DEF AccessInit, Init, NoEntitlements, Entitlements
<1>3. TypeOK
  <2>1. /\ copied \in [Feature -> Identity \cup {Null}]
        /\ \A f \in Feature : copied[f] = Null <=> snapshot[f] = Null
    BY <1>1, CopiesTyped DEF AccessInit, InputsOK
  <2> QED
    BY <1>2, <2>1 DEF AccessInit, Init, TypeOK
<1>4. FreshOK /\ Functions
  BY DEF AccessInit, Init, FreshOK, Functions
<1>5. \A r \in AccessRequest : stage[r] = "idle"
  BY DEF AccessInit
<1> QED
  BY <1>1, <1>3, <1>4, <1>5 DEF AccessInv, PresentReading, Answered

(* The steps of access requests and of recalculations leave the inputs.     *)
LEMMA ReadingKept ==
    ASSUME NEW r, UNCHANGED inputs,
           stage'[r] = stage[r], ask'[r] = ask[r], seen'[r] = seen[r],
           answer'[r] = answer[r]
    PROVE  /\ SomeReading(r) => SomeReading(r)'
           /\ PresentReading(r) => PresentReading(r)'
           /\ Answered(r) => Answered(r)'
<1>1. \A s, c, d : Reads(r, s, c, d) => Reads(r, s, c, d)'
  BY DEF Reads
<1>2. SomeReading(r) => SomeReading(r)'
  BY <1>1 DEF SomeReading
<1>3. PresentReading(r) => PresentReading(r)'
  BY <1>1 DEF PresentReading, Reads, inputs
<1>4. Answered(r) => Answered(r)'
  BY DEF Answered
<1> QED
  BY <1>2, <1>3, <1>4

(* While inputs and snapshot stay, so does what is known of a fresh one.    *)
LEMMA FreshKept ==
    ASSUME FreshOK, UNCHANGED inputs, UNCHANGED <<snapshot, copied>>,
           fresh' => fresh, \A w \in running' \ dirty' : sub # Null
    PROVE  FreshOK'
<1>1. PICK result, rows : /\ result = Entitled(sub, overrides, catalog)
                          /\ rows = PresentCopies(snapshot)
  OBVIOUS
<1>2. /\ Entitled(sub, overrides, catalog)' = result
      /\ PresentCopies(snapshot)' = rows
  BY <1>1 DEF inputs, PresentCopies, Copies
<1>3. fresh => sub # Null /\ snapshot = result /\ copied = rows
  BY <1>1 DEF FreshOK
<1> QED
  BY <1>2, <1>3 DEF FreshOK, inputs

-----------------------------------------------------------------------------
(* The steps of the other handlers                                          *)

LEMMA AccessInvChange ==
    ASSUME AccessInv, Change, fresh' = FALSE,
           moved' = moved \cup {r \in AccessRequest : stage[r] \in Simulating},
           UNCHANGED <<accessVars, copied>>
    PROVE  AccessInv'
<1>1. InputsOK'
  BY DEF AccessInv, InputsOK, Change, ChangeInputs, ChangeSubscription,
     ChangeOverrides, ChangeCatalog
<1>2. TypeOK'
  BY DEF AccessInv, TypeOK, Change, accessVars
<1>3. FreshOK' /\ Functions'
  BY DEF AccessInv, FreshOK, Functions, Change, accessVars
<1>4. ASSUME NEW r \in AccessRequest, stage'[r] \in Simulating
      PROVE  SomeReading(r)'
  <2>1. SomeReading(r)
    BY <1>4 DEF AccessInv, accessVars
  <2> QED
    BY <2>1 DEF SomeReading, Reads, accessVars
<1>5. ASSUME NEW r \in AccessRequest, r \notin moved'
      PROVE  PresentReading(r)' /\ Answered(r)'
  <2>1. Answered(r) /\ stage[r] \notin Simulating
    BY <1>5 DEF AccessInv
  <2> QED
    BY <2>1 DEF PresentReading, Answered, accessVars
<1> QED
  BY <1>1, <1>2, <1>3, <1>4, <1>5 DEF AccessInv

LEMMA AccessInvRecalculation ==
    ASSUME AccessInv, NEW w \in Recalculation,
           \/ running = {} /\ Begin(w) /\ UNCHANGED <<copied, fresh>>
           \/ Replace(w) /\ CopyFeatures(w) /\ fresh' = (w \notin dirty)
           \/ Abandon(w) /\ UNCHANGED <<copied, fresh>>,
           UNCHANGED <<accessVars, moved>>
    PROVE  AccessInv'
<1>1. UNCHANGED inputs
  BY DEF Begin, Replace, Abandon, End
<1>2. InputsOK' /\ Functions'
  BY <1>1 DEF AccessInv, InputsOK, Functions, inputs, accessVars
<1>3. PICK result : result = Entitled(sub, overrides, catalog)
  OBVIOUS
<1>4. Entitled(sub, overrides, catalog)' = result
  BY <1>1, <1>3 DEF inputs
<1>5. CASE Begin(w) /\ UNCHANGED <<copied, fresh>>
  <2>1. /\ running' = running \cup {w} /\ sub # Null
        /\ UNCHANGED <<snapshot, dirty>>
    BY <1>5 DEF Begin
  <2>2. FreshOK'
    <3>1. \A v \in running' \ dirty' : sub # Null
      BY <2>1 DEF AccessInv, FreshOK
    <3> QED
      BY <1>1, <1>5, <2>1, <3>1, FreshKept DEF AccessInv
  <2>3. TypeOK'
    BY <1>5, <2>1 DEF AccessInv, TypeOK, accessVars
  <2> QED
    BY <1>1, <1>2, <2>2, <2>3, ReadingKept DEF AccessInv, accessVars
<1>6. CASE Replace(w) /\ CopyFeatures(w) /\ fresh' = (w \notin dirty)
  <2>1. /\ w \in running /\ running' = running \ {w} /\ dirty' = dirty \ {w}
        /\ w \notin dirty => snapshot' = result
        /\ w \in dirty =>
             \E s \in SubscriptionStates \ {Null}, o \in OverrideStates,
                c, d \in CatalogStates :
               snapshot' = Resolve(s, c.plan[s.plan], AddonRowsFor(s, d), o)
    BY <1>3, <1>6 DEF Replace, End
  <2>2. w \notin dirty => sub # Null
    BY <2>1 DEF AccessInv, FreshOK
  <2>3. snapshot' \in Entitlements
    BY <1>3, <2>1, <2>2, EntitledTyped, ResolvedTyped DEF AccessInv
  <2>4. FreshOK'
    <3>1. \A v \in running' \ dirty' : sub' # Null
      BY <1>1, <2>1 DEF AccessInv, FreshOK, inputs
    <3>2. fresh' => sub' # Null /\ snapshot' = result
      BY <1>1, <1>6, <2>1, <2>2 DEF inputs
    <3>3. fresh' => copied' = PresentCopies(snapshot)'
      <4> SUFFICES ASSUME fresh' PROVE copied' = PresentCopies(snapshot)'
        OBVIOUS
      <4>1. PICK from \in [Feature -> {catalog}] :
              copied' = Copies(snapshot', from)
        BY <1>6 DEF CopyFeatures
      <4>2. from = [f \in Feature |-> catalog]
        OBVIOUS
      <4>3. PresentCopies(snapshot)' = Copies(snapshot', [f \in Feature |-> catalog'])
        BY DEF PresentCopies
      <4> QED
        BY <1>1, <4>1, <4>2, <4>3 DEF inputs
    <3> QED
      BY <1>4, <3>1, <3>2, <3>3 DEF FreshOK
  <2>5. /\ copied' \in [Feature -> Identity \cup {Null}]
        /\ \A f \in Feature : copied'[f] = Null <=> snapshot'[f] = Null
    <3>1. PICK from \in [Feature -> IF w \in dirty THEN CatalogStates
                                                 ELSE {catalog}] :
            copied' = Copies(snapshot', from)
      BY <1>6 DEF CopyFeatures
    <3>2. from \in [Feature -> CatalogStates]
      BY <3>1 DEF AccessInv, InputsOK
    <3> QED
      BY <3>1, <3>2, CopiesTyped
  <2>6. TypeOK'
    BY <1>6, <2>1, <2>3, <2>5 DEF AccessInv, TypeOK, accessVars
  <2> QED
    BY <1>1, <1>2, <2>4, <2>6, ReadingKept DEF AccessInv, accessVars
<1>7. CASE Abandon(w) /\ UNCHANGED <<copied, fresh>>
  <2>1. /\ running' = running \ {w} /\ dirty' = dirty \ {w}
        /\ UNCHANGED snapshot
    BY <1>7 DEF Abandon, End
  <2>2. FreshOK'
    <3>1. \A v \in running' \ dirty' : sub # Null
      BY <2>1 DEF AccessInv, FreshOK
    <3> QED
      BY <1>1, <1>7, <2>1, <3>1, FreshKept DEF AccessInv
  <2>3. TypeOK'
    BY <1>7, <2>1 DEF AccessInv, TypeOK, accessVars
  <2> QED
    BY <1>1, <1>2, <2>2, <2>3, ReadingKept DEF AccessInv, accessVars
<1> QED
  BY <1>5, <1>6, <1>7

-----------------------------------------------------------------------------
(* The steps of access requests                                             *)

OnlyOf(r) ==
    \A x \in AccessRequest \ {r} :
        /\ stage'[x] = stage[x] /\ ask'[x] = ask[x]
        /\ seen'[x] = seen[x] /\ answer'[x] = answer[x]

(* What a step of r has to show.                                            *)
StepOK(r) ==
    /\ stage' \in [AccessRequest -> Stages]
    /\ Functions'
    /\ OnlyOf(r)
    /\ stage'[r] = "checked" => answer'[r] \in Answer
    /\ stage'[r] = "simulated" => answer'[r].entitlements \in Entitlements
    /\ seen'[r] # Null => seen'[r].sub.plan \in Plan
    /\ stage'[r] \in Simulating => SomeReading(r)'
    /\ r \notin moved => PresentReading(r)' /\ Answered(r)'

LEMMA StepKeeps ==
    ASSUME AccessInv, NEW r \in AccessRequest, StepOK(r),
           UNCHANGED <<inputs, snapshot, running, dirty, overlapped, copied, fresh,
                       moved>>
    PROVE  AccessInv'
<1>1. InputsOK' /\ UNCHANGED inputs
  BY DEF AccessInv, InputsOK, inputs
<1>2. FreshOK'
  BY <1>1, FreshKept DEF AccessInv, FreshOK
<1>3. TypeOK'
  BY DEF AccessInv, TypeOK, StepOK, OnlyOf
<1>4. ASSUME NEW x \in AccessRequest
      PROVE  /\ stage'[x] \in Simulating => SomeReading(x)'
             /\ x \notin moved' => PresentReading(x)' /\ Answered(x)'
  <2>1. CASE x = r
    BY <2>1 DEF StepOK
  <2>2. CASE x # r
    BY <1>1, <2>2, ReadingKept DEF StepOK, OnlyOf, AccessInv
  <2> QED
    BY <2>1, <2>2
<1> QED
  BY <1>1, <1>2, <1>3, <1>4 DEF AccessInv, StepOK

LEMMA StepCheck ==
    ASSUME AccessInv, NEW r \in AccessRequest, Check(r)
    PROVE  StepOK(r)
<1>1. PICK k \in Code, q \in Asked :
        /\ ask' = [ask EXCEPT ![r] = [code |-> k, quantity |-> q]]
        /\ \/ \E f \in Rows(k) :
                answer' = [answer EXCEPT ![r] =
                              Decide(snapshot[f], copied[f].meterType, q)]
           \/ answer' = [answer EXCEPT ![r] =
                             Denied("feature_not_included", Null)]
  BY DEF Check
<1>2. stage' = [stage EXCEPT ![r] = "checked"] /\ seen' = seen
  BY DEF Check, To
<1>3. PICK given \in Answer : answer' = [answer EXCEPT ![r] = given]
  <2>1. \A f \in Rows(k) : snapshot[f] \in Entitlement
    BY DEF Rows, AccessInv, TypeOK, Entitlements
  <2>2. \A f \in Rows(k) :
          Decide(snapshot[f], copied[f].meterType, q) \in Answer
    BY <2>1, DecideTyped
  <2>3. Denied("feature_not_included", Null) \in Answer
    BY DEF Denied, Answer, Reason, Limit
  <2> QED
    BY <1>1, <2>2, <2>3
<1>4. stage \in [AccessRequest -> Stages] /\ Functions
  BY DEF AccessInv, TypeOK
<1>5. stage'[r] = "checked" /\ answer'[r] \in Answer
  BY <1>1, <1>2, <1>3, <1>4 DEF Functions
<1>6. Functions' /\ OnlyOf(r) /\ stage' \in [AccessRequest -> Stages]
  BY <1>1, <1>2, <1>4 DEF Functions, OnlyOf
<1>7. seen'[r] # Null => seen'[r].sub.plan \in Plan
  BY <1>2 DEF AccessInv, TypeOK
<1> QED
  BY <1>5, <1>6, <1>7 DEF StepOK, PresentReading, Answered

LEMMA StepFind ==
    ASSUME AccessInv, NEW r \in AccessRequest, SimulateFind(r),
           UNCHANGED inputs
    PROVE  StepOK(r)
<1>1. PICK h \in Hypothesis : ask' = [ask EXCEPT ![r] = h]
  BY DEF SimulateFind
<1>2. stage \in [AccessRequest -> Stages] /\ Functions /\ InputsOK
  BY DEF AccessInv, TypeOK
<1>3. answer' = answer
  BY DEF SimulateFind
<1>4. seen[r] # Null => seen[r].sub.plan \in Plan
  BY DEF AccessInv, TypeOK
<1>5. CASE sub = Null
  <2>1. stage' = [stage EXCEPT ![r] = "rejected"] /\ seen' = seen
    BY <1>5 DEF SimulateFind, To
  <2>2. stage'[r] = "rejected" /\ OnlyOf(r) /\ Functions'
        /\ stage' \in [AccessRequest -> Stages]
    BY <1>1, <1>2, <1>3, <2>1 DEF Functions, OnlyOf
  <2> QED
    BY <1>4, <2>1, <2>2 DEF StepOK, PresentReading, Answered
<1>6. CASE sub # Null
  <2>1. /\ stage' = [stage EXCEPT ![r] = "planFeatures"]
        /\ seen' = [seen EXCEPT ![r] = [current |-> sub, sub |-> sub]]
    BY <1>6 DEF SimulateFind, To
  <2>2. /\ stage'[r] = "planFeatures" /\ ask'[r] = h
        /\ seen'[r] = [current |-> sub, sub |-> sub]
        /\ stage' \in [AccessRequest -> Stages]
    BY <1>1, <1>2, <2>1 DEF Functions
  <2>3. OnlyOf(r) /\ Functions'
    BY <1>1, <1>2, <1>3, <2>1 DEF Functions, OnlyOf
  <2>4. seen'[r].sub.plan \in Plan
    BY <1>2, <1>6, <2>2, PlanAssumption DEF InputsOK
  <2>5. \A c, d : Reads(r, sub, c, d)'
    BY <2>2 DEF Reads, inputs
  <2>6. SomeReading(r)'
    BY <1>2, <1>6, <2>5 DEF SomeReading, InputsOK, inputs
  <2>7. PresentReading(r)' /\ Answered(r)'
    BY <1>6, <2>2, <2>5 DEF PresentReading, Answered, inputs
  <2> QED
    BY <2>2, <2>3, <2>4, <2>6, <2>7 DEF StepOK
<1> QED
  BY <1>5, <1>6

LEMMA StepPlan ==
    ASSUME AccessInv, NEW r \in AccessRequest, SimulatePlan(r), UNCHANGED inputs
    PROVE  StepOK(r)
<1>1. /\ stage \in [AccessRequest -> Stages] /\ Functions /\ InputsOK
      /\ SomeReading(r) /\ stage[r] = "planFeatures"
  BY DEF AccessInv, TypeOK, SimulatePlan
<1>2. PICK s \in SubscriptionStates \ {Null} :
        /\ ask[r] \in Hypothesis /\ seen[r].current = s /\ seen[r].sub = s
  BY <1>1 DEF SomeReading, Reads
<1>3. PICK p : p = Supposed(ask[r], s).plan
  OBVIOUS
<1>4. Given(ask[r].plan, seen[r].sub.plan) = p
  BY <1>2, <1>3 DEF Given, Supposed
<1>5. PICK got : got = [current |-> s,
                        sub |-> [plan |-> p, addons |-> s.addons],
                        planFeatures |-> FeaturesOf(catalog, p)]
  OBVIOUS
<1>6. /\ seen' = [seen EXCEPT ![r] = got]
      /\ stage' = [stage EXCEPT ![r] = "addonFeatures"]
      /\ ask' = ask /\ answer' = answer
  BY <1>2, <1>4, <1>5 DEF SimulatePlan, To
<1>7. /\ stage'[r] = "addonFeatures" /\ ask'[r] = ask[r] /\ seen'[r] = got
      /\ stage' \in [AccessRequest -> Stages]
  BY <1>1, <1>6 DEF Functions
<1>8. OnlyOf(r) /\ Functions'
  BY <1>1, <1>6 DEF Functions, OnlyOf
<1>9. seen'[r].sub.plan \in Plan
  BY <1>2, <1>3, <1>5, <1>7, SupposedPlan
<1>10. \A d : Reads(r, s, catalog, d)'
  <2>1. FeaturesOf(catalog, p)' = FeaturesOf(catalog, p)
    BY DEF inputs, FeaturesOf
  <2> QED
    BY <1>2, <1>3, <1>5, <1>7, <2>1 DEF Reads, Supposed, inputs
<1>11. SomeReading(r)'
  BY <1>1, <1>10 DEF SomeReading, InputsOK, inputs
<1>12. r \notin moved => PresentReading(r)' /\ Answered(r)'
  <2> SUFFICES ASSUME r \notin moved
               PROVE  PresentReading(r)' /\ Answered(r)'
    OBVIOUS
  <2>1. sub # Null /\ s = sub
    BY <1>1, <1>2 DEF AccessInv, PresentReading, Reads
  <2> QED
    BY <1>7, <1>10, <2>1 DEF PresentReading, Answered, inputs
<1> QED
  BY <1>7, <1>8, <1>9, <1>11, <1>12 DEF StepOK

LEMMA StepAddons ==
    ASSUME AccessInv, NEW r \in AccessRequest, SimulateAddons(r),
           UNCHANGED inputs
    PROVE  StepOK(r)
<1>1. /\ stage \in [AccessRequest -> Stages] /\ Functions /\ InputsOK
      /\ SomeReading(r) /\ stage[r] = "addonFeatures"
  BY DEF AccessInv, TypeOK, SimulateAddons
<1>2. PICK s \in SubscriptionStates \ {Null}, c \in CatalogStates :
        /\ ask[r] \in Hypothesis /\ seen[r].current = s
        /\ seen[r].sub = [plan |-> Supposed(ask[r], s).plan,
                          addons |-> s.addons]
        /\ seen[r].planFeatures = FeaturesOf(c, Supposed(ask[r], s).plan)
  BY <1>1 DEF SomeReading, Reads
<1>3. PICK t : t = Supposed(ask[r], s)
  OBVIOUS
<1>4. [plan |-> seen[r].sub.plan,
       addons |-> Hypothetical(ask[r].addons, seen[r].sub.addons)] = t
  BY <1>2, <1>3 DEF Hypothetical, Supposed
<1>5. PICK got : got = [current |-> s, sub |-> t,
                        planFeatures |-> FeaturesOf(c, t.plan),
                        addonFeatures |-> AddonRowsFor(t, catalog)]
  OBVIOUS
<1>6. /\ seen' = [seen EXCEPT ![r] = got]
      /\ stage' = [stage EXCEPT ![r] = "overrides"]
      /\ ask' = ask /\ answer' = answer
  BY <1>2, <1>3, <1>4, <1>5 DEF SimulateAddons, To
<1>7. /\ stage'[r] = "overrides" /\ ask'[r] = ask[r] /\ seen'[r] = got
      /\ stage' \in [AccessRequest -> Stages]
  BY <1>1, <1>6 DEF Functions
<1>8. OnlyOf(r) /\ Functions'
  BY <1>1, <1>6 DEF Functions, OnlyOf
<1>9. seen'[r].sub.plan \in Plan
  BY <1>2, <1>3, <1>5, <1>7, SupposedPlan
<1>10. AddonRowsFor(t, catalog)' = AddonRowsFor(t, catalog)
  BY DEF inputs, AddonRowsFor
<1>11. Reads(r, s, c, catalog)'
  BY <1>2, <1>3, <1>5, <1>7, <1>10 DEF Reads, inputs
<1>12. SomeReading(r)'
  BY <1>1, <1>11 DEF SomeReading, InputsOK, inputs
<1>13. r \notin moved => PresentReading(r)' /\ Answered(r)'
  <2> SUFFICES ASSUME r \notin moved
               PROVE  PresentReading(r)' /\ Answered(r)'
    OBVIOUS
  <2>1. /\ sub # Null /\ s = sub
        /\ FeaturesOf(c, t.plan) = FeaturesOf(catalog, t.plan)
    BY <1>1, <1>2, <1>3 DEF AccessInv, PresentReading, Reads
  <2>2. FeaturesOf(catalog, t.plan)' = FeaturesOf(catalog, t.plan)
    BY DEF inputs, FeaturesOf
  <2>3. Reads(r, s, catalog, catalog)'
    BY <1>2, <1>3, <1>5, <1>7, <1>10, <2>1, <2>2 DEF Reads
  <2> QED
    BY <1>7, <2>1, <2>3 DEF PresentReading, Answered, inputs
<1> QED
  BY <1>7, <1>8, <1>9, <1>12, <1>13 DEF StepOK

LEMMA StepOverrides ==
    ASSUME AccessInv, NEW r \in AccessRequest, SimulateOverrides(r),
           UNCHANGED inputs
    PROVE  StepOK(r)
<1>1. /\ stage \in [AccessRequest -> Stages] /\ Functions /\ InputsOK
      /\ SomeReading(r) /\ stage[r] = "overrides"
  BY DEF AccessInv, TypeOK, SimulateOverrides
<1>2. PICK s \in SubscriptionStates \ {Null}, c, d \in CatalogStates :
        /\ ask[r] \in Hypothesis /\ seen[r].current = s
        /\ seen[r].sub = Supposed(ask[r], s)
        /\ seen[r].planFeatures = FeaturesOf(c, Supposed(ask[r], s).plan)
        /\ seen[r].addonFeatures = AddonRowsFor(Supposed(ask[r], s), d)
  BY <1>1 DEF SomeReading, Reads
<1>3. PICK used : used = Used(ask[r], overrides)
  OBVIOUS
<1>4. CASE \A o \in used : o.feature \in Feature
  <2>1. PICK given : given = Simulated(ask[r], s, c, d, overrides)
    OBVIOUS
  <2>2. given \in Entitlements
    BY <1>1, <1>2, <1>3, <1>4, <2>1, SimulatedTyped DEF InputsOK
  <2>3. Resolve(seen[r].sub, seen[r].planFeatures, seen[r].addonFeatures, used)
          = given
    BY <1>2, <1>3, <2>1 DEF Simulated
  <2>4. PICK got : got = [current |-> s, sub |-> Supposed(ask[r], s),
                          overrides |-> overrides, catalog |-> catalog]
    OBVIOUS
  <2>5. /\ answer' = [answer EXCEPT ![r] = [entitlements |-> given]]
        /\ seen' = [seen EXCEPT ![r] = got]
        /\ stage' = [stage EXCEPT ![r] = "simulated"]
        /\ ask' = ask
    BY <1>2, <1>3, <1>4, <2>3, <2>4 DEF SimulateOverrides, Used, To
  <2>6. /\ stage'[r] = "simulated" /\ ask'[r] = ask[r] /\ seen'[r] = got
        /\ answer'[r].entitlements = given
        /\ stage' \in [AccessRequest -> Stages]
    BY <1>1, <2>5 DEF Functions
  <2>7. OnlyOf(r) /\ Functions'
    BY <1>1, <2>5 DEF Functions, OnlyOf
  <2>8. seen'[r].sub.plan \in Plan
    BY <1>2, <2>4, <2>6, SupposedPlan
  <2>9. r \notin moved => Answered(r)'
    <3> SUFFICES ASSUME r \notin moved PROVE Answered(r)'
      OBVIOUS
    <3>1. /\ s = sub
          /\ FeaturesOf(c, Supposed(ask[r], s).plan)
               = FeaturesOf(catalog, Supposed(ask[r], s).plan)
          /\ AddonRowsFor(Supposed(ask[r], s), d)
               = AddonRowsFor(Supposed(ask[r], s), catalog)
      BY <1>1, <1>2 DEF AccessInv, PresentReading, Reads
    <3>2. given = Simulated(ask[r], s, catalog, catalog, overrides)
      BY <2>1, <3>1 DEF Simulated
    <3>3. Simulated(ask[r], seen[r].current, seen[r].catalog, seen[r].catalog,
                    seen[r].overrides)' = given
      BY <2>4, <2>6, <3>2
    <3> QED
      BY <2>6, <3>3 DEF Answered
  <2> QED
    BY <2>2, <2>6, <2>7, <2>8, <2>9 DEF StepOK, PresentReading
<1>5. CASE ~ \A o \in used : o.feature \in Feature
  <2>1. /\ stage' = [stage EXCEPT ![r] = "rejected"]
        /\ seen' = [seen EXCEPT ![r] = Null] /\ ask' = ask /\ answer' = answer
    BY <1>3, <1>5 DEF SimulateOverrides, Used, To
  <2>2. /\ stage'[r] = "rejected" /\ seen'[r] = Null
        /\ stage' \in [AccessRequest -> Stages] /\ OnlyOf(r) /\ Functions'
    BY <1>1, <2>1 DEF Functions, OnlyOf
  <2> QED
    BY <2>2 DEF StepOK, PresentReading, Answered
<1> QED
  BY <1>4, <1>5

LEMMA AccessInvNext == AccessInv /\ [AccessNext]_allVars => AccessInv'
<1> SUFFICES ASSUME AccessInv, [AccessNext]_allVars PROVE AccessInv'
  OBVIOUS
<1>1. ASSUME NEW r \in AccessRequest, AccessStep(r),
             UNCHANGED <<inputs, snapshot, running, dirty, overlapped, copied,
                         fresh, moved>>
      PROVE  AccessInv'
  <2>1. StepOK(r)
    BY <1>1, StepCheck, StepFind, StepPlan, StepAddons, StepOverrides
       DEF AccessStep
  <2> QED
    BY <1>1, <2>1, StepKeeps
<1>2. CASE UNCHANGED allVars
  <2>1. UNCHANGED inputs
    BY <1>2 DEF allVars, inputs
  <2>2. TypeOK' /\ InputsOK' /\ Functions'
    BY <1>2 DEF allVars, AccessInv, TypeOK, InputsOK, Functions
  <2>3. FreshOK'
    BY <1>2, <2>1, FreshKept DEF allVars, AccessInv, FreshOK
  <2> QED
    BY <1>2, <2>1, <2>2, <2>3, ReadingKept DEF allVars, AccessInv
<1> QED
  BY <1>1, <1>2, AccessInvChange, AccessInvRecalculation DEF AccessNext

-----------------------------------------------------------------------------
(* A simulation always knows the plan it asks for, and answers are complete. *)
THEOREM TypeCorrect == AccessSpec => []TypeOK
<1>1. AccessInv => TypeOK
  BY DEF AccessInv
<1> QED
  BY <1>1, AccessInvInit, AccessInvNext, PTL DEF AccessSpec

(* Whatever changes and recalculations come between, a simulation no change *)
(* ran into answers what a recalculation grants on the inputs it assumed.   *)
THEOREM Predicts == AccessSpec => []SimulationPredicts
<1>1. AccessInv => SimulationPredicts
  <2> SUFFICES ASSUME AccessInv, NEW r \in AccessRequest,
                      stage[r] = "simulated", r \notin moved, fresh,
                      Assumed(r) = [sub |-> sub, overrides |-> overrides,
                                    catalog |-> catalog]
               PROVE  answer[r].entitlements = snapshot
    BY DEF SimulationPredicts
  <2>1. /\ Supposed(ask[r], seen[r].current) = sub
        /\ Used(ask[r], seen[r].overrides) = overrides
        /\ seen[r].catalog = catalog
    BY DEF Assumed
  <2>2. sub # Null /\ snapshot = Entitled(sub, overrides, catalog)
    BY DEF AccessInv, FreshOK
  <2>3. FeaturesOf(catalog, sub.plan) = catalog.plan[sub.plan]
    BY <2>2, SubscriptionAssumption DEF AccessInv, InputsOK, FeaturesOf
  <2>4. answer[r].entitlements =
          Simulated(ask[r], seen[r].current, seen[r].catalog, seen[r].catalog,
                    seen[r].overrides)
    BY DEF AccessInv, Answered
  <2> QED
    BY <2>1, <2>2, <2>3, <2>4 DEF Simulated, Entitled
<1> QED
  BY <1>1, AccessInvInit, AccessInvNext, PTL DEF AccessSpec

-----------------------------------------------------------------------------
(* What a check on a fresh snapshot answers                                 *)

(* The rules grant q units of a feature by its entry e of the merge.        *)
GrantedBy(e, meterType, q) ==
    /\ e # Null
    /\ e.isEnabled
    /\ \/ meterType = "boolean"
       \/ e.effectiveLimit = Null
       \/ q <= e.effectiveLimit

LEMMA DecideGrants ==
    ASSUME NEW e \in Entitlement, NEW t, NEW q
    PROVE  Decide(e, t, q).allowed = GrantedBy(e, t, q)
<1>1. e # Null /\ e.isEnabled \in BOOLEAN
  BY NullAssumption DEF Entitlement
<1>2. CASE ~e.isEnabled
  BY <1>1, <1>2 DEF Decide, Denied, GrantedBy
<1>3. CASE e.isEnabled
  <2>1. Decide(e, t, q) =
          IF t = "boolean" THEN Allowed("feature_included", Null)
          ELSE IF e.effectiveLimit = Null \/ q <= e.effectiveLimit
          THEN Allowed("quota_available", e.effectiveLimit)
          ELSE Denied("quota_exceeded", e.effectiveLimit)
    BY <1>3 DEF Decide
  <2> QED
    BY <1>1, <1>3, <2>1 DEF Allowed, Denied, GrantedBy
<1> QED
  BY <1>1, <1>2, <1>3

(* The addon rows of a feature, each with its quantity, are the rows about  *)
(* the feature that the merge gets.                                         *)
LEMMA AddonRowsQuantified ==
    ASSUME InputsOK, sub # Null, NEW f \in Feature
    PROVE  /\ Subscribed(sub, AddonRows(f))
           /\ RowsAbout(Quantified(sub, AddonRowsFor(sub, catalog)), f)
                = Quantified(sub, AddonRows(f))
           /\ Limited(Quantified(sub, AddonRows(f))) <=> Limited(AddonRows(f))
           /\ Quantified(sub, AddonRows(f)) = {} <=> AddonRows(f) = {}
<1>1. Subscribed(sub, AddonRowsFor(sub, catalog))
  BY SubscriptionAssumption, AddonRowsSubscribed DEF InputsOK
<1>2. Subscribed(sub, AddonRows(f))
  <2>1. PICK A : A = AddonRowsFor(sub, catalog)
    OBVIOUS
  <2>2. PICK B : B = AddonRows(f) /\ B \subseteq A
    BY <2>1 DEF AddonRows
  <2>3. A \subseteq AddonTerms /\ IsFiniteSet(A)
    BY <1>1, <2>1 DEF Subscribed
  <2>4. IsFiniteSet(B)
    BY <2>2, <2>3, FS_Subset
  <2>5. \A af \in B : Quantity(sub, af) \in Nat \ {0}
    BY <1>1, <2>1, <2>2 DEF Subscribed
  <2> QED
    BY <2>2, <2>3, <2>4, <2>5 DEF Subscribed
<1>3. RowsAbout(Quantified(sub, AddonRowsFor(sub, catalog)), f)
        = Quantified(sub, AddonRows(f))
  BY DEF RowsAbout, Quantified, AddonRows, WithQuantity
<1>4. Limited(Quantified(sub, AddonRows(f))) <=> Limited(AddonRows(f))
  <2>1. \A af : WithQuantity(sub, af).includedLimit = af.includedLimit
    BY DEF WithQuantity
  <2> QED
    BY <2>1 DEF Limited, Quantified
<1>5. Quantified(sub, AddonRows(f)) = {} <=> AddonRows(f) = {}
  BY DEF Quantified
<1> QED
  BY <1>2, <1>3, <1>4, <1>5

(* The fold of PlannedCapacity, unfolded.                                   *)
LEMMA PlannedIs ==
    ASSUME NEW f
    PROVE  PlannedCapacity(f)
             = (IF PlanRow(f) = Null THEN 0 ELSE PlanRow(f).includedLimit)
                 + (CHOOSE g : CapacityRec(g, sub, AddonRows(f)))[AddonRows(f)]
<1>1. PICK A : A = AddonRows(f)
  OBVIOUS
<1>2. FoldSet(LAMBDA af, sum : af.includedLimit * Quantity(sub, af) + sum, 0, A)
        = (CHOOSE g : CapacityRec(g, sub, A))[A]
  BY Zenon DEF FoldSet, MapThenFoldSet, CapacityRec, AnyOf
<1> QED
  BY <1>1, <1>2, Zenon DEF PlannedCapacity

LEMMA PlannedIsSummed ==
    ASSUME InputsOK, sub # Null, NEW f \in Feature, ~Unlimited(f)
    PROVE  PlannedCapacity(f)
             = (IF PlanRow(f) = Null THEN 0 ELSE PlanRow(f).includedLimit)
                 + TotalOf(Quantified(sub, AddonRows(f)))
<1>1. Subscribed(sub, AddonRows(f)) /\ Limited(AddonRows(f))
  BY AddonRowsQuantified DEF Unlimited, Limited
<1>2. (CHOOSE g : CapacityRec(g, sub, AddonRows(f)))[AddonRows(f)]
        = TotalOf(Quantified(sub, AddonRows(f)))
  BY <1>1, RowsAddUp
<1> QED
  BY <1>2, PlannedIs

(* What the inputs grant of a feature is what its entry of the merge says.  *)
LEMMA GrantedIsMerged ==
    ASSUME InputsOK, sub # Null, NEW f \in Feature, NEW q
    PROVE  Granted(f, q) = GrantedBy(Entitled(sub, overrides, catalog)[f],
                                     catalog.feature[f].meterType, q)
<1>1. PICK pf : pf = catalog.plan[sub.plan] /\ pf \in PlanFeatures
  BY SubscriptionAssumption, PlanTyped DEF InputsOK
<1>2. PICK A : A = AddonRowsFor(sub, catalog) /\ Subscribed(sub, A)
  BY SubscriptionAssumption, AddonRowsSubscribed DEF InputsOK
<1>3. PICK R : /\ R = Quantified(sub, AddonRows(f))
               /\ R = RowsAbout(Quantified(sub, A), f)
  BY <1>2, AddonRowsQuantified
<1>4. PICK P : P = {o \in overrides : o.feature = f}
  OBVIOUS
<1>5. /\ P = RowsAbout(overrides, f)
      /\ \A o, p \in P : o = p
      /\ \A o \in P : o.isEnabled \in BOOLEAN
  <2>1. overrides \subseteq Override
        /\ \A x, y \in overrides : x.feature = y.feature => x = y
    BY OverrideAssumption DEF InputsOK
  <2> QED
    BY <1>4, <2>1 DEF RowsAbout, Override
<1>6. PICK e : e = Entitled(sub, overrides, catalog)[f]
  OBVIOUS
<1>7. RulesFor(e, pf[f], R, P)
  <2>1. /\ overrides \in SUBSET Override /\ IsFiniteSet(overrides)
        /\ OnePerFeature(overrides)
        /\ \A o \in overrides : IsOverrideActive(o, 0)
    BY OverrideAssumption DEF InputsOK, OnePerFeature
  <2>2. RulesFor(Resolve(sub, pf, A, overrides)[f], pf[f],
                 RowsAbout(Quantified(sub, A), f), RowsAbout(overrides, f))
    BY <1>1, <1>2, <2>1, ResolveFollowsRules
  <2> QED
    BY <1>1, <1>2, <1>3, <1>5, <1>6, <2>2 DEF Entitled
<1>8. PICK t : t = PlanRow(f) /\ t = pf[f]
  BY <1>1 DEF PlanRow
<1>9. PICK limits : limits = {o.limitOverride : o \in P} \ {Null}
  OBVIOUS
<1>10. PICK included \in BOOLEAN : included = (t # Null \/ AddonRows(f) # {})
  OBVIOUS
<1>11. included <=> t # Null \/ R # {}
  BY <1>3, <1>10, AddonRowsQuantified
<1>12. PICK l : l = SummedLimit(t, R)
  OBVIOUS
<1>13. ~included \/ Unlimited(f) => l = Null
  BY <1>3, <1>8, <1>11, <1>12, AddonRowsQuantified
     DEF SummedLimit, Unlimited, Limited
<1>14. included /\ ~Unlimited(f) => l # Null /\ l = PlannedCapacity(f)
  <2> SUFFICES ASSUME included, ~Unlimited(f)
               PROVE  l # Null /\ l = PlannedCapacity(f)
    OBVIOUS
  <2>1. PICK n : n = IF t = Null THEN 0 ELSE t.includedLimit
    OBVIOUS
  <2>2. t # Null => t.includedLimit # Null
    BY <1>8 DEF Unlimited
  <2>3. Limited(R)
    BY <1>3, AddonRowsQuantified DEF Unlimited, Limited
  <2>4. l = n + TotalOf(R)
    BY <1>11, <1>12, <2>1, <2>2, <2>3 DEF SummedLimit
  <2>5. n \in Nat
    BY <1>1, <1>8, <2>1, <2>2 DEF PlanFeatures, Terms, Limit
  <2>6. TotalOf(R) \in Nat
    <3>1. R \in SUBSET AddonFeature /\ IsFiniteSet(R)
      BY <1>3, AddonRowsQuantified, QuantifiedTyped
    <3> QED
      BY <2>3, <3>1, UnitsFinite
  <2>7. PlannedCapacity(f) = n + TotalOf(R)
    BY <1>3, <1>8, <2>1, PlannedIsSummed
  <2> QED
    BY <2>4, <2>5, <2>6, <2>7, NullAssumption
<1>15. PICK m : m = catalog.feature[f].meterType
  OBVIOUS
<1>16. Granted(f, q) <=>
         /\ included \/ P # {}
         /\ \A o \in P : o.isEnabled
         /\ \/ m = "boolean"
            \/ \E x \in limits : q <= x
            \/ limits = {} /\ (l = Null \/ q <= l)
  <2>1. Granted(f, q) <=>
          /\ included \/ P # {}
          /\ \A o \in P : o.isEnabled
          /\ \/ m = "boolean"
             \/ \E x \in limits : q <= x
             \/ limits = {} /\ (~included \/ Unlimited(f))
             \/ limits = {} /\ included /\ ~Unlimited(f)
                  /\ q <= PlannedCapacity(f)
    BY <1>4, <1>8, <1>9, <1>10, <1>15 DEF Granted
  <2> QED
    BY <1>13, <1>14, <2>1
<1>17. /\ e # Null <=> included \/ \E o \in P : o.isEnabled
       /\ e # Null =>
            /\ e.isEnabled <=> \A o \in P : o.isEnabled
            /\ \A o \in P : Replaces(o) => e.effectiveLimit = o.limitOverride
            /\ (\A o \in P : ~Replaces(o)) => e.effectiveLimit = l
  BY <1>7, <1>8, <1>11, <1>12 DEF RulesFor
<1>18. Granted(f, q) <=> GrantedBy(e, m, q)
  <2>1. CASE \E o \in P : ~o.isEnabled
    BY <1>16, <1>17, <2>1 DEF GrantedBy
  <2>2. CASE \A o \in P : o.isEnabled
    <3>1. e # Null <=> included \/ P # {}
      BY <1>17, <2>2
    <3>2. CASE limits = {}
      <4>1. \A o \in P : ~Replaces(o)
        BY <1>9, <3>2 DEF Replaces
      <4> QED
        BY <1>16, <1>17, <2>2, <3>1, <3>2, <4>1 DEF GrantedBy
    <3>3. CASE limits # {}
      <4>1. PICK o \in P : o.limitOverride # Null /\ limits = {o.limitOverride}
        BY <1>5, <1>9, <3>3
      <4>2. e # Null /\ e.isEnabled /\ e.effectiveLimit = o.limitOverride
        BY <1>17, <2>2, <3>1, <4>1 DEF Replaces
      <4> QED
        BY <1>16, <2>2, <4>1, <4>2 DEF GrantedBy
    <3> QED
      BY <3>2, <3>3
  <2> QED
    BY <2>1, <2>2
<1> QED
  BY <1>6, <1>15, <1>18 DEF Granted, GrantedBy

(* A step that moves the stage of the request x only.                       *)
OnlyAt(x) == \E s : stage' = [stage EXCEPT ![x] = s]

LEMMA FreshCheck ==
    ASSUME AccessInv, NEW r \in AccessRequest, Check(r), fresh
    PROVE  answer'[r].allowed = (sub # Null /\
               \E f \in Feature : /\ catalog.feature[f].code = ask'[r].code
                                  /\ Granted(f, ask'[r].quantity))
<1>1. PICK k \in Code, q \in Asked :
        /\ ask' = [ask EXCEPT ![r] = [code |-> k, quantity |-> q]]
        /\ \/ \E f \in Rows(k) :
                answer' = [answer EXCEPT ![r] =
                              Decide(snapshot[f], copied[f].meterType, q)]
           \/ /\ Rows(k) = {}
              /\ answer' = [answer EXCEPT ![r] =
                                Denied("feature_not_included", Null)]
  BY DEF Check
<1>2. ask'[r].code = k /\ ask'[r].quantity = q
  BY <1>1 DEF AccessInv, Functions
<1>3. /\ InputsOK /\ sub # Null /\ snapshot \in Entitlements
      /\ snapshot = Entitled(sub, overrides, catalog)
      /\ copied = PresentCopies(snapshot)
  BY DEF AccessInv, FreshOK, TypeOK
<1>4. \A f \in Feature : snapshot[f] # Null => copied[f] = catalog.feature[f]
  BY <1>3 DEF PresentCopies, Copies
<1>5. \A f, g \in Feature : catalog.feature[f].code = catalog.feature[g].code
                              => f = g
  BY <1>3, FeatureAssumption DEF InputsOK
<1>6. ASSUME NEW f \in Feature
      PROVE  Granted(f, q) = GrantedBy(snapshot[f], catalog.feature[f].meterType, q)
  BY <1>3, GrantedIsMerged
<1>7. CASE Rows(k) = {}
  <2>1. answer'[r].allowed = FALSE
    BY <1>1, <1>7 DEF AccessInv, Functions, Denied
  <2>2. ASSUME NEW f \in Feature, catalog.feature[f].code = k PROVE ~Granted(f, q)
    <3>1. snapshot[f] = Null
      BY <1>4, <1>7, <2>2 DEF Rows
    <3> QED
      BY <1>6, <3>1 DEF GrantedBy
  <2> QED
    BY <1>2, <2>1, <2>2
<1>8. ASSUME NEW f \in Rows(k),
             answer' = [answer EXCEPT ![r] =
                           Decide(snapshot[f], copied[f].meterType, q)]
      PROVE  answer'[r].allowed = \E g \in Feature :
               catalog.feature[g].code = k /\ Granted(g, q)
  <2>1. /\ f \in Feature /\ snapshot[f] \in Entitlement
        /\ copied[f] = catalog.feature[f] /\ catalog.feature[f].code = k
    BY <1>3, <1>4 DEF Rows, Entitlements
  <2>2. answer'[r] = Decide(snapshot[f], copied[f].meterType, q)
    BY <1>8 DEF AccessInv, Functions
  <2>3. answer'[r].allowed = Granted(f, q)
    BY <1>6, <2>1, <2>2, DecideGrants
  <2>4. (\E g \in Feature : catalog.feature[g].code = k /\ Granted(g, q))
          <=> Granted(f, q)
    BY <1>5, <2>1
  <2>5. Granted(f, q) \in BOOLEAN
    BY DEF Granted
  <2> QED
    BY <2>3, <2>4, <2>5
<1> QED
  BY <1>1, <1>2, <1>3, <1>7, <1>8

(* Whatever the inputs and however the rows got there, a check on a fresh   *)
(* snapshot grants what plan, addons and overrides grant of the feature     *)
(* that has the code now.                                                   *)
THEOREM ChecksRight == AccessSpec => FreshCheckIsRight
<1>1. AccessInv /\ [AccessNext]_allVars =>
        [\A r \in AccessRequest :
           stage[r] # "checked" /\ stage'[r] = "checked" /\ fresh =>
              answer'[r].allowed = (sub # Null /\
                  \E f \in Feature : /\ catalog.feature[f].code = ask'[r].code
                                     /\ Granted(f, ask'[r].quantity))]_allVars
  <2> SUFFICES ASSUME AccessInv, [AccessNext]_allVars, NEW r \in AccessRequest,
                      stage[r] # "checked", stage'[r] = "checked", fresh
               PROVE  answer'[r].allowed = (sub # Null /\
                        \E f \in Feature : /\ catalog.feature[f].code = ask'[r].code
                                           /\ Granted(f, ask'[r].quantity))
    OBVIOUS
  <2>1. Check(r)
    <3>1. stage' # stage
      OBVIOUS
    <3>2. PICK x \in AccessRequest : AccessStep(x)
      BY <3>1 DEF AccessNext, accessVars, allVars
    <3>3. OnlyAt(x)
      BY <3>2 DEF AccessStep, Check, SimulateFind, SimulatePlan, SimulateAddons,
         SimulateOverrides, OnlyAt, To
    <3>4. stage \in [AccessRequest -> Stages]
      BY DEF AccessInv, TypeOK
    <3>5. x = r
      BY <3>3, <3>4 DEF OnlyAt
    <3> QED
      BY <3>2, <3>4, <3>5 DEF AccessStep, SimulateFind, SimulatePlan,
         SimulateAddons, SimulateOverrides, To
  <2> QED
    BY <2>1, FreshCheck
<1> QED
  BY <1>1, AccessInvInit, AccessInvNext, PTL DEF AccessSpec, FreshCheckIsRight

(* No step replaces the snapshot of an organization without a subscription  *)
(* once running recalculations have ended.                                  *)
THEOREM Frozen == AccessSpec => FrozenWithoutSubscription
<1>1. [AccessNext]_allVars =>
        [sub = Null /\ running = {} =>
           UNCHANGED <<snapshot, copied>> /\ (sub' = Null => running' = {})]_allVars
  BY DEF AccessNext, allVars, Change, Begin, Replace, Abandon, End, AccessStep
<1> QED
  BY <1>1, PTL DEF AccessSpec, FrozenWithoutSubscription
=============================================================================
