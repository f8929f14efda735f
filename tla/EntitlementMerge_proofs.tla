------------------------ MODULE EntitlementMerge_proofs ------------------------
(****************************************************************************)
(* The loops of merge() for any number of rows in any order.  At every      *)
(* point the map is the merge of the rows met so far; what that merge is,   *)
(* EntitlementResolver_proofs shows without a loop.                         *)
(****************************************************************************)
EXTENDS EntitlementMerge, EntitlementResolver_proofs

Met(in, rest) == in.addonFeatures \ rest
Applied(in, rest) == Active(in) \ rest

MergeInv ==
    /\ TypeOK
    /\ input \in Inputs
    /\ toAdd \subseteq input.addonFeatures
    /\ toOverride \subseteq Active(input)
    /\ toAdd # {} => toOverride = Active(input)
    /\ map = Decided(Added(FromPlan(input.planFeatures), Met(input, toAdd)),
                     Applied(input, toOverride))

LEMMA InputTyped ==
    ASSUME NEW in \in Inputs
    PROVE  /\ in.planFeatures \in PlanFeatures
           /\ in.addonFeatures \in SUBSET AddonFeature
           /\ IsFiniteSet(in.addonFeatures)
           /\ in.overrides \in SUBSET Override
           /\ IsFiniteSet(in.overrides)
           /\ OnePerFeature(in.overrides)
           /\ Active(in) \in SUBSET in.overrides
           /\ Active(in) = InForce(in.overrides, in.now)
           /\ OnePerFeature(Active(in))
  BY InputsAssumption DEF Input, Active, InForce, OnePerFeature

LEMMA MergeInvInit == Init => MergeInv
<1> SUFFICES ASSUME Init PROVE MergeInv
  OBVIOUS
<1>1. PICK m : m = FromPlan(input.planFeatures) /\ m \in Entitlements
  BY InputTyped, FromPlanTyped DEF Init
<1>2. Met(input, toAdd) = {} /\ Applied(input, toOverride) = {}
  BY DEF Init, Met, Applied
<1>3. Decided(Added(m, {}), {}) = m
  BY <1>1, AddedNone, DecidedNone
<1> QED
  BY <1>1, <1>2, <1>3, InputTyped DEF Init, MergeInv, TypeOK

LEMMA MergeInvAddon ==
    ASSUME MergeInv, NEW af \in toAdd, MergeAddon(af)
    PROVE  MergeInv'
<1>1. /\ af \in AddonFeature /\ af \in input.addonFeatures
      /\ input \in Inputs /\ toAdd \subseteq input.addonFeatures
      /\ toOverride = Active(input)
  BY DEF MergeInv, TypeOK
<1>2. PICK m : m = FromPlan(input.planFeatures) /\ m \in Entitlements
  BY <1>1, InputTyped, FromPlanTyped
<1>3. PICK R : R = Met(input, toAdd)
  OBVIOUS
<1>4. /\ R \in SUBSET AddonFeature /\ IsFiniteSet(R) /\ af \notin R
      /\ Met(input, toAdd') = R \cup {af}
  <2>1. R \in SUBSET input.addonFeatures
    BY <1>3 DEF Met
  <2>2. IsFiniteSet(R)
    BY <1>1, <2>1, InputTyped, FS_Subset
  <2> QED
    BY <1>1, <1>3, <2>1, <2>2, InputTyped DEF Met, MergeAddon
<1>5. Applied(input, toOverride) = {}
  BY <1>1 DEF Applied
<1>6. /\ Added(m, R) \in Entitlements /\ Added(m, R \cup {af}) \in Entitlements
      /\ Added(m, R \cup {af}) = AddonStep(Added(m, R), af)
  <2>1. Added(m, R) \in Entitlements
    BY <1>2, <1>4, AddedTyped
  <2>2. Added(m, R \cup {af}) = AddonStep(Added(m, R), af)
    BY <1>1, <1>2, <1>4, AddedOneMore
  <2> QED
    BY <1>1, <2>1, <2>2, AddonStepTyped
<1>7. map = Added(m, R)
  BY <1>2, <1>3, <1>5, <1>6, DecidedNone DEF MergeInv
<1>8. map' = Decided(Added(m, R \cup {af}), {})
  BY <1>6, <1>7, DecidedNone DEF MergeAddon
<1>9. map' \in Entitlements
  BY <1>6, <1>7 DEF MergeAddon
<1>10. map' = Decided(Added(FromPlan(input'.planFeatures), Met(input', toAdd')),
                      Applied(input', toOverride'))
  BY <1>2, <1>4, <1>5, <1>8 DEF MergeAddon
<1> QED
  BY <1>1, <1>9, <1>10 DEF MergeAddon, MergeInv, TypeOK, Active

LEMMA MergeInvOverride ==
    ASSUME MergeInv, NEW o \in toOverride, MergeOverride(o)
    PROVE  MergeInv'
<1>1. /\ o \in Override /\ o \in Active(input)
      /\ input \in Inputs /\ toOverride \subseteq Active(input)
      /\ toAdd = {}
  BY DEF MergeInv, TypeOK, MergeOverride
<1>2. PICK m : /\ m = Added(FromPlan(input.planFeatures), Met(input, toAdd))
              /\ m \in Entitlements
  <2>1. /\ Met(input, toAdd) \in SUBSET AddonFeature
        /\ IsFiniteSet(Met(input, toAdd))
    BY <1>1, InputTyped DEF Met
  <2> QED
    BY <1>1, <2>1, InputTyped, FromPlanTyped, AddedTyped
<1>3. PICK P : P = Applied(input, toOverride)
  OBVIOUS
<1>4. /\ P \in SUBSET Override /\ \A p \in P : p.feature # o.feature
      /\ Applied(input, toOverride') = P \cup {o}
  <2>1. P \in SUBSET Active(input) /\ o \notin P
    BY <1>3 DEF Applied
  <2>2. Active(input) \in SUBSET Override /\ OnePerFeature(Active(input))
    BY <1>1, InputTyped
  <2>3. \A p \in P : p.feature # o.feature
    BY <1>1, <2>1, <2>2 DEF OnePerFeature
  <2> QED
    BY <1>1, <1>3, <2>1, <2>2, <2>3 DEF Applied, MergeOverride
<1>5. map = Decided(m, P)
  BY <1>2, <1>3 DEF MergeInv
<1>6. map' = Decided(m, P \cup {o})
  BY <1>1, <1>2, <1>4, <1>5, DecidedOneMore DEF MergeOverride
<1>7. map' \in Entitlements
  BY <1>1, OverrideStepTyped DEF MergeOverride, MergeInv, TypeOK
<1>8. map' = Decided(Added(FromPlan(input'.planFeatures), Met(input', toAdd')),
                     Applied(input', toOverride'))
  BY <1>2, <1>4, <1>6 DEF MergeOverride
<1> QED
  BY <1>1, <1>7, <1>8 DEF MergeOverride, MergeInv, TypeOK, Active

LEMMA MergeInvNext == MergeInv /\ [Next]_vars => MergeInv'
<1>1. MergeInv /\ UNCHANGED vars => MergeInv'
  BY DEF vars, MergeInv, TypeOK, Active, Met, Applied
<1> QED
  BY <1>1, MergeInvAddon, MergeInvOverride DEF Next

(* Every entry merge() makes is complete, whatever rows it meets.           *)
THEOREM TypeCorrect == Spec => []TypeOK
<1>1. MergeInv => TypeOK
  BY DEF MergeInv
<1> QED
  BY <1>1, MergeInvInit, MergeInvNext, PTL DEF Spec

(* No row makes merge() drop an entry or take back a permissive policy.     *)
THEOREM PolicyWidens == Spec => PolicyOnlyWidens
<1>1. MergeInv /\ [Next]_vars =>
        [\A f \in Feature : map[f] # Null =>
           /\ map'[f] # Null
           /\ OVERAGE_POLICY_RANK[map'[f].overagePolicy]
                >= OVERAGE_POLICY_RANK[map[f].overagePolicy]]_vars
  <2> SUFFICES ASSUME MergeInv, Next, NEW f \in Feature, map[f] # Null
               PROVE  /\ map'[f] # Null
                      /\ OVERAGE_POLICY_RANK[map'[f].overagePolicy]
                           >= OVERAGE_POLICY_RANK[map[f].overagePolicy]
    OBVIOUS
  <2>1. PICK e \in Entitlement : e = map[f]
    BY DEF MergeInv, TypeOK, Entitlements
  <2>2. OVERAGE_POLICY_RANK[e.overagePolicy] \in Nat
    BY DEF Entitlement, OveragePolicy, OVERAGE_POLICY_RANK
  <2>3. ASSUME NEW af \in toAdd, MergeAddon(af)
        PROVE  map'[f] = e \/ map'[f] = Extended(e, af)
    BY <2>1, <2>3 DEF MergeAddon, AddonStep, MergeInv, TypeOK, Entitlements
  <2>4. ASSUME NEW o \in toOverride, MergeOverride(o)
        PROVE  map'[f] = e \/ map'[f] = Overridden(e, o)
    BY <2>1, <2>4 DEF MergeOverride, OverrideStep, MergeInv, TypeOK, Entitlements
  <2>5. ASSUME NEW af \in toAdd
        PROVE  /\ Extended(e, af) \in Entitlement
               /\ OVERAGE_POLICY_RANK[Extended(e, af).overagePolicy]
                    >= OVERAGE_POLICY_RANK[e.overagePolicy]
    BY ExtendedTyped DEF MergeInv, TypeOK
  <2>6. ASSUME NEW o \in toOverride
        PROVE  /\ Overridden(e, o) \in Entitlement
               /\ Overridden(e, o).overagePolicy = e.overagePolicy
    BY OverriddenTyped DEF MergeInv, TypeOK, Overridden
  <2>7. \A x \in Entitlement : x # Null
    BY NullAssumption
  <2> QED
    BY <2>1, <2>2, <2>3, <2>4, <2>5, <2>6, <2>7 DEF Next
<1> QED
  BY <1>1, MergeInvInit, MergeInvNext, PTL DEF Spec, PolicyOnlyWidens

-----------------------------------------------------------------------------
(* The loops against the folds, and against the rules                       *)

LEMMA WhenDone ==
    ASSUME MergeInv, Done
    PROVE  map = Decided(Added(FromPlan(input.planFeatures), input.addonFeatures),
                         Active(input))
<1>1. Met(input, toAdd) = input.addonFeatures /\ Applied(input, toOverride) = Active(input)
  BY DEF Done, Met, Applied
<1> QED
  BY <1>1 DEF MergeInv

(* For any rows in any order, the loops leave the map that Merge, the fold  *)
(* the other modules use, computes of them.                                 *)
THEOREM LoopsAreTheFold == Spec => []MergeIsTheFold
<1>1. MergeInv => MergeIsTheFold
  <2> SUFFICES ASSUME MergeInv, Done
               PROVE  map = Merge(input.planFeatures,
                                  SetToSeq(input.addonFeatures),
                                  SetToSeq(input.overrides), input.now)
    BY DEF MergeIsTheFold
  <2>1. PICK pf, A, P : /\ pf = input.planFeatures /\ A = input.addonFeatures
                        /\ P = input.overrides
    OBVIOUS
  <2>2. /\ pf \in PlanFeatures
        /\ A \in SUBSET AddonFeature /\ IsFiniteSet(A)
        /\ P \in SUBSET Override /\ IsFiniteSet(P) /\ OnePerFeature(P)
        /\ Active(input) = InForce(P, input.now)
    BY <2>1, InputTyped DEF MergeInv
  <2>3. Enumerates(SetToSeq(A), A) /\ Enumerates(SetToSeq(P), P)
    BY <2>2, SetToSeqEnumerates
  <2>4. Merge(pf, SetToSeq(A), SetToSeq(P), input.now)
          = Decided(Added(FromPlan(pf), A), InForce(P, input.now))
    BY <2>2, <2>3, MergeComputes
  <2> QED
    BY <2>1, <2>2, <2>4, WhenDone
<1> QED
  BY <1>1, MergeInvInit, MergeInvNext, PTL DEF Spec

LEMMA ExpectedPolicyIs ==
    ASSUME NEW in \in Inputs, NEW f \in Feature
    PROVE  ExpectedPolicy(in, f)
             = Widest(PoliciesOf(RowsAbout(in.addonFeatures, f))
                      \cup PlanPolicies(in.planFeatures[f]))
<1> DEFINE given == {s.overagePolicy : s \in Terms0(in, f) \cup Grants(in, f)}
<1>1. given = PoliciesOf(RowsAbout(in.addonFeatures, f))
                \cup PlanPolicies(in.planFeatures[f])
  BY DEF Terms0, Grants, PoliciesOf, RowsAbout, PlanPolicies
<1>2. given \in SUBSET OveragePolicy
  <2>1. \A s \in Terms0(in, f) \cup Grants(in, f) : s.overagePolicy \in OveragePolicy
    BY InputTyped DEF Terms0, Grants, PlanFeatures, Terms, AddonFeature
  <2> QED
    BY <2>1
<1>3. ExpectedPolicy(in, f)
        = CHOOSE p \in given \cup {"deny"} : \A q \in given :
            OVERAGE_POLICY_RANK[q] <= OVERAGE_POLICY_RANK[p]
  BY DEF ExpectedPolicy
<1> HIDE DEF given
<1> QED
  BY <1>1, <1>2, <1>3, WidestIsMaximum

LEMMA ExpectedLimitIs ==
    ASSUME NEW in \in Inputs, NEW f \in Feature
    PROVE  /\ \A o \in OverridesOf(in, f) :
                Replaces(o) => ExpectedLimit(in, f) = o.limitOverride
           /\ (\A o \in OverridesOf(in, f) : ~Replaces(o)) =>
                ExpectedLimit(in, f)
                  = SummedLimit(in.planFeatures[f], RowsAbout(in.addonFeatures, f))
<1>1. PICK t, R, P : /\ t = in.planFeatures[f] /\ R = Grants(in, f)
                     /\ P = OverridesOf(in, f)
  OBVIOUS
<1>2. /\ t \in Terms \cup {Null}
      /\ R = RowsAbout(in.addonFeatures, f)
      /\ R \in SUBSET AddonFeature /\ IsFiniteSet(R)
      /\ \A o, p \in P : o = p
  <2>1. t \in Terms \cup {Null}
    BY <1>1, InputTyped DEF PlanFeatures
  <2>2. R = RowsAbout(in.addonFeatures, f)
    BY <1>1 DEF Grants, RowsAbout
  <2>3. R \in SUBSET AddonFeature /\ IsFiniteSet(R)
    BY <2>2, InputTyped, RowsFinite
  <2>4. \A o, p \in P : o = p
    BY <1>1, InputTyped DEF OverridesOf, OnePerFeature
  <2> QED
    BY <2>1, <2>2, <2>3, <2>4
<1> DEFINE replaced == {o \in P : o.isEnabled /\ o.limitOverride # Null}
           sources == Terms0(in, f) \cup R
           summed == IF sources = {} \/ \E s \in sources : s.includedLimit = Null
                     THEN Null
                     ELSE SumSet({0} \cup {s.includedLimit : s \in Terms0(in, f)})
                            + MapThenSumSet(Capacity, R)
<1>3. ExpectedLimit(in, f) = IF replaced # {}
                             THEN (CHOOSE o \in replaced : TRUE).limitOverride
                             ELSE summed
  BY <1>1 DEF ExpectedLimit
<1>4. summed = SummedLimit(t, R)
  <2>1. Terms0(in, f) = IF t = Null THEN {} ELSE {t}
    BY <1>1 DEF Terms0
  <2>2. CASE sources = {} \/ \E s \in sources : s.includedLimit = Null
    BY <2>1, <2>2 DEF SummedLimit, Limited
  <2>3. CASE ~ (sources = {} \/ \E s \in sources : s.includedLimit = Null)
    <3>1. Limited(R)
      BY <2>3 DEF Limited
    <3>2. MapThenSumSet(Capacity, R) = TotalOf(R)
      BY <1>2, <3>1, CapacitiesAddUp
    <3>3. SumSet({0} \cup {s.includedLimit : s \in Terms0(in, f)})
            = IF t = Null THEN 0 ELSE t.includedLimit
      <4>1. CASE t = Null
        <5>1. {0} \cup {s.includedLimit : s \in Terms0(in, f)} = {0}
          BY <2>1, <4>1
        <5> QED
          BY <4>1, <5>1, ZeroAlone
      <4>2. CASE t # Null
        <5>1. PICK k \in Nat : k = t.includedLimit
          BY <1>2, <2>1, <2>3, <4>2 DEF Terms, Limit
        <5>2. {0} \cup {s.includedLimit : s \in Terms0(in, f)} = {0} \cup {k}
          BY <2>1, <4>2, <5>1
        <5> QED
          BY <4>2, <5>1, <5>2, LimitBesideZero
      <4> QED
        BY <4>1, <4>2
    <3>4. SummedLimit(t, R) = (IF t = Null THEN 0 ELSE t.includedLimit) + TotalOf(R)
      BY <2>1, <2>3, <3>1 DEF SummedLimit
    <3> QED
      BY <2>3, <3>2, <3>3, <3>4
  <2> QED
    BY <2>2, <2>3
<1>5. ASSUME NEW o \in P, Replaces(o)
      PROVE  ExpectedLimit(in, f) = o.limitOverride
  <2>1. replaced = {o}
    BY <1>2, <1>5 DEF Replaces
  <2>2. (CHOOSE p \in {o} : TRUE) = o
    OBVIOUS
  <2> HIDE DEF replaced, summed
  <2> QED
    BY <1>3, <2>1, <2>2
<1>6. (\A o \in P : ~Replaces(o)) => replaced = {}
  BY DEF Replaces
<1> HIDE DEF replaced, summed
<1> QED
  BY <1>1, <1>2, <1>3, <1>4, <1>5, <1>6

(* For any rows in any order, what merge() leaves is what the documented    *)
(* rules say: entitled or not, enabled or not, the limit and the policy.    *)
THEOREM RulesFollowed == Spec => []MergeGivesDocumentedRules
<1>1. MergeInv => MergeGivesDocumentedRules
  <2> SUFFICES ASSUME MergeInv, Done, NEW f \in Feature
               PROVE  IF Granted(input, f)
                      THEN /\ map[f] # Null
                           /\ map[f].effectiveLimit = ExpectedLimit(input, f)
                           /\ map[f].overagePolicy = ExpectedPolicy(input, f)
                           /\ map[f].isEnabled
                                = \A o \in OverridesOf(input, f) : o.isEnabled
                      ELSE map[f] = Null
    BY DEF MergeGivesDocumentedRules
  <2>1. input \in Inputs /\ map \in Entitlements
    BY DEF MergeInv, TypeOK
  <2>2. PICK t, R, P : /\ t = input.planFeatures[f] /\ P = OverridesOf(input, f)
                       /\ R = RowsAbout(input.addonFeatures, f)
    OBVIOUS
  <2>3. RulesFor(map[f], t, R, P)
    <3>1. RulesFor(Decided(Added(FromPlan(input.planFeatures),
                                 input.addonFeatures), Active(input))[f],
                   input.planFeatures[f], RowsAbout(input.addonFeatures, f),
                   RowsAbout(Active(input), f))
      BY <2>1, InputTyped, MergeFollowsRules
    <3>2. RowsAbout(Active(input), f) = P
      BY <2>2 DEF RowsAbout, OverridesOf
    <3> QED
      BY <2>2, <3>1, <3>2, WhenDone
  <2>4. Granted(input, f) <=> t # Null \/ R # {} \/ \E o \in P : o.isEnabled
    BY <2>2 DEF Granted, Terms0, Grants, RowsAbout
  <2>5. ASSUME map[f] # Null
        PROVE  /\ map[f].effectiveLimit = ExpectedLimit(input, f)
               /\ map[f].overagePolicy = ExpectedPolicy(input, f)
               /\ map[f].isEnabled
                    = \A o \in OverridesOf(input, f) : o.isEnabled
    <3>1. map[f].overagePolicy = ExpectedPolicy(input, f)
      BY <2>1, <2>2, <2>3, <2>5, ExpectedPolicyIs DEF RulesFor
    <3>2. map[f].effectiveLimit = ExpectedLimit(input, f)
      BY <2>1, <2>2, <2>3, <2>5, ExpectedLimitIs DEF RulesFor
    <3>3. map[f].isEnabled \in BOOLEAN
      BY <2>1, <2>5 DEF Entitlements, Entitlement
    <3> QED
      BY <2>2, <2>3, <2>5, <3>1, <3>2, <3>3 DEF RulesFor
  <2> QED
    BY <2>3, <2>4, <2>5 DEF RulesFor
<1> QED
  BY <1>1, MergeInvInit, MergeInvNext, PTL DEF Spec

-----------------------------------------------------------------------------
(* The source of an entitlement                                             *)

(* The source of the closed form, for plan terms t, addon rows R and        *)
(* overrides in force P of one feature.                                     *)
LEMMA SourceIs ==
    ASSUME NEW t \in Terms \cup {Null},
           NEW R \in SUBSET AddonFeature, IsFiniteSet(R),
           NEW P \in SUBSET Override, \A o, p \in P : o = p,
           NEW e, e = DecidedEntry(AddedEntry(PlanEntry(t), R), P), e # Null
    PROVE  /\ (e.sourceType = "plan") <=> (t # Null /\ R = {} /\ P = {})
           /\ (e.sourceType = "addon")
                <=> (t = Null /\ P = {} /\ \E af \in R : R = {af})
           /\ (e.sourceType = "override") <=> (t = Null /\ R = {} /\ P # {})
<1>1. PICK b : b = AddedEntry(PlanEntry(t), R)
  OBVIOUS
<1>2. b = Null <=> t = Null /\ R = {}
  BY <1>1, AddedEntryIs
<1>3. ASSUME b # Null
      PROVE  b.sourceType = IF t # Null /\ R = {} THEN "plan"
                            ELSE IF t = Null /\ \E af \in R : R = {af} THEN "addon"
                            ELSE "mixed"
  <2>1. CASE R = {}
    BY <1>1, <1>2, <1>3, <2>1 DEF AddedEntry, PlanEntry
  <2>2. CASE R # {}
    <3>1. b.sourceType = IF PlanEntry(t) = Null /\ \E af \in R : R = {af}
                         THEN "addon" ELSE "mixed"
      BY <1>1, <2>2 DEF AddedEntry
    <3>2. PlanEntry(t) = Null <=> t = Null
      BY PlanEntryTyped, NullAssumption DEF PlanEntry
    <3> QED
      BY <2>2, <3>1, <3>2
  <2> QED
    BY <2>1, <2>2
<1>4. CASE P = {}
  <2>1. e = b
    BY <1>1, <1>4 DEF DecidedEntry
  <2> QED
    BY <1>2, <1>3, <1>4, <2>1
<1>5. CASE P # {}
  <2>1. PICK o \in P : P = {o}
    BY <1>5
  <2>2. (CHOOSE p \in {o} : TRUE) = o
    OBVIOUS
  <2>3. e = IF b # Null THEN Overridden(b, o)
            ELSE IF o.isEnabled THEN FromOverride(o) ELSE Null
    BY <1>1, <2>1, <2>2 DEF DecidedEntry
  <2>4. e.sourceType = IF b # Null THEN "mixed" ELSE "override"
    BY <2>3 DEF Overridden, FromOverride
  <2> QED
    BY <1>2, <1>5, <2>4
<1> QED
  BY <1>4, <1>5

(* What merge() leaves as sourceType: plan, addon or override exactly when  *)
(* one row of that kind and no other row in force concerns the feature,     *)
(* else mixed.  This is what the code does (entitlement-resolver.service.ts *)
(* :158 sets mixed for a second addon, too), not what is documented:        *)
(* entitlement-source-type.enum.ts:9 has "one or more addons" under addon.  *)
SourceNamesTheOnlyRow ==
    Done => \A f \in Feature : map[f] # Null =>
        LET plan == Terms0(input, f)
            addons == Grants(input, f)
            overrides == OverridesOf(input, f)
        IN /\ (map[f].sourceType = "plan")
                <=> (plan # {} /\ addons = {} /\ overrides = {})
           /\ (map[f].sourceType = "addon")
                <=> (plan = {} /\ overrides = {} /\ \E af \in addons : addons = {af})
           /\ (map[f].sourceType = "override")
                <=> (plan = {} /\ addons = {} /\ overrides # {})

(* In every order of the rows merge() meets them, the source it leaves is   *)
(* the code's rule above: mixed as soon as a second row of any kind counts. *)
THEOREM SourceNamed == Spec => []SourceNamesTheOnlyRow
<1>1. MergeInv => SourceNamesTheOnlyRow
  <2> SUFFICES ASSUME MergeInv, Done, NEW f \in Feature, map[f] # Null
               PROVE  /\ (map[f].sourceType = "plan")
                           <=> (/\ Terms0(input, f) # {} /\ Grants(input, f) = {}
                                /\ OverridesOf(input, f) = {})
                      /\ (map[f].sourceType = "addon")
                           <=> (/\ Terms0(input, f) = {} /\ OverridesOf(input, f) = {}
                                /\ \E af \in Grants(input, f) : Grants(input, f) = {af})
                      /\ (map[f].sourceType = "override")
                           <=> (/\ Terms0(input, f) = {} /\ Grants(input, f) = {}
                                /\ OverridesOf(input, f) # {})
    BY DEF SourceNamesTheOnlyRow
  <2>1. PICK t, R, P : /\ t = input.planFeatures[f]
                       /\ R = Grants(input, f) /\ P = OverridesOf(input, f)
    OBVIOUS
  <2>2. input \in Inputs
    BY DEF MergeInv
  <2>3. /\ t \in Terms \cup {Null}
        /\ R \in SUBSET AddonFeature /\ IsFiniteSet(R)
        /\ P \in SUBSET Override /\ \A o, p \in P : o = p
    <3>1. t \in Terms \cup {Null}
      BY <2>1, <2>2, InputTyped DEF PlanFeatures
    <3>2. R \in SUBSET AddonFeature /\ IsFiniteSet(R)
      <4>1. R = RowsAbout(input.addonFeatures, f)
        BY <2>1 DEF Grants, RowsAbout
      <4> QED
        BY <2>2, <4>1, InputTyped, RowsFinite
    <3>3. P \in SUBSET Override /\ \A o, p \in P : o = p
      BY <2>1, <2>2, InputTyped DEF OverridesOf, OnePerFeature
    <3> QED
      BY <3>1, <3>2, <3>3
  <2>4. map[f] = DecidedEntry(AddedEntry(PlanEntry(t), R), P)
    <3>1. map[f] = DecidedEntry(AddedEntry(FromPlan(input.planFeatures)[f],
                                           RowsAbout(input.addonFeatures, f)),
                                RowsAbout(Active(input), f))
      BY WhenDone DEF Decided, Added
    <3>2. FromPlan(input.planFeatures)[f] = PlanEntry(t)
      BY <2>1, <2>2, InputTyped DEF FromPlan, PlanEntry, PlanFeatures
    <3>3. /\ RowsAbout(input.addonFeatures, f) = R
          /\ RowsAbout(Active(input), f) = P
      BY <2>1 DEF RowsAbout, Grants, OverridesOf
    <3> QED
      BY <3>1, <3>2, <3>3
  <2>5. t = Null <=> Terms0(input, f) = {}
    BY <2>1 DEF Terms0
  <2> QED
    BY <2>1, <2>3, <2>4, <2>5, SourceIs
<1> QED
  BY <1>1, MergeInvInit, MergeInvNext, PTL DEF Spec
=============================================================================
