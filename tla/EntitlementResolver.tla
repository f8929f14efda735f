-------------------------- MODULE EntitlementResolver --------------------------
(****************************************************************************)
(* The merge rules of EntitlementResolverService, as operators.  They keep  *)
(* one entry per feature, a map from Feature to entitlement or Null (the    *)
(* feature is not in the JavaScript Map), and three kinds of input: the     *)
(* features of the plan, the features of the subscribed addons, and the     *)
(* overrides of the organization.  Names, codes and meter types are copied  *)
(* from the feature row and left out here.                                  *)
(****************************************************************************)
EXTENDS Integers, SequencesExt

CONSTANTS
    Feature,
    Addon,
    Null      \* null: no limit, no date, or no entry

OveragePolicy == {"deny", "soft_limit", "allow_and_flag"}
SourceType == {"plan", "addon", "override", "mixed"}
Limit == Nat \cup {Null}

Terms == [includedLimit : Limit, overagePolicy : OveragePolicy]
Entitlement == [isEnabled : BOOLEAN, effectiveLimit : Limit,
                overagePolicy : OveragePolicy, sourceType : SourceType]
Entitlements == [Feature -> Entitlement \cup {Null}]

ASSUME NullAssumption == Null \notin Int /\ Null \notin Entitlement

(* Rows as the resolver receives them.  A plan has at most one row per      *)
(* feature, an organization at most one override per feature; a row of an   *)
(* addon gets the quantity of its addon on the subscription.                *)
PlanFeatures == [Feature -> Terms \cup {Null}]
AddonTerms == [addon : Addon, feature : Feature, includedLimit : Limit,
               overagePolicy : OveragePolicy]
AddonFeature == [addon : Addon, feature : Feature, includedLimit : Limit,
                 overagePolicy : OveragePolicy, quantity : Nat \ {0}]
Override == [feature : Feature, isEnabled : BOOLEAN, limitOverride : Limit,
             startsAt : Nat \cup {Null}, endsAt : Nat \cup {Null}]

-----------------------------------------------------------------------------
OVERAGE_POLICY_RANK == [deny |-> 0, soft_limit |-> 1, allow_and_flag |-> 2]

(* Mutant: the ranks compared the other way round.                          *)
MorePermissive_reversed(a, b) ==
    IF OVERAGE_POLICY_RANK[a] <= OVERAGE_POLICY_RANK[b] THEN a ELSE b

MorePermissive(a, b) ==
    IF OVERAGE_POLICY_RANK[a] >= OVERAGE_POLICY_RANK[b] THEN a ELSE b

(* Step 1: the features of the plan.                                        *)
FromPlan(planFeatures) ==
    [f \in Feature |->
        IF planFeatures[f] = Null THEN Null
        ELSE [isEnabled |-> TRUE,
              effectiveLimit |-> planFeatures[f].includedLimit,
              overagePolicy |-> planFeatures[f].overagePolicy,
              sourceType |-> "plan"]]

(* Step 2: one addon feature.                                               *)
Capacity(af) ==
    IF af.includedLimit = Null THEN Null ELSE af.includedLimit * af.quantity

(* Mutant: a limit beside no limit counts as the limit.                     *)
AddLimit_nullIsZero(a, b) ==
    IF a = Null THEN b ELSE IF b = Null THEN a ELSE a + b

AddLimit(a, b) == IF a = Null \/ b = Null THEN Null ELSE a + b

FromAddon(af) ==
    [isEnabled |-> TRUE, effectiveLimit |-> Capacity(af),
     overagePolicy |-> af.overagePolicy, sourceType |-> "addon"]

Extended(e, af) ==
    [isEnabled |-> e.isEnabled,
     effectiveLimit |-> AddLimit(e.effectiveLimit, Capacity(af)),
     overagePolicy |-> MorePermissive(e.overagePolicy, af.overagePolicy),
     sourceType |-> "mixed"]

AddonStep(map, af) ==
    [map EXCEPT ![af.feature] =
        IF @ = Null THEN FromAddon(af) ELSE Extended(@, af)]

(* Step 3: one override, if its window [startsAt, endsAt) holds now.        *)
IsOverrideActive(o, now) ==
    /\ o.startsAt # Null => o.startsAt <= now
    /\ o.endsAt # Null => o.endsAt > now

FromOverride(o) ==
    [isEnabled |-> TRUE, effectiveLimit |-> o.limitOverride,
     overagePolicy |-> "deny", sourceType |-> "override"]

(* Mutant: the policy, too, is taken from the override, which has none.     *)
Overridden_policyFromOverride(e, o) ==
    [isEnabled |-> o.isEnabled,
     effectiveLimit |-> IF o.isEnabled /\ o.limitOverride # Null
                        THEN o.limitOverride ELSE e.effectiveLimit,
     overagePolicy |-> Null,
     sourceType |-> "mixed"]

Overridden(e, o) ==
    [isEnabled |-> o.isEnabled,
     effectiveLimit |-> IF o.isEnabled /\ o.limitOverride # Null
                        THEN o.limitOverride ELSE e.effectiveLimit,
     overagePolicy |-> e.overagePolicy,
     sourceType |-> "mixed"]

OverrideStep(map, o) ==
    [map EXCEPT ![o.feature] =
        IF @ # Null THEN Overridden(@, o)
        ELSE IF o.isEnabled THEN FromOverride(o) ELSE Null]

(* merge(): the three steps over the rows in the order given; an override   *)
(* that the filter of step 3 leaves out changes nothing.                    *)
Merge(planFeatures, addonFeatures, overrides, now) ==
    LET base == FoldLeft(AddonStep, FromPlan(planFeatures), addonFeatures)
        ActiveStep(map, o) ==
            IF IsOverrideActive(o, now) THEN OverrideStep(map, o) ELSE map
    IN FoldLeft(ActiveStep, base, overrides)

-----------------------------------------------------------------------------
(* resolveForOrg, for a subscription s = [plan, addons] whose addons are a  *)
(* function to quantities: the rows of its addons in a catalog c, and the   *)
(* merge of what was read.                                                  *)

Quantity(s, af) == s.addons[af.addon]

AddonRowsFor(s, c) == {af \in c.addon : af.addon \in DOMAIN s.addons}

WithQuantity(s, af) ==
    [addon |-> af.addon, feature |-> af.feature,
     includedLimit |-> af.includedLimit, overagePolicy |-> af.overagePolicy,
     quantity |-> Quantity(s, af)]

Resolve(s, planFeatures, addonFeatures, ovs) ==
    Merge(planFeatures, SetToSeq({WithQuantity(s, af) : af \in addonFeatures}),
          SetToSeq(ovs), 0)
=============================================================================
