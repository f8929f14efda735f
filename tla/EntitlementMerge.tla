--------------------------- MODULE EntitlementMerge ---------------------------
(****************************************************************************)
(* One run of merge() as its two loops execute it, one row per step.  The   *)
(* queries that deliver the rows name no order, so the next row is any row  *)
(* that is left: what holds here holds for every order of the rows.         *)
(****************************************************************************)
EXTENDS EntitlementResolver, FiniteSets, FiniteSetsExt

CONSTANT Inputs  \* the merges to look at

Input == [planFeatures : PlanFeatures, addonFeatures : SUBSET AddonFeature,
          overrides : SUBSET Override, now : Nat]

ASSUME InputsAssumption ==
    /\ Inputs \subseteq Input
    /\ \A in \in Inputs :
         /\ IsFiniteSet(in.addonFeatures) /\ IsFiniteSet(in.overrides)
         /\ \A o, q \in in.overrides : o.feature = q.feature => o = q

VARIABLES
    input,      \* the input of this run
    map,        \* the Map the loops fill
    toAdd,      \* addon features the loop of step 2 has not reached
    toOverride  \* active overrides the loop of step 3 has not reached

vars == <<input, map, toAdd, toOverride>>

Active(in) == {o \in in.overrides : IsOverrideActive(o, in.now)}

Init ==
    /\ input \in Inputs
    /\ map = FromPlan(input.planFeatures)
    /\ toAdd = input.addonFeatures
    /\ toOverride = Active(input)

MergeAddon(af) ==
    /\ map' = AddonStep(map, af)
    /\ toAdd' = toAdd \ {af}
    /\ UNCHANGED <<input, toOverride>>

(* Mutant: the override loop does not wait for the addon loop.              *)
MergeOverride_anyTime(o) ==
    /\ map' = OverrideStep(map, o)
    /\ toOverride' = toOverride \ {o}
    /\ UNCHANGED <<input, toAdd>>

MergeOverride(o) ==
    /\ toAdd = {}
    /\ map' = OverrideStep(map, o)
    /\ toOverride' = toOverride \ {o}
    /\ UNCHANGED <<input, toAdd>>

Next ==
    \/ \E af \in toAdd : MergeAddon(af)
    \/ \E o \in toOverride : MergeOverride(o)

Spec == Init /\ [][Next]_vars

Done == toAdd = {} /\ toOverride = {}

-----------------------------------------------------------------------------
(* The result, said without loops: what each feature is entitled to, from   *)
(* the sets of its sources.                                                 *)

Grants(in, f) == {af \in in.addonFeatures : af.feature = f}
Terms0(in, f) == IF in.planFeatures[f] = Null THEN {} ELSE {in.planFeatures[f]}
OverridesOf(in, f) == {o \in Active(in) : o.feature = f}
Granted(in, f) ==
    \/ Terms0(in, f) # {} \/ Grants(in, f) # {}
    \/ \E o \in OverridesOf(in, f) : o.isEnabled

(* A limitOverride replaces the limit of an override that enables the       *)
(* feature (create-override.dto.ts:27-29; the comment of the resolver's     *)
(* class does not say so); a disabled feature has the limit merged before.  *)
ExpectedLimit(in, f) ==
    LET replaced == {o \in OverridesOf(in, f) :
                        o.isEnabled /\ o.limitOverride # Null}
        sources == Terms0(in, f) \cup Grants(in, f)
    IN IF replaced # {} THEN (CHOOSE o \in replaced : TRUE).limitOverride
       ELSE IF sources = {} \/ \E s \in sources : s.includedLimit = Null THEN Null
       ELSE SumSet({0} \cup {t.includedLimit : t \in Terms0(in, f)})
            + MapThenSumSet(Capacity, Grants(in, f))

ExpectedPolicy(in, f) ==
    LET given == {s.overagePolicy : s \in Terms0(in, f) \cup Grants(in, f)}
    IN CHOOSE p \in given \cup {"deny"} : \A q \in given :
           OVERAGE_POLICY_RANK[q] <= OVERAGE_POLICY_RANK[p]

(* The documented rules: the sum of the limits or none, the most permissive *)
(* policy of plan and addons, the override last; whatever order the rows    *)
(* came in.                                                                 *)
MergeGivesDocumentedRules ==
    Done => \A f \in Feature :
        IF Granted(input, f)
        THEN /\ map[f] # Null
             /\ map[f].effectiveLimit = ExpectedLimit(input, f)
             /\ map[f].overagePolicy = ExpectedPolicy(input, f)
             /\ map[f].isEnabled = \A o \in OverridesOf(input, f) : o.isEnabled
        ELSE map[f] = Null

(* The loops compute what the folds of Merge compute, over any sequence of  *)
(* the same rows: the other modules may use Merge for a merge.              *)
MergeIsTheFold ==
    Done => map = Merge(input.planFeatures, SetToSeq(input.addonFeatures),
                        SetToSeq(input.overrides), input.now)

TypeOK ==
    /\ map \in Entitlements
    /\ toAdd \subseteq AddonFeature
    /\ toOverride \subseteq Override

(* While the loops run, no entry is dropped, and an entry's policy only     *)
(* becomes more permissive: an override touches neither.                    *)
PolicyOnlyWidens ==
    [][\A f \in Feature : map[f] # Null =>
         /\ map'[f] # Null
         /\ OVERAGE_POLICY_RANK[map'[f].overagePolicy]
              >= OVERAGE_POLICY_RANK[map[f].overagePolicy]]_vars
=============================================================================
