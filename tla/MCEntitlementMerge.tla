-------------------------- MODULE MCEntitlementMerge --------------------------
(* Merges of two features: f1 with every combination of plan row, two addon *)
(* rows and override below, f2 with a few, so that rows of one feature meet *)
(* rows of the other in every order.                                        *)
EXTENDS EntitlementMerge

CONSTANTS f1, f2, a1, a2

MCFeature == {f1, f2}
MCAddon == {a1, a2}

PlanRows == {Null} \cup [includedLimit : {Null, 0, 3}, overagePolicy : OveragePolicy]

AddonRows(a) ==
    [addon : {a}, feature : {f1}, includedLimit : {Null, 2},
     overagePolicy : {"deny", "allow_and_flag"}, quantity : {1, 2}]

Windows == {<<Null, Null>>, <<Null, 1>>, <<1, 2>>, <<2, Null>>}

OverrideRows ==
    {[feature |-> f1, isEnabled |-> e, limitOverride |-> l,
      startsAt |-> w[1], endsAt |-> w[2]] :
        e \in BOOLEAN, l \in {Null, 0, 5}, w \in Windows}

AtMostOne(S) == {{}} \cup {{x} : x \in S}

F2Addon == [addon |-> a1, feature |-> f2, includedLimit |-> 1,
            overagePolicy |-> "soft_limit", quantity |-> 2]
F2Off == [feature |-> f2, isEnabled |-> FALSE, limitOverride |-> Null,
          startsAt |-> Null, endsAt |-> Null]

MCInputs ==
    {[planFeatures |-> (f1 :> p) @@ (f2 :> Null),
      addonFeatures |-> x \cup y \cup z, overrides |-> o \cup v, now |-> 1] :
        p \in PlanRows, x \in AtMostOne(AddonRows(a1)),
        y \in AtMostOne(AddonRows(a2)), z \in {{}, {F2Addon}},
        o \in AtMostOne(OverrideRows), v \in {{F2Off}}}
=============================================================================
