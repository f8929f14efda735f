------------------------- MODULE MCEntitlementSnapshot -------------------------
(* One organization with two features, two plans and one addon.  The limit  *)
(* of f1 in plan p2 exceeds MaxInteger unless the override lowers it.       *)
EXTENDS EntitlementSnapshot

CONSTANTS f1, f2, a1, p1, p2, w1, w2

MCFeature == {f1, f2}
MCAddon == {a1}
MCRecalculation == {w1, w2}

T(l, p) == [includedLimit |-> l, overagePolicy |-> p]

MCCatalog ==
    [plan |-> (p1 :> ((f1 :> T(1, "deny")) @@ (f2 :> Null))) @@
              (p2 :> ((f1 :> T(3, "soft_limit")) @@ (f2 :> T(1, "deny")))),
     addon |-> {[addon |-> a1, feature |-> f2, includedLimit |-> 1,
                 overagePolicy |-> "deny"]}]

MCSubscriptions ==
    {Null, [plan |-> p1, addons |-> <<>>], [plan |-> p2, addons |-> a1 :> 1]}
MCOverrides ==
    {{}, {[feature |-> f1, isEnabled |-> TRUE, limitOverride |-> 1,
           startsAt |-> Null, endsAt |-> Null]}}
MCCatalogs == {MCCatalog}
=============================================================================
