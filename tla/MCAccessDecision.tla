-------------------------- MODULE MCAccessDecision --------------------------
(* One organization, two features of which one is boolean at first, two     *)
(* plans and an addon; the catalog changes features and a limit,            *)
(* subscriptions come and go, and overrides limit or disable.  f9 and p9    *)
(* are ids that do not exist.                                               *)
EXTENDS AccessDecision

CONSTANTS f1, f2, f9, a1, p1, p2, p9, w1, x1, k1, k2, k3

MCFeature == {f1, f2}
MCAddon == {a1}
MCPlan == {p1, p2, p9}
MCRecalculation == {w1}
MCAccessRequest == {x1}
MCCode == {k1, k2, k3}
MCAsked == 1 .. 3

T(l, p) == [includedLimit |-> l, overagePolicy |-> p]
Extra(l) == [addon |-> a1, feature |-> f1, includedLimit |-> l,
             overagePolicy |-> "allow_and_flag"]
Named(k, t) == [code |-> k, meterType |-> t]
Catalog1 ==
    [plan |-> (p1 :> ((f1 :> T(1, "deny")) @@ (f2 :> Null))) @@
              (p2 :> ((f1 :> Null) @@ (f2 :> T(Null, "deny")))),
     addon |-> {Extra(1)},
     feature |-> (f1 :> Named(k1, "usage")) @@ (f2 :> Named(k2, "boolean"))]
(* f1 has been renamed and made boolean, and f2 has got its old code.       *)
Catalog2 ==
    [Catalog1 EXCEPT !.addon = {Extra(Null)},
                     !.feature = (f1 :> Named(k3, "boolean")) @@
                                 (f2 :> Named(k1, "boolean"))]
MCCatalogs == {Catalog1, Catalog2}

MCSubscriptions ==
    {Null, [plan |-> p1, addons |-> a1 :> 2], [plan |-> p2, addons |-> <<>>]}
Override1(e, l) == [feature |-> f1, isEnabled |-> e, limitOverride |-> l,
                    startsAt |-> Null, endsAt |-> Null]
MCOverrides == {{}, {Override1(FALSE, Null)}, {Override1(TRUE, 2)}}

GivenOverride(f, e, l) == [feature |-> f, isEnabled |-> e, limitOverride |-> l]
Body(p, as, os) == [plan |-> p, addons |-> as, overrides |-> os]
MCHypothesis ==
    {Body(Null, Null, Null), Body(p1, a1 :> 2, Null), Body(p2, <<>>, {}),
     Body(Null, Null, {GivenOverride(f1, TRUE, 2)}),
     Body(p9, Null, {GivenOverride(f9, TRUE, 2)})}
=============================================================================
