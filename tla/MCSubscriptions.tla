--------------------------- MODULE MCSubscriptions ---------------------------
(* Subscriptions on small instances: the requests of a behaviour and the    *)
(* bodies they carry.                                                       *)
EXTENDS Subscriptions

CONSTANTS o1, p1, p2, a1, t1, t2, r1, r2, r3, r4

MCOrg == {o1}
MCPlan == {p1, p2}
MCAddon == {a1}
MCTerms == {t1, t2}
MCRequest == {r1, r2, r3, r4}

(* A subscription is created with or without addons, or canceled from the   *)
(* start (the body has a status); it is switched, canceled or found past    *)
(* due while the addon comes and goes; one body has a null plan.            *)
NewSubscription(s, a) == [plan |-> p1, status |-> s, terms |-> t1, addons |-> a]
MCCreate ==
    {NewSubscription("active", <<>>), NewSubscription("active", <<a1>>),
     NewSubscription("active", <<a1, a1>>), NewSubscription("canceled", <<>>)}
Update(p, s) == [plan |-> p, status |-> s, terms |-> None]
MCUpdate == {Update(p2, None), Update(p2, "past_due"), Update(None, "canceled"),
             Update(Null, None)}
AddonOps == {"addAddon", "removeAddon"}
MCWorkload ==
    (r1 :> {"create"}) @@ (r2 :> {"create"} \cup AddonOps) @@
    (r3 :> {"update"} \cup AddonOps) @@ (r4 :> {"update"} \cup AddonOps)
TwoUpdates ==
    (r1 :> {"create"}) @@ (r2 :> {}) @@ (r3 :> {"update"}) @@ (r4 :> {"update"})
Interchangeable == Permutations({r3, r4})
=============================================================================
