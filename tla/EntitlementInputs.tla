--------------------------- MODULE EntitlementInputs ---------------------------
(****************************************************************************)
(* What the entitlements of one organization are computed from, as the      *)
(* other requests leave it in the database: the current subscription with   *)
(* its addons, the overrides in force, and the catalog.                     *)
(****************************************************************************)
EXTENDS EntitlementResolver, FiniteSets, TLC

CONSTANTS
    SubscriptionStates, \* what findCurrent may find: Null or [plan, addons]
    OverrideStates,     \* sets of overrides in force
    CatalogStates       \* [plan : Plan -> PlanFeatures, addon : set of rows]

VARIABLES sub, overrides, catalog

inputs == <<sub, overrides, catalog>>

(* The entitlements the inputs s, o and c amount to.                        *)
Entitled(s, o, c) == Resolve(s, c.plan[s.plan], AddonRowsFor(s, c), o)

(* Rows the program can read.  Quantities are positive; a subscription has  *)
(* a plan of the catalog; there is one override per feature                 *)
(* (uq_override_org_feature), and those of OverrideStates are in force.     *)
ASSUME SubscriptionAssumption ==
    \A s \in SubscriptionStates \ {Null} :
        /\ \A a \in DOMAIN s.addons : s.addons[a] \in Nat \ {0}
        /\ \A c \in CatalogStates : s.plan \in DOMAIN c.plan

ASSUME OverrideAssumption ==
    \A o \in OverrideStates :
        /\ o \subseteq Override /\ IsFiniteSet(o)
        /\ \A x, y \in o : x.feature = y.feature => x = y
        /\ \A x \in o : IsOverrideActive(x, 0)

ASSUME CatalogAssumption ==
    \A c \in CatalogStates :
        /\ \A p \in DOMAIN c.plan : c.plan[p] \in PlanFeatures
        /\ c.addon \subseteq AddonTerms /\ IsFiniteSet(c.addon)

InputsInit ==
    /\ sub \in SubscriptionStates \ {Null}
    /\ overrides \in OverrideStates
    /\ catalog \in CatalogStates

(* The inputs change by committed writes of other handlers.  The window of  *)
(* an override opening or closing is a change of overrides, too.            *)
ChangeSubscription ==
    sub' \in SubscriptionStates \ {sub} /\ UNCHANGED <<overrides, catalog>>

ChangeOverrides ==
    overrides' \in OverrideStates \ {overrides} /\ UNCHANGED <<sub, catalog>>

ChangeCatalog ==
    catalog' \in CatalogStates \ {catalog} /\ UNCHANGED <<sub, overrides>>

ChangeInputs == ChangeSubscription \/ ChangeOverrides \/ ChangeCatalog
=============================================================================
