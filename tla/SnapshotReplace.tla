---------------------------- MODULE SnapshotReplace ----------------------------
(****************************************************************************)
(* What EntitlementSnapshotService promises: a recalculation either leaves  *)
(* the snapshot of the organization as it is or replaces all of it at once  *)
(* by the merge of its inputs.  Inputs that change while it runs may be     *)
(* seen old or new, each on its own.                                        *)
(*                                                                          *)
(* It can promise this of a recalculation during whose transaction no other *)
(* one commits; one that was overlapped may leave any rows behind (Tear).   *)
(****************************************************************************)
EXTENDS EntitlementInputs

CONSTANT Recalculation

VARIABLES
    snapshot, \* the entitlements of the organization, by feature
    running,  \* recalculations under way
    dirty,    \* those under way when an input last changed
    overlapped \* those another one has committed beside

vars == <<sub, overrides, catalog, snapshot, running, dirty, overlapped>>

NoEntitlements == [f \in Feature |-> Null]

Init ==
    /\ InputsInit
    /\ snapshot \in {NoEntitlements, Entitled(sub, overrides, catalog)}
    /\ running = {}
    /\ dirty = {}
    /\ overlapped = {}

Change ==
    /\ ChangeInputs
    /\ dirty' = running
    /\ UNCHANGED <<snapshot, running, overlapped>>

(* Mutant: a recalculation starts without looking for a subscription.       *)
Begin_anyway(w) ==
    /\ w \notin running
    /\ running' = running \cup {w}
    /\ UNCHANGED <<inputs, snapshot, dirty, overlapped>>

(* findCurrent: without a subscription there is nothing to recalculate.     *)
Begin(w) ==
    /\ w \notin running
    /\ sub # Null
    /\ running' = running \cup {w}
    /\ UNCHANGED <<inputs, snapshot, dirty, overlapped>>

End(w) ==
    /\ w \in running
    /\ running' = running \ {w}
    /\ dirty' = dirty \ {w}
    /\ UNCHANGED inputs

(* The others whose transaction has begun when w commits.                   *)
Overlap(w) ==
    \E others \in SUBSET (running \ {w}) :
        overlapped' = (overlapped \ {w}) \cup others

Replace(w) ==
    /\ End(w)
    /\ Overlap(w)
    /\ IF w \in dirty
       THEN \E s \in SubscriptionStates \ {Null}, o \in OverrideStates,
               c, d \in CatalogStates :
              snapshot' = Resolve(s, c.plan[s.plan], AddonRowsFor(s, d), o)
       ELSE snapshot' = Entitled(sub, overrides, catalog)

(* A failure or a crash.                                                    *)
Abandon(w) == End(w) /\ overlapped' = overlapped \ {w} /\ UNCHANGED snapshot

Tear(w) ==
    /\ End(w)
    /\ w \in overlapped
    /\ Overlap(w)
    /\ snapshot' \in Entitlements

Next ==
    \/ Change
    \/ \E w \in Recalculation : Begin(w) \/ Replace(w) \/ Abandon(w) \/ Tear(w)

Spec ==
    /\ Init /\ [][Next]_vars
    /\ \A w \in Recalculation : WF_vars(Replace(w) \/ Abandon(w) \/ Tear(w))
=============================================================================
