----------------------- MODULE EntitlementSnapshot_proofs -----------------------
(* The statements of recalculate() replace the snapshot as the service      *)
(* promises, for any number of overlapping transactions, features and       *)
(* inputs.  That every recalculation ends is liveness and left to TLC.      *)
EXTENDS EntitlementSnapshot, EntitlementResolver_proofs

USE DEF Reading, InTransaction, Ended

-----------------------------------------------------------------------------
(* What a recalculation knows at each of its places                         *)

(* Some reading of the inputs, each at its own moment.                      *)
IsReading(map) ==
    \E s \in SubscriptionStates \ {Null}, o \in OverrideStates,
       c, d \in CatalogStates :
         map = Resolve(s, c.plan[s.plan], AddonRowsFor(s, d), o)

ReadOK(w) ==
    /\ pc[w] \in {"overrides", "planFeatures", "addonFeatures"} =>
         got[w].sub \in SubscriptionStates \ {Null}
    /\ pc[w] \in {"planFeatures", "addonFeatures"} =>
         got[w].overrides \in OverrideStates
    /\ pc[w] = "addonFeatures" =>
         \E c \in CatalogStates : got[w].plan = c.plan[got[w].sub.plan]
    /\ pc[w] \in {"find"} \cup InTransaction => IsReading(resolved[w])

(* The second half of save() has rows to insert, then rows to update.       *)
TodoOK(w) ==
    /\ pc[w] \in {"insert", "update"} => todo[w] \subseteq Resolved(w)
    /\ pc[w] = "update" => \A f \in todo[w] : loaded[w][f] # Null

(* No input has changed since the recalculation began.                      *)
CurrentOK(w) ==
    /\ pc[w] \in Reading \cup InTransaction => sub # Null
    /\ pc[w] \in {"overrides", "planFeatures", "addonFeatures"} =>
         got[w].sub = sub
    /\ pc[w] \in {"planFeatures", "addonFeatures"} =>
         got[w].overrides = overrides
    /\ pc[w] = "addonFeatures" => got[w].plan = catalog.plan[sub.plan]
    /\ pc[w] \in {"find"} \cup InTransaction =>
         resolved[w] = Entitled(sub, overrides, catalog)

(* No other transaction has committed since this one began: its statements  *)
(* have written what they have passed, with the resolved content.           *)
Fresh(w) == {f \in Resolved(w) : table[f] = Null}
Kept(w) == {f \in Resolved(w) : table[f] # Null}
IdOf(row) == IF row = Null THEN Null ELSE row.id

Passed(w) ==
    CASE pc[w] = "delete" -> StaleRows(w) \ todo[w]
      [] pc[w] = "insert" -> StaleRows(w) \cup (Fresh(w) \ todo[w])
      [] pc[w] = "update" -> StaleRows(w) \cup Fresh(w) \cup (Kept(w) \ todo[w])
Ahead(w) ==
    CASE pc[w] = "delete" -> StaleRows(w)
      [] pc[w] = "insert" -> Fresh(w)
      [] pc[w] = "update" -> Kept(w)

LoneOK(w) ==
    /\ \A f \in Feature : existing[w][f] = IdOf(table[f])
    /\ todo[w] \subseteq Ahead(w)
    /\ DOMAIN wr[w] = Passed(w)
    /\ \A f \in DOMAIN wr[w] : Content(wr[w][f]) = resolved[w][f]
    /\ pc[w] \in {"insert", "update"} =>
         \A f \in Feature :
            loaded[w][f] = IF f \in Resolved(w) THEN table[f] ELSE Null

Functions ==
    /\ got = [w \in Recalculation |-> got[w]]
    /\ wr = [w \in Recalculation |-> wr[w]]
    /\ \A w \in Recalculation :
         pc[w] \notin InTransaction => DOMAIN wr[w] = {}

SnapInv ==
    /\ TypeOK
    /\ Functions
    /\ \A w \in Recalculation : ReadOK(w) /\ TodoOK(w)
    /\ \A w \in Recalculation : w \notin dirty => CurrentOK(w)
    /\ \A w \in Recalculation :
         pc[w] \in InTransaction /\ w \notin overlapped => LoneOK(w)

-----------------------------------------------------------------------------
(* Lemmas on the values                                                     *)

LEMMA AddonRowsSubscribed ==
    ASSUME NEW s \in SubscriptionStates, s # Null, NEW d \in CatalogStates
    PROVE  Subscribed(s, AddonRowsFor(s, d))
<1>1. PICK A : A = AddonRowsFor(s, d)
  OBVIOUS
<1>2. d.addon \subseteq AddonTerms /\ IsFiniteSet(d.addon)
  BY CatalogAssumption
<1>3. A \subseteq d.addon
  BY <1>1 DEF AddonRowsFor
<1>4. IsFiniteSet(A)
  BY <1>2, <1>3, FS_Subset
<1>5. ASSUME NEW af \in A PROVE Quantity(s, af) \in Nat \ {0}
  BY <1>1, SubscriptionAssumption DEF AddonRowsFor, Quantity
<1> QED
  BY <1>1, <1>2, <1>3, <1>4, <1>5 DEF Subscribed

(* Whatever a recalculation reads, it resolves to an entitlement or none    *)
(* for each feature.                                                        *)
LEMMA ResolvedTyped ==
    ASSUME NEW s \in SubscriptionStates, s # Null, NEW o \in OverrideStates,
           NEW c \in CatalogStates, NEW d \in CatalogStates
    PROVE  Resolve(s, c.plan[s.plan], AddonRowsFor(s, d), o) \in Entitlements
<1>1. PICK pf : pf = c.plan[s.plan] /\ pf \in PlanFeatures
  BY SubscriptionAssumption, CatalogAssumption
<1>2. PICK A : A = AddonRowsFor(s, d) /\ Subscribed(s, A)
  BY AddonRowsSubscribed
<1>3. o \in SUBSET Override /\ IsFiniteSet(o)
  BY OverrideAssumption
<1> QED
  BY <1>1, <1>2, <1>3, ResolveTyped

LEMMA ReadingTyped ==
    ASSUME NEW map, IsReading(map)
    PROVE  map \in Entitlements
  BY ResolvedTyped DEF IsReading

LEMMA EntitledIsReading ==
    ASSUME NEW s \in SubscriptionStates, s # Null,
           NEW o \in OverrideStates, NEW c \in CatalogStates
    PROVE  IsReading(Entitled(s, o, c))
  BY DEF IsReading, Entitled

LEMMA RowContent ==
    ASSUME NEW i \in Recalculation \cup {"earlier"},
           NEW e \in Entitlement, Fits(e)
    PROVE  /\ [id |-> i, ent |-> e] \in Row
           /\ Content([id |-> i, ent |-> e]) = e
<1>1. [id |-> i, ent |-> e] \in Row
  BY DEF Row
<1> QED
  BY <1>1, RowAssumption DEF Row, Content

LEMMA DiffedTyped ==
    ASSUME NEW new \in Entitlement, Fits(new),
           NEW old \in Entitlement, NEW now \in Entitlement, Fits(now)
    PROVE  /\ Diffed(new, old, now) \in Entitlement
           /\ Fits(Diffed(new, old, now))
           /\ old = now => Diffed(new, old, now) = new
<1>1. Diffed(new, old, now) \in Entitlement
  BY DEF Diffed, Entitlement
<1>2. Diffed(new, old, now).effectiveLimit
        = IF new.effectiveLimit # old.effectiveLimit
          THEN new.effectiveLimit ELSE now.effectiveLimit
  BY DEF Diffed, Entitlement
<1>3. Fits(Diffed(new, old, now))
  BY <1>2 DEF Fits
<1>4. old = now => Diffed(new, old, now) = new
  BY DEF Diffed, Entitlement
<1> QED
  BY <1>1, <1>3, <1>4

LEMMA SnapInvInit == Init => SnapInv
<1> SUFFICES ASSUME Init PROVE SnapInv
  OBVIOUS
<1>1. /\ sub \in SubscriptionStates \ {Null} /\ overrides \in OverrideStates
      /\ catalog \in CatalogStates
  BY DEF Init, InputsInit
<1>2. Entitled(sub, overrides, catalog) \in Entitlements
  BY <1>1, ResolvedTyped DEF Entitled
<1>3. table \in [Feature -> Row \cup {Null}]
  <2>1. CASE table = NoRows
    BY <2>1 DEF NoRows
  <2>2. CASE table # NoRows
    <3>1. /\ table = RowsOf(Entitled(sub, overrides, catalog), "earlier")
          /\ \A f \in Feature : table[f] # Null => Fits(table[f].ent)
      BY <2>2 DEF Init
    <3>2. ASSUME NEW f \in Feature PROVE table[f] \in Row \cup {Null}
      BY <1>2, <3>1, <3>2 DEF RowsOf, Entitlements, Row
    <3>3. table = [f \in Feature |-> table[f]]
      BY <3>1 DEF RowsOf
    <3> QED
      BY <3>2, <3>3
  <2> QED
    BY <2>1, <2>2
<1>4. TypeOK
  BY <1>1, <1>3 DEF Init, TypeOK, NoRows, Running, Entitlements
<1>5. Functions
  BY DEF Init, Functions
<1> QED
  BY <1>4, <1>5 DEF Init, SnapInv, ReadOK, TodoOK, CurrentOK

-----------------------------------------------------------------------------
(* Changing inputs and the four reads                                       *)

LEMMA SnapInvChange ==
    ASSUME SnapInv, Change
    PROVE  SnapInv'
<1>1. /\ sub' \in SubscriptionStates /\ overrides' \in OverrideStates
      /\ catalog' \in CatalogStates
  BY DEF Change, ChangeInputs, ChangeSubscription, ChangeOverrides,
     ChangeCatalog, SnapInv, TypeOK
<1>2. /\ UNCHANGED <<table, pc, got, resolved, existing, loaded, todo, wr,
                     overlapped>>
      /\ dirty' = Running
  BY DEF Change, locals
<1>3. TypeOK'
  BY <1>1, <1>2 DEF SnapInv, TypeOK, Running, Fits
<1>4. Functions'
  BY <1>2 DEF SnapInv, Functions
<1>5. ASSUME NEW w \in Recalculation PROVE ReadOK(w)' /\ TodoOK(w)'
  BY <1>2 DEF SnapInv, ReadOK, IsReading, TodoOK, Resolved
<1>6. ASSUME NEW w \in Recalculation, w \notin dirty' PROVE CurrentOK(w)'
  BY <1>2, <1>6 DEF SnapInv, CurrentOK, Running
<1>7. ASSUME NEW w \in Recalculation, LoneOK(w) PROVE LoneOK(w)'
  BY <1>2, <1>7 DEF LoneOK, Passed, Ahead, StaleRows, Fresh, Kept, Resolved
<1> QED
  BY <1>2, <1>3, <1>4, <1>5, <1>6, <1>7 DEF SnapInv

-----------------------------------------------------------------------------
(* A step of one recalculation leaves the others as they are.               *)

OnlyOf(v) ==
    \A w \in Recalculation \ {v} :
        /\ pc'[w] = pc[w] /\ got'[w] = got[w] /\ resolved'[w] = resolved[w]
        /\ existing'[w] = existing[w] /\ loaded'[w] = loaded[w]
        /\ todo'[w] = todo[w] /\ wr'[w] = wr[w]
        /\ w \in dirty' <=> w \in dirty

LEMMA OtherKept ==
    ASSUME SnapInv, NEW v \in Recalculation, OnlyOf(v), UNCHANGED inputs,
           NEW w \in Recalculation, w # v
    PROVE  /\ ReadOK(w)' /\ TodoOK(w)'
           /\ w \notin dirty' => CurrentOK(w)'
           /\ LoneOK(w) /\ table' = table => LoneOK(w)'
<1>1. /\ pc'[w] = pc[w] /\ got'[w] = got[w] /\ resolved'[w] = resolved[w]
      /\ existing'[w] = existing[w] /\ loaded'[w] = loaded[w]
      /\ todo'[w] = todo[w] /\ wr'[w] = wr[w]
      /\ w \in dirty' <=> w \in dirty
  BY DEF OnlyOf
<1>2. ReadOK(w)' /\ TodoOK(w)'
  BY <1>1 DEF SnapInv, ReadOK, IsReading, TodoOK, Resolved
<1>3. w \notin dirty' => CurrentOK(w)'
  BY <1>1 DEF SnapInv, CurrentOK, inputs
<1>4. LoneOK(w) /\ table' = table => LoneOK(w)'
  BY <1>1 DEF LoneOK, Passed, Ahead, StaleRows, Fresh, Kept, Resolved
<1> QED
  BY <1>2, <1>3, <1>4

LEMMA StepKeeps ==
    ASSUME SnapInv, NEW v \in Recalculation, OnlyOf(v),
           UNCHANGED <<inputs, table>>,
           \A w \in Recalculation \ {v} : w \in overlapped' <=> w \in overlapped,
           TypeOK', Functions', ReadOK(v)', TodoOK(v)', v \notin dirty' => CurrentOK(v)',
           pc'[v] \in InTransaction /\ v \notin overlapped' => LoneOK(v)'
    PROVE  SnapInv'
<1>1. UNCHANGED inputs /\ table' = table
  OBVIOUS
<1>2. ASSUME NEW w \in Recalculation, w # v
      PROVE  /\ ReadOK(w)' /\ TodoOK(w)'
             /\ w \notin dirty' => CurrentOK(w)'
             /\ pc'[w] \in InTransaction /\ w \notin overlapped' => LoneOK(w)'
  BY <1>1, <1>2, OtherKept DEF SnapInv, OnlyOf
<1> QED
  BY <1>2 DEF SnapInv

(* The queries before the transaction.                                      *)
LEMMA SnapInvRead ==
    ASSUME SnapInv, NEW w \in Recalculation,
           \/ Start(w) \/ ReadOverrides(w) \/ ReadPlanFeatures(w)
           \/ ReadAddonFeatures(w)
    PROVE  SnapInv'
<1>0. /\ UNCHANGED <<inputs, table>>
      /\ UNCHANGED <<existing, loaded, todo, wr, dirty, overlapped>>
      /\ sub \in SubscriptionStates /\ overrides \in OverrideStates
      /\ catalog \in CatalogStates
      /\ pc \in [Recalculation ->
                  {"idle"} \cup Reading \cup InTransaction \cup Ended]
  BY DEF Start, ReadOverrides, ReadPlanFeatures, ReadAddonFeatures, SnapInv,
     TypeOK
<1>1. CASE Start(w)
  <2>1. /\ pc[w] = "idle" /\ resolved' = resolved
        /\ \/ sub = Null /\ pc' = [pc EXCEPT ![w] = "failed"] /\ got' = got
           \/ /\ sub # Null /\ pc' = [pc EXCEPT ![w] = "overrides"]
              /\ got' = [got EXCEPT ![w] = [sub |-> sub]]
    BY <1>1 DEF Start, Goto
  <2>2. TypeOK'
    BY <1>0, <2>1 DEF SnapInv, TypeOK, Running, inputs
  <2>3. Functions' /\ OnlyOf(w)
    BY <1>0, <2>1 DEF SnapInv, Functions, OnlyOf
  <2>4. ReadOK(w)' /\ (w \notin dirty' => CurrentOK(w)')
    BY <1>0, <2>1 DEF SnapInv, Functions, ReadOK, CurrentOK, inputs
  <2>5. pc'[w] \notin InTransaction /\ TodoOK(w)'
    BY <1>0, <2>1 DEF TodoOK
  <2> QED
    BY <1>0, <2>2, <2>3, <2>4, <2>5, StepKeeps
<1>2. CASE ReadOverrides(w)
  <2>1. /\ pc[w] = "overrides" /\ pc' = [pc EXCEPT ![w] = "planFeatures"]
        /\ resolved' = resolved
        /\ got' = [got EXCEPT ![w] =
                     [sub |-> got[w].sub, overrides |-> overrides]]
    BY <1>2 DEF ReadOverrides, Goto
  <2>2. TypeOK'
    BY <1>0, <2>1 DEF SnapInv, TypeOK, Running, inputs
  <2>3. Functions' /\ OnlyOf(w)
    BY <1>0, <2>1 DEF SnapInv, Functions, OnlyOf
  <2>4. ReadOK(w)' /\ (w \notin dirty' => CurrentOK(w)')
    BY <1>0, <2>1 DEF SnapInv, Functions, ReadOK, CurrentOK, inputs
  <2>5. pc'[w] \notin InTransaction /\ TodoOK(w)'
    BY <1>0, <2>1 DEF TodoOK
  <2> QED
    BY <1>0, <2>2, <2>3, <2>4, <2>5, StepKeeps
<1>3. CASE ReadPlanFeatures(w)
  <2>1. /\ pc[w] = "planFeatures" /\ pc' = [pc EXCEPT ![w] = "addonFeatures"]
        /\ resolved' = resolved
        /\ got' = [got EXCEPT ![w] =
                     [sub |-> got[w].sub, overrides |-> got[w].overrides,
                      plan |-> catalog.plan[got[w].sub.plan]]]
    BY <1>3 DEF ReadPlanFeatures, Goto
  <2>2. TypeOK'
    BY <1>0, <2>1 DEF SnapInv, TypeOK, Running, inputs
  <2>3. Functions' /\ OnlyOf(w)
    BY <1>0, <2>1 DEF SnapInv, Functions, OnlyOf
  <2>4. ReadOK(w)' /\ (w \notin dirty' => CurrentOK(w)')
    BY <1>0, <2>1 DEF SnapInv, Functions, ReadOK, CurrentOK, inputs
  <2>5. pc'[w] \notin InTransaction /\ TodoOK(w)'
    BY <1>0, <2>1 DEF TodoOK
  <2> QED
    BY <1>0, <2>2, <2>3, <2>4, <2>5, StepKeeps
<1>4. CASE ReadAddonFeatures(w)
  <2>1. PICK map : map = Resolve(got[w].sub, got[w].plan,
                                 AddonRowsFor(got[w].sub, catalog),
                                 got[w].overrides)
    OBVIOUS
  <2>2. /\ pc[w] = "addonFeatures" /\ pc' = [pc EXCEPT ![w] = "find"]
        /\ resolved' = [resolved EXCEPT ![w] = map]
        /\ got' = [got EXCEPT ![w] = Null]
    BY <1>4, <2>1 DEF ReadAddonFeatures, Goto
  <2>3. ReadOK(w)
    BY DEF SnapInv
  <2>4. IsReading(map)
    BY <1>0, <2>1, <2>2, <2>3 DEF ReadOK, IsReading
  <2>5. map \in Entitlements
    BY <2>4, ReadingTyped
  <2>6. TypeOK'
    BY <1>0, <2>2, <2>5 DEF SnapInv, TypeOK, Running, inputs
  <2>7. Functions' /\ OnlyOf(w) /\ pc'[w] = "find" /\ resolved'[w] = map
    BY <1>0, <2>2 DEF SnapInv, Functions, OnlyOf, TypeOK
  <2>8. ReadOK(w)'
    BY <2>4, <2>7 DEF ReadOK, IsReading
  <2>9. w \notin dirty' => CurrentOK(w)'
    <3> SUFFICES ASSUME w \notin dirty PROVE CurrentOK(w)'
      BY <1>0
    <3>1. map = Entitled(sub, overrides, catalog)
      BY <2>1, <2>2 DEF SnapInv, CurrentOK, Entitled
    <3>2. Entitled(sub, overrides, catalog)' = Entitled(sub, overrides, catalog)
      BY <1>0 DEF inputs
    <3>3. sub' # Null
      BY <1>0, <2>2 DEF SnapInv, CurrentOK, inputs
    <3> QED
      BY <2>7, <3>1, <3>2, <3>3 DEF CurrentOK
  <2>10. pc'[w] \notin InTransaction /\ TodoOK(w)'
    BY <2>7 DEF TodoOK
  <2> QED
    BY <1>0, <2>6, <2>7, <2>8, <2>9, <2>10, StepKeeps
<1> QED
  BY <1>1, <1>2, <1>3, <1>4

(* A rolled-back transaction.                                               *)
LEMMA SnapInvFail ==
    ASSUME SnapInv, NEW w \in Recalculation, Fail(w)
    PROVE  SnapInv'
<1>1. NoRows \in Entitlements /\ NoRows \in [Feature -> Row \cup {Null}]
      /\ NoRows \in [Feature -> Recalculation \cup {"earlier", Null}]
  BY DEF NoRows, Entitlements
<1>2. PICK no \in Entitlements : no = NoRows
  BY <1>1
<1>3. /\ pc' = [pc EXCEPT ![w] = "failed"] /\ got' = [got EXCEPT ![w] = Null]
      /\ resolved' = [resolved EXCEPT ![w] = no]
      /\ existing' = [existing EXCEPT ![w] = no]
      /\ loaded' = [loaded EXCEPT ![w] = no]
      /\ todo' = [todo EXCEPT ![w] = {}]
      /\ wr' = [wr EXCEPT ![w] = <<>>]
      /\ dirty' = dirty \ {w} /\ overlapped' = overlapped \ {w}
      /\ UNCHANGED <<inputs, table>>
  BY <1>2 DEF Fail, Goto
<1>4. pc'[w] = "failed" /\ DOMAIN wr'[w] = {}
  BY <1>3 DEF SnapInv, TypeOK, Functions
<1>5. Functions' /\ OnlyOf(w)
  BY <1>3, <1>4 DEF SnapInv, Functions, OnlyOf, TypeOK
<1>6. TypeOK'
  <2>1. \A v \in Recalculation :
          /\ DOMAIN wr'[v] \subseteq Feature
          /\ \A f \in DOMAIN wr'[v] : wr'[v][f] \in Row \cup {Null}
    BY <1>4, <1>5 DEF SnapInv, TypeOK, OnlyOf
  <2>2. Running' = Running \ {w}
    BY <1>3 DEF Running, SnapInv, TypeOK
  <2> QED
    BY <1>1, <1>2, <1>3, <2>1, <2>2 DEF SnapInv, TypeOK, inputs
<1>7. ReadOK(w)' /\ TodoOK(w)' /\ CurrentOK(w)'
  BY <1>4 DEF ReadOK, TodoOK, CurrentOK
<1> QED
  BY <1>3, <1>4, <1>5, <1>6, <1>7, StepKeeps

-----------------------------------------------------------------------------
(* The statements of the transaction                                        *)

(* One uncommitted write.                                                   *)
LEMMA WriteEffect ==
    ASSUME SnapInv, NEW w \in Recalculation, NEW f \in Feature,
           NEW row \in Row \cup {Null}, Write(w, f, row)
    PROVE  /\ wr' = [v \in Recalculation |-> wr'[v]]
           /\ \A v \in Recalculation \ {w} : wr'[v] = wr[v]
           /\ DOMAIN wr'[w] = DOMAIN wr[w] \cup {f}
           /\ \A g \in DOMAIN wr'[w] :
                wr'[w][g] = IF g = f THEN row ELSE wr[w][g]
           /\ \A v \in Recalculation :
                /\ DOMAIN wr'[v] \subseteq Feature
                /\ \A g \in DOMAIN wr'[v] : wr'[v][g] \in Row \cup {Null}
<1>1. PICK new : new = [g \in DOMAIN wr[w] \cup {f} |->
                          IF g = f THEN row ELSE wr[w][g]]
  OBVIOUS
<1>2. wr' = [wr EXCEPT ![w] = new]
  BY <1>1 DEF Write
<1>3. wr = [v \in Recalculation |-> wr[v]]
  BY DEF SnapInv, Functions
<1>4. wr'[w] = new /\ \A v \in Recalculation \ {w} : wr'[v] = wr[v]
  BY <1>2, <1>3
<1>5. wr' = [v \in Recalculation |-> wr'[v]]
  BY <1>2, <1>3
<1>6. /\ DOMAIN new = DOMAIN wr[w] \cup {f}
      /\ \A g \in DOMAIN new : new[g] = IF g = f THEN row ELSE wr[w][g]
  BY <1>1
<1>7. \A v \in Recalculation :
        /\ DOMAIN wr'[v] \subseteq Feature
        /\ \A g \in DOMAIN wr'[v] : wr'[v][g] \in Row \cup {Null}
  <2>1. \A v \in Recalculation :
          /\ DOMAIN wr[v] \subseteq Feature
          /\ \A g \in DOMAIN wr[v] : wr[v][g] \in Row \cup {Null}
    BY DEF SnapInv, TypeOK
  <2> QED
    BY <1>4, <1>6, <2>1
<1> QED
  BY <1>4, <1>5, <1>6, <1>7

LEMMA SnapInvFind ==
    ASSUME SnapInv, NEW w \in Recalculation, FindExisting(w)
    PROVE  SnapInv'
<1>1. PICK ids : ids = [f \in Feature |->
                          IF table[f] = Null THEN Null ELSE table[f].id]
  OBVIOUS
<1>2. /\ pc[w] = "find" /\ pc' = [pc EXCEPT ![w] = "delete"]
      /\ existing' = [existing EXCEPT ![w] = ids]
      /\ todo' = [todo EXCEPT ![w] = StaleRows(w)]
      /\ UNCHANGED <<inputs, table>>
      /\ UNCHANGED <<got, resolved, loaded, wr, dirty, overlapped>>
  BY <1>1 DEF FindExisting, Goto
<1>3. ids \in [Feature -> Recalculation \cup {"earlier", Null}]
  BY <1>1 DEF SnapInv, TypeOK, Row
<1>4. TypeOK'
  <2>1. Running' = Running
    BY <1>2 DEF Running, SnapInv, TypeOK
  <2>2. StaleRows(w) \subseteq Feature
    BY DEF StaleRows
  <2> QED
    BY <1>2, <1>3, <2>1, <2>2 DEF SnapInv, TypeOK, inputs
<1>5. Functions' /\ OnlyOf(w)
  BY <1>2 DEF SnapInv, Functions, OnlyOf, TypeOK
<1>6. /\ pc'[w] = "delete" /\ existing'[w] = ids
      /\ todo'[w] = StaleRows(w) /\ DOMAIN wr'[w] = {}
  BY <1>2 DEF SnapInv, TypeOK, Functions
<1>7. ReadOK(w)' /\ TodoOK(w)' /\ (w \notin dirty' => CurrentOK(w)')
  BY <1>2, <1>6
     DEF SnapInv, ReadOK, TodoOK, CurrentOK, IsReading, Resolved, inputs
<1>8. LoneOK(w)'
  <2>1. StaleRows(w)' = StaleRows(w)
    BY <1>2 DEF StaleRows, Resolved
  <2> QED
    BY <1>1, <1>2, <1>6, <2>1 DEF LoneOK, IdOf, Passed, Ahead
<1> QED
  BY <1>2, <1>4, <1>5, <1>7, <1>8, StepKeeps

LEMMA SnapInvDelete ==
    ASSUME SnapInv, NEW w \in Recalculation, DeleteStale(w)
    PROVE  SnapInv'
<1>1. PICK f \in todo[w] :
        /\ IF table[f] # Null /\ table[f].id = existing[w][f]
           THEN Write(w, f, Null) ELSE UNCHANGED wr
        /\ Next1(w, f)
  BY DEF DeleteStale
<1>2. /\ pc[w] = "delete" /\ pc' = pc
      /\ todo' = [todo EXCEPT ![w] = @ \ {f}]
      /\ UNCHANGED <<inputs, table>>
      /\ UNCHANGED <<got, resolved, existing, loaded, dirty, overlapped>>
  BY <1>1 DEF DeleteStale, locals, Next1
<1>3. f \in Feature /\ todo'[w] = todo[w] \ {f}
  BY <1>2 DEF SnapInv, TypeOK
<1>4. wr' = wr \/ Write(w, f, Null)
  BY <1>1
<1>5. /\ wr' = [v \in Recalculation |-> wr'[v]]
      /\ \A v \in Recalculation \ {w} : wr'[v] = wr[v]
      /\ \A v \in Recalculation :
           /\ DOMAIN wr'[v] \subseteq Feature
           /\ \A g \in DOMAIN wr'[v] : wr'[v][g] \in Row \cup {Null}
  BY <1>3, <1>4, WriteEffect DEF SnapInv, TypeOK, Functions
<1>6. TypeOK'
  <2>1. Running' = Running
    BY <1>2 DEF Running
  <2> QED
    BY <1>2, <1>5, <2>1 DEF SnapInv, TypeOK, inputs
<1>7. Functions' /\ OnlyOf(w)
  BY <1>2, <1>5 DEF SnapInv, Functions, OnlyOf, TypeOK
<1>8. ReadOK(w)' /\ TodoOK(w)' /\ (w \notin dirty' => CurrentOK(w)')
  BY <1>2 DEF SnapInv, ReadOK, TodoOK, CurrentOK, IsReading, inputs
<1>9. ASSUME w \notin overlapped' PROVE LoneOK(w)'
  <2>1. LoneOK(w)
    BY <1>2, <1>9 DEF SnapInv
  <2>2. f \in StaleRows(w) /\ existing[w][f] = table[f].id /\ table[f] # Null
    BY <1>2, <1>3, <2>1 DEF LoneOK, Ahead, StaleRows, IdOf
  <2>3. Write(w, f, Null)
    BY <1>1, <2>2
  <2>4. /\ DOMAIN wr'[w] = DOMAIN wr[w] \cup {f}
        /\ \A g \in DOMAIN wr'[w] : wr'[w][g] = IF g = f THEN Null ELSE wr[w][g]
    BY <1>3, <2>3, WriteEffect
  <2>5. StaleRows(w)' = StaleRows(w) /\ resolved'[w][f] = Null
    BY <1>2, <2>2 DEF StaleRows, Resolved
  <2>6. DOMAIN wr'[w] = StaleRows(w) \ todo'[w]
    BY <1>2, <1>3, <2>1, <2>2, <2>4 DEF LoneOK, Passed
  <2>7. \A g \in DOMAIN wr'[w] : Content(wr'[w][g]) = resolved'[w][g]
    BY <1>2, <2>1, <2>4, <2>5 DEF LoneOK, Content
  <2> QED
    BY <1>2, <1>3, <2>1, <2>5, <2>6, <2>7 DEF LoneOK, Passed, Ahead
<1> QED
  BY <1>2, <1>6, <1>7, <1>8, <1>9, StepKeeps

LEMMA SnapInvSelect ==
    ASSUME SnapInv, NEW w \in Recalculation, SaveSelect(w)
    PROVE  SnapInv'
<1>1. PICK found : found = [f \in Feature |->
                              IF table[f] # Null /\ f \in Resolved(w)
                                 /\ table[f].id = existing[w][f]
                              THEN table[f] ELSE Null]
  OBVIOUS
<1>2. /\ pc[w] = "delete" /\ pc' = [pc EXCEPT ![w] = "insert"]
      /\ todo[w] = {}
      /\ loaded' = [loaded EXCEPT ![w] = found]
      /\ todo' = [todo EXCEPT ![w] = {f \in Resolved(w) : found[f] = Null}]
      /\ UNCHANGED <<inputs, table>>
      /\ UNCHANGED <<got, resolved, existing, wr, dirty, overlapped>>
  BY <1>1 DEF SaveSelect, Goto
<1>3. found \in [Feature -> Row \cup {Null}]
  BY <1>1 DEF SnapInv, TypeOK
<1>4. TypeOK'
  <2>1. Running' = Running
    BY <1>2 DEF Running, SnapInv, TypeOK
  <2>2. {f \in Resolved(w) : found[f] = Null} \subseteq Feature
    BY DEF Resolved
  <2> QED
    BY <1>2, <1>3, <2>1, <2>2 DEF SnapInv, TypeOK, inputs
<1>5. Functions' /\ OnlyOf(w)
  BY <1>2 DEF SnapInv, Functions, OnlyOf, TypeOK
<1>6. /\ pc'[w] = "insert" /\ loaded'[w] = found
      /\ todo'[w] = {f \in Resolved(w) : found[f] = Null}
  BY <1>2 DEF SnapInv, TypeOK
<1>7. ReadOK(w)' /\ TodoOK(w)' /\ (w \notin dirty' => CurrentOK(w)')
  BY <1>2, <1>6
     DEF SnapInv, ReadOK, TodoOK, CurrentOK, IsReading, Resolved, inputs
<1>8. ASSUME w \notin overlapped' PROVE LoneOK(w)'
  <2>1. LoneOK(w)
    BY <1>2, <1>8 DEF SnapInv
  <2>2. \A f \in Feature :
          found[f] = IF f \in Resolved(w) THEN table[f] ELSE Null
    BY <1>1, <2>1 DEF LoneOK, IdOf
  <2>3. StaleRows(w)' = StaleRows(w) /\ Fresh(w)' = Fresh(w)
        /\ Resolved(w)' = Resolved(w)
    BY <1>2 DEF StaleRows, Fresh, Resolved
  <2>4. {f \in Resolved(w) : found[f] = Null} = Fresh(w)
    BY <2>2 DEF Fresh, Resolved
  <2>5. DOMAIN wr[w] = StaleRows(w)
    BY <1>2, <2>1 DEF LoneOK, Passed
  <2>6. DOMAIN wr'[w] = Passed(w)' /\ todo'[w] \subseteq Ahead(w)'
    BY <1>2, <1>6, <2>3, <2>4, <2>5 DEF Passed, Ahead
  <2> QED
    BY <1>2, <1>6, <2>1, <2>2, <2>3, <2>6 DEF LoneOK
<1> QED
  BY <1>2, <1>4, <1>5, <1>7, <1>8, StepKeeps

LEMMA SnapInvStartUpdates ==
    ASSUME SnapInv, NEW w \in Recalculation, StartUpdates(w)
    PROVE  SnapInv'
<1>1. /\ pc[w] = "insert" /\ pc' = [pc EXCEPT ![w] = "update"]
      /\ todo[w] = {}
      /\ todo' = [todo EXCEPT ![w] = {f \in Resolved(w) : loaded[w][f] # Null}]
      /\ UNCHANGED <<inputs, table>>
      /\ UNCHANGED <<got, resolved, existing, loaded, wr, dirty, overlapped>>
  BY DEF StartUpdates, Goto, locals
<1>2. TypeOK'
  <2>1. Running' = Running
    BY <1>1 DEF Running, SnapInv, TypeOK
  <2>2. {f \in Resolved(w) : loaded[w][f] # Null} \subseteq Feature
    BY DEF Resolved
  <2> QED
    BY <1>1, <2>1, <2>2 DEF SnapInv, TypeOK, inputs
<1>3. Functions' /\ OnlyOf(w)
  BY <1>1 DEF SnapInv, Functions, OnlyOf, TypeOK
<1>4. /\ pc'[w] = "update"
      /\ todo'[w] = {f \in Resolved(w) : loaded[w][f] # Null}
  BY <1>1 DEF SnapInv, TypeOK
<1>5. ReadOK(w)' /\ TodoOK(w)' /\ (w \notin dirty' => CurrentOK(w)')
  BY <1>1, <1>4
     DEF SnapInv, ReadOK, TodoOK, CurrentOK, IsReading, Resolved, inputs
<1>6. ASSUME w \notin overlapped' PROVE LoneOK(w)'
  <2>1. LoneOK(w)
    BY <1>1, <1>6 DEF SnapInv
  <2>2. /\ StaleRows(w)' = StaleRows(w) /\ Fresh(w)' = Fresh(w)
        /\ Kept(w)' = Kept(w) /\ Resolved(w)' = Resolved(w)
    BY <1>1 DEF StaleRows, Fresh, Kept, Resolved
  <2>3. {f \in Resolved(w) : loaded[w][f] # Null} = Kept(w)
    BY <1>1, <2>1 DEF LoneOK, Kept, Resolved
  <2>4. DOMAIN wr[w] = StaleRows(w) \cup Fresh(w)
    BY <1>1, <2>1 DEF LoneOK, Passed
  <2>5. DOMAIN wr'[w] = Passed(w)' /\ todo'[w] \subseteq Ahead(w)'
    BY <1>1, <1>4, <2>2, <2>3, <2>4 DEF Passed, Ahead
  <2> QED
    BY <1>1, <1>4, <2>1, <2>2, <2>5 DEF LoneOK
<1> QED
  BY <1>1, <1>2, <1>3, <1>5, <1>6, StepKeeps

(* A row written by the transaction: InsertRow and UpdateRow.               *)
LEMMA SnapInvWrite ==
    ASSUME SnapInv, NEW w \in Recalculation, pc[w] \in {"insert", "update"},
           NEW f \in todo[w], NEW row \in Row,
           Write(w, f, row), Next1(w, f),
           UNCHANGED <<inputs, table, pc, locals, dirty, overlapped>>,
           LoneOK(w) => row.ent = resolved[w][f]
    PROVE  SnapInv'
<1>1. /\ pc' = pc /\ todo' = [todo EXCEPT ![w] = @ \ {f}]
      /\ UNCHANGED <<inputs, table>>
      /\ UNCHANGED <<got, resolved, existing, loaded, dirty, overlapped>>
  BY DEF locals, Next1
<1>2. f \in Feature /\ todo'[w] = todo[w] \ {f} /\ f \in Resolved(w)
  BY <1>1 DEF SnapInv, TypeOK, TodoOK
<1>3. /\ wr' = [v \in Recalculation |-> wr'[v]]
      /\ \A v \in Recalculation \ {w} : wr'[v] = wr[v]
      /\ DOMAIN wr'[w] = DOMAIN wr[w] \cup {f}
      /\ \A g \in DOMAIN wr'[w] :
           wr'[w][g] = IF g = f THEN row ELSE wr[w][g]
      /\ \A v \in Recalculation :
           /\ DOMAIN wr'[v] \subseteq Feature
           /\ \A g \in DOMAIN wr'[v] : wr'[v][g] \in Row \cup {Null}
  BY <1>2, WriteEffect
<1>4. TypeOK'
  <2>1. Running' = Running
    BY <1>1 DEF Running
  <2> QED
    BY <1>1, <1>3, <2>1 DEF SnapInv, TypeOK, inputs
<1>5. Functions' /\ OnlyOf(w)
  BY <1>1, <1>3 DEF SnapInv, Functions, OnlyOf, TypeOK
<1>6. ReadOK(w)' /\ TodoOK(w)' /\ (w \notin dirty' => CurrentOK(w)')
  BY <1>1, <1>2
     DEF SnapInv, ReadOK, TodoOK, CurrentOK, IsReading, Resolved, inputs
<1>7. ASSUME w \notin overlapped' PROVE LoneOK(w)'
  <2>1. LoneOK(w)
    BY <1>1, <1>7 DEF SnapInv
  <2>2. /\ StaleRows(w)' = StaleRows(w) /\ Fresh(w)' = Fresh(w)
        /\ Kept(w)' = Kept(w) /\ Resolved(w)' = Resolved(w)
    BY <1>1 DEF StaleRows, Fresh, Kept, Resolved
  <2>3. Content(row) = resolved[w][f]
    BY <2>1, RowAssumption DEF Row, Content
  <2>4. \A g \in DOMAIN wr'[w] : Content(wr'[w][g]) = resolved'[w][g]
    BY <1>1, <1>3, <2>1, <2>3 DEF LoneOK
  <2>5. f \in Ahead(w) /\ Ahead(w)' = Ahead(w)
    BY <1>1, <2>1, <2>2 DEF LoneOK, Ahead
  <2>6. Passed(w)' = Passed(w) \cup {f}
    BY <1>1, <1>2, <2>2, <2>5 DEF Passed, Ahead
  <2> QED
    BY <1>1, <1>2, <1>3, <2>1, <2>2, <2>4, <2>5, <2>6 DEF LoneOK
<1> QED
  BY <1>1, <1>4, <1>5, <1>6, <1>7, StepKeeps

LEMMA SnapInvInsert ==
    ASSUME SnapInv, NEW w \in Recalculation, InsertRow(w)
    PROVE  SnapInv'
<1>1. PICK f \in todo[w] :
        IF table[f] = Null /\ Accepts(resolved[w][f])
        THEN /\ Write(w, f, [id |-> IF existing[w][f] = Null THEN w
                                    ELSE existing[w][f],
                             ent |-> resolved[w][f]])
             /\ Next1(w, f)
             /\ UNCHANGED <<inputs, table, pc, locals, dirty, overlapped>>
        ELSE Fail(w)
  BY DEF InsertRow
<1>2. CASE Fail(w)
  BY <1>2, SnapInvFail
<1>3. CASE ~Fail(w)
  <2>1. PICK i : i = IF existing[w][f] = Null THEN w ELSE existing[w][f]
    OBVIOUS
  <2>2. PICK e : e = resolved[w][f]
    OBVIOUS
  <2>3. /\ pc[w] = "insert" /\ Accepts(e)
        /\ Write(w, f, [id |-> i, ent |-> e]) /\ Next1(w, f)
        /\ UNCHANGED <<inputs, table, pc, locals, dirty, overlapped>>
    BY <1>1, <1>3, <2>1, <2>2 DEF InsertRow
  <2>4. f \in Feature /\ f \in Resolved(w)
    BY <2>3 DEF SnapInv, TypeOK, TodoOK
  <2>5. i \in Recalculation \cup {"earlier"}
    BY <2>1, <2>4, RowIdAssumption DEF SnapInv, TypeOK
  <2>6. e \in Entitlement /\ Fits(e)
    BY <2>2, <2>3, <2>4 DEF Accepts, Resolved, SnapInv, TypeOK, Entitlements
  <2>7. [id |-> i, ent |-> e] \in Row
    BY <2>5, <2>6, RowContent
  <2>8. PICK row \in Row : row = [id |-> i, ent |-> e]
    BY <2>7
  <2> QED
    BY <2>2, <2>3, <2>8, SnapInvWrite
<1> QED
  BY <1>2, <1>3

LEMMA SnapInvUpdate ==
    ASSUME SnapInv, NEW w \in Recalculation, UpdateRow(w)
    PROVE  SnapInv'
<1>1. PICK f \in todo[w] :
        IF table[f] = Null \/ table[f].id # loaded[w][f].id
        THEN /\ Next1(w, f)
             /\ UNCHANGED <<inputs, table, pc, locals, wr, dirty, overlapped>>
        ELSE IF Accepts(resolved[w][f])
        THEN /\ Write(w, f, [id |-> loaded[w][f].id, ent |->
                    Diffed(resolved[w][f], loaded[w][f].ent, table[f].ent)])
             /\ Next1(w, f)
             /\ UNCHANGED <<inputs, table, pc, locals, dirty, overlapped>>
        ELSE Fail(w)
  BY DEF UpdateRow
<1>2. pc[w] = "update" /\ f \in Feature /\ f \in Resolved(w)
      /\ loaded[w][f] # Null
  BY DEF UpdateRow, SnapInv, TypeOK, TodoOK
<1>3. loaded[w][f] \in Row
  BY <1>2 DEF SnapInv, TypeOK
<1>4. CASE Fail(w)
  BY <1>4, SnapInvFail
<1>5. CASE table[f] = Null \/ table[f].id # loaded[w][f].id
  <2>1. /\ pc' = pc /\ todo' = [todo EXCEPT ![w] = @ \ {f}]
        /\ UNCHANGED <<inputs, table>>
        /\ UNCHANGED <<got, resolved, existing, loaded, wr, dirty, overlapped>>
    BY <1>1, <1>5 DEF locals, Next1
  <2>2. todo'[w] = todo[w] \ {f}
    BY <2>1 DEF SnapInv, TypeOK
  <2>3. TypeOK'
    <3>1. Running' = Running
      BY <2>1 DEF Running
    <3> QED
      BY <2>1, <3>1 DEF SnapInv, TypeOK, inputs
  <2>4. Functions' /\ OnlyOf(w)
    BY <2>1 DEF SnapInv, Functions, OnlyOf, TypeOK
  <2>5. ReadOK(w)' /\ TodoOK(w)' /\ (w \notin dirty' => CurrentOK(w)')
    BY <2>1, <2>2
       DEF SnapInv, ReadOK, TodoOK, CurrentOK, IsReading, Resolved, inputs
  <2>6. ~LoneOK(w)
    BY <1>2, <1>5 DEF LoneOK, Resolved
  <2>7. w \in overlapped
    BY <1>2, <2>6 DEF SnapInv
  <2> QED
    BY <2>1, <2>3, <2>4, <2>5, <2>7, StepKeeps
<1>6. CASE ~Fail(w) /\ table[f] # Null /\ table[f].id = loaded[w][f].id
  <2>1. PICK i : i = loaded[w][f].id
    OBVIOUS
  <2>2. PICK e : e = resolved[w][f]
    OBVIOUS
  <2>3. PICK old : old = loaded[w][f].ent
    OBVIOUS
  <2>4. PICK now : now = table[f].ent
    OBVIOUS
  <2>5. /\ Write(w, f, [id |-> i, ent |-> Diffed(e, old, now)])
        /\ Accepts(e) /\ Next1(w, f)
        /\ UNCHANGED <<inputs, table, pc, locals, dirty, overlapped>>
    BY <1>1, <1>6, <2>1, <2>2, <2>3, <2>4
  <2>6. e \in Entitlement /\ Fits(e)
    BY <1>2, <2>2, <2>5 DEF Accepts, Resolved, SnapInv, TypeOK, Entitlements
  <2>7. /\ i \in Recalculation \cup {"earlier"} /\ old \in Entitlement
        /\ now \in Entitlement /\ Fits(now)
    BY <1>2, <1>3, <1>6, <2>1, <2>3, <2>4 DEF SnapInv, TypeOK, Row
  <2>8. [id |-> i, ent |-> Diffed(e, old, now)] \in Row
    BY <2>6, <2>7, DiffedTyped, RowContent
  <2>9. PICK row \in Row : row = [id |-> i, ent |-> Diffed(e, old, now)]
    BY <2>8
  <2>10. LoneOK(w) => old = now
    BY <1>2, <2>3, <2>4 DEF LoneOK
  <2>11. LoneOK(w) => row.ent = resolved[w][f]
    BY <2>2, <2>6, <2>7, <2>9, <2>10, DiffedTyped
  <2> QED
    BY <1>2, <2>5, <2>9, <2>11, SnapInvWrite
<1> QED
  BY <1>1, <1>4, <1>5, <1>6

-----------------------------------------------------------------------------
(* The commit                                                               *)

CommitEffect(w) ==
    /\ pc[w] = "update" /\ todo[w] = {}
    /\ table' = View(w)
    /\ pc' = [pc EXCEPT ![w] = "done"]
    /\ wr' = [wr EXCEPT ![w] = <<>>]
    /\ dirty' = dirty \ {w}
    /\ overlapped' = (overlapped \ {w}) \cup
           {v \in Recalculation \ {w} : pc[v] \in InTransaction}
    /\ UNCHANGED <<sub, overrides, catalog, got, todo>>

(* The row each feature has after the commit.                               *)
LEMMA ViewTyped ==
    ASSUME SnapInv, NEW w \in Recalculation
    PROVE  View(w) \in [Feature -> Row \cup {Null}]
  BY DEF View, SnapInv, TypeOK

(* With no other commit beside it, those are the resolved entitlements.     *)
LEMMA LoneView ==
    ASSUME SnapInv, NEW w \in Recalculation, NEW f \in Feature,
           pc[w] = "update", todo[w] = {}, w \notin overlapped
    PROVE  Content(View(w)[f]) = resolved[w][f]
<1>1. LoneOK(w)
  BY DEF SnapInv
<1>2. DOMAIN wr[w] = StaleRows(w) \cup Fresh(w) \cup Kept(w)
  BY <1>1 DEF LoneOK, Passed
<1>3. CASE f \in DOMAIN wr[w]
  BY <1>1, <1>3 DEF View, LoneOK
<1>4. CASE f \notin DOMAIN wr[w]
  <2>1. f \notin Resolved(w) /\ table[f] = Null
    BY <1>2, <1>4 DEF StaleRows, Fresh, Kept, Resolved
  <2> QED
    BY <1>4, <2>1 DEF View, Resolved, Content
<1> QED
  BY <1>3, <1>4

LEMMA SnapInvCommit ==
    ASSUME SnapInv, NEW w \in Recalculation, Commit(w)
    PROVE  SnapInv'
<1>1. PICK no : no = NoRows
  OBVIOUS
<1>2. no \in Entitlements /\ no \in [Feature -> Row \cup {Null}]
      /\ no \in [Feature -> Recalculation \cup {"earlier", Null}]
  BY <1>1 DEF NoRows, Entitlements
<1>3. CommitEffect(w)
  BY DEF Commit, CommitEffect, Goto, inputs
<1>4. /\ resolved' = [resolved EXCEPT ![w] = no]
      /\ existing' = [existing EXCEPT ![w] = no]
      /\ loaded' = [loaded EXCEPT ![w] = no]
      /\ UNCHANGED inputs
  BY <1>1 DEF Commit
<1>5. pc'[w] = "done" /\ DOMAIN wr'[w] = {}
  BY <1>3 DEF CommitEffect, SnapInv, TypeOK, Functions
<1>6. Functions' /\ OnlyOf(w)
  BY <1>3, <1>4, <1>5 DEF CommitEffect, SnapInv, Functions, OnlyOf, TypeOK
<1>7. TypeOK'
  <2>1. \A v \in Recalculation :
          /\ DOMAIN wr'[v] \subseteq Feature
          /\ \A f \in DOMAIN wr'[v] : wr'[v][f] \in Row \cup {Null}
    BY <1>5, <1>6 DEF SnapInv, TypeOK, OnlyOf
  <2>2. Running' = Running \ {w}
    BY <1>3 DEF CommitEffect, Running, SnapInv, TypeOK
  <2>3. table' \in [Feature -> Row \cup {Null}]
    BY <1>3, ViewTyped DEF CommitEffect
  <2>4. dirty' \subseteq Running' /\ overlapped' \subseteq Running'
    BY <1>3, <2>2 DEF CommitEffect, Running, SnapInv, TypeOK
  <2>5. pc' \in [Recalculation ->
                  {"idle"} \cup Reading \cup InTransaction \cup Ended]
    BY <1>3 DEF CommitEffect, SnapInv, TypeOK
  <2> QED
    BY <1>2, <1>3, <1>4, <2>1, <2>3, <2>4, <2>5
       DEF CommitEffect, SnapInv, TypeOK
<1>8. ReadOK(w)' /\ TodoOK(w)' /\ CurrentOK(w)'
  BY <1>5 DEF ReadOK, TodoOK, CurrentOK
<1>9. ASSUME NEW v \in Recalculation, v # w
      PROVE  /\ ReadOK(v)' /\ TodoOK(v)'
             /\ v \notin dirty' => CurrentOK(v)'
             /\ ~(pc'[v] \in InTransaction /\ v \notin overlapped')
  <2>1. /\ ReadOK(v)' /\ TodoOK(v)'
        /\ v \notin dirty' => CurrentOK(v)'
    BY <1>4, <1>6, <1>9, OtherKept
  <2>2. ~(pc'[v] \in InTransaction /\ v \notin overlapped')
    BY <1>3, <1>9 DEF CommitEffect, SnapInv, TypeOK
  <2> QED
    BY <2>1, <2>2
<1> QED
  BY <1>5, <1>6, <1>7, <1>8, <1>9 DEF SnapInv

LEMMA SnapInvNext == SnapInv /\ [Next]_vars => SnapInv'
<1> SUFFICES ASSUME SnapInv, [Next]_vars PROVE SnapInv'
  OBVIOUS
<1>1. CASE Change
  BY <1>1, SnapInvChange
<1>2. ASSUME NEW w \in Recalculation,
             Start(w) \/ Advance(w) \/ DeadlockVictim(w) \/ Crash(w)
      PROVE  SnapInv'
  BY <1>2, SnapInvRead, SnapInvFind, SnapInvDelete, SnapInvSelect,
     SnapInvInsert, SnapInvStartUpdates, SnapInvUpdate, SnapInvCommit,
     SnapInvFail DEF Advance, DeadlockVictim, Crash
<1>3. CASE UNCHANGED vars
  <2>1. TypeOK'
    BY <1>3 DEF vars, locals, SnapInv, TypeOK, Running
  <2>2. Functions'
    BY <1>3 DEF vars, locals, SnapInv, Functions
  <2>3. ASSUME NEW w \in Recalculation
        PROVE  /\ ReadOK(w)' /\ TodoOK(w)'
               /\ w \notin dirty' => CurrentOK(w)'
               /\ LoneOK(w) => LoneOK(w)'
    <3>1. ReadOK(w)'
      BY <1>3 DEF vars, locals, SnapInv, ReadOK, IsReading
    <3>2. TodoOK(w)'
      BY <1>3 DEF vars, locals, SnapInv, TodoOK, Resolved
    <3>3. w \notin dirty' => CurrentOK(w)'
      BY <1>3 DEF vars, locals, SnapInv, CurrentOK
    <3>4. /\ Resolved(w)' = Resolved(w) /\ StaleRows(w)' = StaleRows(w)
          /\ Fresh(w)' = Fresh(w) /\ Kept(w)' = Kept(w)
      BY <1>3 DEF vars, locals, Resolved, StaleRows, Fresh, Kept
    <3>5. Passed(w)' = Passed(w) /\ Ahead(w)' = Ahead(w)
      BY <1>3, <3>4 DEF vars, Passed, Ahead
    <3>6. LoneOK(w) => LoneOK(w)'
      BY <1>3, <3>4, <3>5 DEF vars, locals, LoneOK
    <3> QED
      BY <3>1, <3>2, <3>3, <3>6
  <2> QED
    BY <1>3, <2>1, <2>2, <2>3 DEF SnapInv, vars
<1> QED
  BY <1>1, <1>2, <1>3 DEF Next

(* Every row, committed or not, and all a recalculation carries have their  *)
(* types, however the statements of overlapping transactions interleave.    *)
THEOREM TypeCorrect == Spec => []TypeOK
<1>1. SnapInv => TypeOK
  BY DEF SnapInv
<1> QED
  BY <1>1, SnapInvInit, SnapInvNext, PTL DEF Spec

(* Only the COMMIT ends a recalculation with its rows in the table.         *)
LEMMA CommitsByCommit ==
    ASSUME SnapInv, Next, NEW w \in Recalculation, Commits(w)
    PROVE  Commit(w)
<1>1. pc \in [Recalculation ->
               {"idle"} \cup Reading \cup InTransaction \cup Ended]
  BY DEF SnapInv, TypeOK
<1>2. ASSUME Change PROVE FALSE
  BY <1>2 DEF Change, Commits
<1>3. ASSUME NEW v \in Recalculation, Fail(v) PROVE FALSE
  BY <1>1, <1>3 DEF Fail, Goto, Commits
<1>4. ASSUME NEW v \in Recalculation,
             \/ Start(v) \/ ReadOverrides(v) \/ ReadPlanFeatures(v)
             \/ ReadAddonFeatures(v) \/ FindExisting(v) \/ SaveSelect(v)
             \/ StartUpdates(v)
      PROVE  FALSE
  BY <1>1, <1>4 DEF Start, ReadOverrides, ReadPlanFeatures,
     ReadAddonFeatures, FindExisting, SaveSelect, StartUpdates, Goto,
     Commits
<1>5. ASSUME NEW v \in Recalculation,
             DeleteStale(v) \/ InsertRow(v) \/ UpdateRow(v)
      PROVE  FALSE
  BY <1>3, <1>5 DEF DeleteStale, InsertRow, UpdateRow, Commits
<1>6. ASSUME NEW v \in Recalculation, Commit(v) PROVE v = w
  BY <1>1, <1>6 DEF Commit, Goto, Commits
<1> QED
  BY <1>2, <1>3, <1>4, <1>5, <1>6 DEF Next, Advance, DeadlockVictim, Crash

(* A recalculation no other one commits beside replaces the snapshot by     *)
(* what it resolved, whatever rows it finds, and with unchanged inputs by   *)
(* what these amount to.                                                    *)
THEOREM LoneReplaces == Spec => LoneRecalculationReplaces
<1>1. SnapInv /\ [Next]_vars =>
        [\A w \in Recalculation :
           Commits(w) /\ w \notin overlapped =>
             /\ \A f \in Feature : Content(table'[f]) = resolved[w][f]
             /\ w \notin dirty =>
                  resolved[w] = Entitled(sub, overrides, catalog)]_vars
  <2> SUFFICES ASSUME SnapInv, Next, NEW w \in Recalculation,
                      Commits(w), w \notin overlapped
               PROVE  /\ \A f \in Feature : Content(table'[f]) = resolved[w][f]
                      /\ w \notin dirty =>
                           resolved[w] = Entitled(sub, overrides, catalog)
    OBVIOUS
  <2>1. Commit(w)
    BY CommitsByCommit
  <2>2. pc[w] = "update" /\ todo[w] = {} /\ table' = View(w)
    BY <2>1 DEF Commit
  <2>3. \A f \in Feature : Content(table'[f]) = resolved[w][f]
    BY <2>2, LoneView
  <2>4. w \notin dirty => resolved[w] = Entitled(sub, overrides, catalog)
    BY <2>2 DEF SnapInv, CurrentOK
  <2> QED
    BY <2>3, <2>4
<1> QED
  BY <1>1, SnapInvInit, SnapInvNext, PTL DEF Spec, LoneRecalculationReplaces

-----------------------------------------------------------------------------
(* What a commit grants                                                     *)

(* The entitlements map obeys the rules for the subscription s, the plan    *)
(* features of the catalog c, the addon features of the catalog d and the   *)
(* overrides o.                                                             *)
Obeys(map, s, c, d, o) ==
    \A f \in Feature :
        RulesFor(map[f], c.plan[s.plan][f],
                 RowsAbout(Quantified(s, AddonRowsFor(s, d)), f), RowsAbout(o, f))

LEMMA ResolvedObeys ==
    ASSUME NEW s \in SubscriptionStates \ {Null}, NEW o \in OverrideStates,
           NEW c \in CatalogStates, NEW d \in CatalogStates
    PROVE  Obeys(Resolve(s, c.plan[s.plan], AddonRowsFor(s, d), o), s, c, d, o)
<1>1. PICK pf : pf = c.plan[s.plan] /\ pf \in PlanFeatures
  BY SubscriptionAssumption, CatalogAssumption
<1>2. PICK A : A = AddonRowsFor(s, d) /\ Subscribed(s, A)
  BY AddonRowsSubscribed
<1>3. o \in SUBSET Override /\ IsFiniteSet(o) /\ OnePerFeature(o)
      /\ \A x \in o : IsOverrideActive(x, 0)
  BY OverrideAssumption DEF OnePerFeature
<1>4. ASSUME NEW f \in Feature
      PROVE  RulesFor(Resolve(s, pf, A, o)[f], pf[f],
                      RowsAbout(Quantified(s, A), f), RowsAbout(o, f))
  BY <1>1, <1>2, <1>3, ResolveFollowsRules
<1> QED
  BY <1>1, <1>2, <1>4 DEF Obeys

CommitObeys(w) ==
    LET map == [f \in Feature |-> Content(table'[f])]
    IN /\ \E s \in SubscriptionStates \ {Null}, o \in OverrideStates,
             c, d \in CatalogStates : Obeys(map, s, c, d, o)
       /\ w \notin dirty => Obeys(map, sub, catalog, catalog, overrides)

(* What a recalculation commits, if no other one commits beside it, obeys   *)
(* the documented rules for inputs that were there while it ran, and for    *)
(* those there now if none has changed; whatever rows it found, however     *)
(* many it read and however they were ordered.                              *)
THEOREM CommitObeysRules ==
    Spec => [][\A w \in Recalculation :
                 Commits(w) /\ w \notin overlapped => CommitObeys(w)]_vars
<1>1. ASSUME SnapInv, Next, NEW w \in Recalculation,
             Commits(w), w \notin overlapped
      PROVE  CommitObeys(w)
  <2>1. pc[w] = "update" /\ todo[w] = {} /\ table' = View(w)
    BY <1>1, CommitsByCommit DEF Commit
  <2>2. PICK m : m = resolved[w] /\ m \in Entitlements /\ IsReading(m)
    BY <1>1, <2>1 DEF SnapInv, TypeOK, ReadOK
  <2>3. [f \in Feature |-> Content(table'[f])] = m
    <3>1. \A f \in Feature : Content(table'[f]) = m[f]
      BY <1>1, <2>1, <2>2, LoneView
    <3> QED
      BY <2>2, <3>1 DEF Entitlements
  <2>4. \E s \in SubscriptionStates \ {Null}, o \in OverrideStates,
           c, d \in CatalogStates : Obeys(m, s, c, d, o)
    BY <2>2, ResolvedObeys DEF IsReading
  <2>5. w \notin dirty => Obeys(m, sub, catalog, catalog, overrides)
    <3> SUFFICES ASSUME w \notin dirty
                 PROVE  Obeys(m, sub, catalog, catalog, overrides)
      OBVIOUS
    <3>1. m = Entitled(sub, overrides, catalog)
      BY <1>1, <2>1, <2>2 DEF SnapInv, CurrentOK
    <3>2. /\ sub \in SubscriptionStates \ {Null} /\ overrides \in OverrideStates
          /\ catalog \in CatalogStates
      BY <1>1, <2>1 DEF SnapInv, TypeOK, CurrentOK
    <3> QED
      BY <3>1, <3>2, ResolvedObeys DEF Entitled
  <2> QED
    BY <2>3, <2>4, <2>5 DEF CommitObeys
<1>2. SnapInv /\ [Next]_vars =>
        [\A w \in Recalculation :
           Commits(w) /\ w \notin overlapped => CommitObeys(w)]_vars
  BY <1>1
<1> QED
  BY <1>2, SnapInvInit, SnapInvNext, PTL DEF Spec

-----------------------------------------------------------------------------
(* The statements implement the promise                                     *)

(* The resolver under the instance is the resolver.                         *)
LEMMA PromiseResolve ==
    ASSUME NEW s, NEW p, NEW a, NEW o
    PROVE  Promise!Resolve(s, p, a, o) = Resolve(s, p, a, o)
  BY DEF Promise!Resolve, Resolve, Promise!WithQuantity, WithQuantity,
     Promise!Quantity, Quantity, Promise!Merge,
     Merge, Promise!FromPlan, FromPlan, Promise!IsOverrideActive,
     IsOverrideActive, Promise!AddonStep, AddonStep, Promise!FromAddon,
     FromAddon, Promise!Extended, Extended, Promise!Capacity, Capacity,
     Promise!AddLimit, AddLimit, Promise!MorePermissive, MorePermissive,
     Promise!OVERAGE_POLICY_RANK, OVERAGE_POLICY_RANK, Promise!OverrideStep,
     OverrideStep, Promise!FromOverride, FromOverride, Promise!Overridden,
     Overridden, Promise!SetToSeq, SetToSeq, Promise!FoldLeft, FoldLeft,
     Promise!IsInjective, IsInjective, Promise!MapThenFoldSet, MapThenFoldSet,
     Promise!Max, Max, Promise!Cardinality, Cardinality

LEMMA PromiseEntitled ==
    /\ Promise!Entitlements = Entitlements
    /\ \A s, c : Promise!AddonRowsFor(s, c) = AddonRowsFor(s, c)
    /\ \A s, o, c : Promise!Entitled(s, o, c) = Entitled(s, o, c)
<1>1. Promise!Entitlements = Entitlements
  BY DEF Promise!Entitlements, Entitlements, Promise!Entitlement, Entitlement,
     Promise!Limit, Limit, Promise!OveragePolicy, OveragePolicy,
     Promise!SourceType, SourceType
<1>2. \A s, c : Promise!AddonRowsFor(s, c) = AddonRowsFor(s, c)
  BY DEF Promise!AddonRowsFor, AddonRowsFor
<1>3. \A s, o, c : Promise!Entitled(s, o, c) = Entitled(s, o, c)
  BY <1>2, PromiseResolve DEF Promise!Entitled, Entitled
<1> QED
  BY <1>1, <1>2, <1>3

LEMMA PromiseInit == Init => Promise!Init
<1> SUFFICES ASSUME Init PROVE Promise!Init
  OBVIOUS
<1>1. Entitled(sub, overrides, catalog) \in Entitlements
  BY ResolvedTyped DEF Init, InputsInit, Entitled
<1>2. PICK ent : ent = Entitled(sub, overrides, catalog)
  OBVIOUS
<1>3. [f \in Feature |-> Content(table[f])]
        \in {[f \in Feature |-> Null], Entitled(sub, overrides, catalog)}
  <2>1. CASE table = NoRows
    BY <2>1 DEF NoRows, Content
  <2>2. CASE table # NoRows
    <3>1. /\ table = RowsOf(ent, "earlier")
          /\ \A f \in Feature : table[f] # Null => Fits(table[f].ent)
      BY <1>2, <2>2 DEF Init
    <3>2. ASSUME NEW f \in Feature PROVE Content(table[f]) = ent[f]
      <4>1. CASE ent[f] = Null
        BY <3>1, <4>1 DEF RowsOf, Content
      <4>2. CASE ent[f] # Null
        <5>1. table[f] = [id |-> "earlier", ent |-> ent[f]]
              /\ ent[f] \in Entitlement
          BY <1>1, <1>2, <3>1, <4>2 DEF RowsOf, Entitlements
        <5>2. table[f] # Null
          BY <5>1, RowAssumption
        <5> QED
          BY <5>1, <5>2 DEF Content
      <4> QED
        BY <4>1, <4>2
    <3>3. ent = [f \in Feature |-> ent[f]]
      BY <1>1, <1>2 DEF Entitlements
    <3> QED
      BY <1>2, <3>2, <3>3
  <2> QED
    BY <2>1, <2>2
<1>4. Running = {} /\ dirty = {} /\ overlapped = {}
  BY DEF Init, Running
<1> QED
  BY <1>3, <1>4, PromiseEntitled DEF Init, Promise!Init, Promise!InputsInit,
     InputsInit, Promise!NoEntitlements

LEMMA PromiseAbandon ==
    ASSUME SnapInv, NEW w \in Running, Fail(w)
    PROVE  Promise!Abandon(w)
<1>1. Running' = Running \ {w}
  BY DEF Fail, Goto, Running, SnapInv, TypeOK
<1> QED
  BY <1>1 DEF Fail, Promise!Abandon, Promise!End, Promise!inputs, inputs

LEMMA PromiseEnd ==
    ASSUME SnapInv, NEW w \in Recalculation, Commit(w)
    PROVE  /\ Promise!End(w) /\ Promise!Overlap(w)
           /\ w \notin overlapped =>
                [f \in Feature |-> Content(table[f])]' = resolved[w]
           /\ [f \in Feature |-> Content(table[f])]' \in Entitlements
<1>1. CommitEffect(w)
  BY DEF Commit, CommitEffect, Goto, inputs
<1>2. w \in Running /\ Running' = Running \ {w}
  BY <1>1 DEF CommitEffect, Running, SnapInv, TypeOK
<1>3. Promise!End(w)
  BY <1>1, <1>2 DEF Commit, Promise!End, Promise!inputs, inputs
<1>4. Promise!Overlap(w)
  <2>1. {v \in Recalculation \ {w} : pc[v] \in InTransaction}
          \in SUBSET (Running \ {w})
    BY DEF Running
  <2> QED
    BY <2>1 DEF Commit, Promise!Overlap
<1>5. table' \in [Feature -> Row \cup {Null}]
  BY ViewTyped DEF Commit
<1>6. [f \in Feature |-> Content(table[f])]' \in Entitlements
  BY <1>5 DEF Content, Row, Entitlements
<1>7. ASSUME w \notin overlapped
      PROVE  [f \in Feature |-> Content(table[f])]' = resolved[w]
  <2>1. \A f \in Feature : Content(table'[f]) = resolved[w][f]
    BY <1>7, LoneView DEF Commit
  <2>2. resolved[w] \in Entitlements
    BY DEF SnapInv, TypeOK
  <2>3. resolved[w] = [f \in Feature |-> resolved[w][f]]
    BY <2>2 DEF Entitlements
  <2> QED
    BY <2>1, <2>3
<1> QED
  BY <1>3, <1>4, <1>6, <1>7

LEMMA PromiseCommit ==
    ASSUME SnapInv, NEW w \in Recalculation, Commit(w)
    PROVE  Promise!Replace(w) \/ Promise!Tear(w)
<1>1. CASE w \in overlapped
  BY <1>1, PromiseEnd, PromiseEntitled DEF Promise!Tear
<1>2. CASE w \notin overlapped
  <2>1. pc[w] = "update"
    BY DEF Commit
  <2>2. CASE w \in dirty
    <3>1. IsReading(resolved[w])
      BY <2>1 DEF SnapInv, ReadOK
    <3> QED
      BY <1>2, <2>2, <3>1, PromiseEnd, PromiseResolve, PromiseEntitled
         DEF IsReading, Promise!Replace
  <2>3. CASE w \notin dirty
    <3>1. resolved[w] = Entitled(sub, overrides, catalog)
      BY <2>1, <2>3 DEF SnapInv, CurrentOK
    <3> QED
      BY <1>2, <2>3, <3>1, PromiseEnd, PromiseEntitled DEF Promise!Replace
  <2> QED
    BY <2>2, <2>3
<1> QED
  BY <1>1, <1>2

LEMMA PromiseNext == SnapInv /\ [Next]_vars => [Promise!Next]_(Promise!vars)
<1> SUFFICES ASSUME SnapInv, [Next]_vars
             PROVE  Promise!Next \/ UNCHANGED Promise!vars
  OBVIOUS
<1>0. pc \in [Recalculation ->
               {"idle"} \cup Reading \cup InTransaction \cup Ended]
  BY DEF SnapInv, TypeOK
<1>1. CASE Change
  <2>1. Promise!Change
    BY <1>1 DEF Change, Promise!Change, Running, ChangeInputs,
       Promise!ChangeInputs, ChangeSubscription, Promise!ChangeSubscription,
       ChangeOverrides, Promise!ChangeOverrides, ChangeCatalog,
       Promise!ChangeCatalog
  <2> QED
    BY <2>1 DEF Promise!Next
<1>2. ASSUME NEW w \in Recalculation, Start(w)
      PROVE  Promise!Begin(w) \/ UNCHANGED Promise!vars
  <2>1. CASE sub = Null
    <3>1. Running' = Running
      BY <1>0, <1>2, <2>1 DEF Start, Goto, Running
    <3> QED
      BY <1>2, <3>1 DEF Start, inputs, Promise!vars
  <2>2. CASE sub # Null
    <3>1. w \notin Running /\ Running' = Running \cup {w}
      BY <1>0, <1>2, <2>2 DEF Start, Goto, Running
    <3> QED
      BY <1>2, <2>2, <3>1 DEF Start, inputs, Promise!Begin, Promise!inputs
  <2> QED
    BY <2>1, <2>2
<1>3. ASSUME NEW w \in Running, Fail(w)
      PROVE  Promise!Next
  <2>1. Promise!Abandon(w) /\ w \in Recalculation
    BY <1>3, PromiseAbandon DEF Running
  <2> QED
    BY <2>1 DEF Promise!Next
<1>4. ASSUME NEW w \in Recalculation,
             \/ ReadOverrides(w) \/ ReadPlanFeatures(w) \/ ReadAddonFeatures(w)
             \/ FindExisting(w) \/ SaveSelect(w) \/ StartUpdates(w)
      PROVE  UNCHANGED Promise!vars
  <2>1. Running' = Running
    BY <1>0, <1>4 DEF ReadOverrides, ReadPlanFeatures, ReadAddonFeatures,
       FindExisting, SaveSelect, StartUpdates, Goto, Running
  <2> QED
    BY <1>4, <2>1 DEF ReadOverrides, ReadPlanFeatures, ReadAddonFeatures,
       FindExisting, SaveSelect, StartUpdates, inputs, Promise!vars
<1>5. ASSUME NEW w \in Recalculation,
             DeleteStale(w) \/ InsertRow(w) \/ UpdateRow(w)
      PROVE  Promise!Next \/ UNCHANGED Promise!vars
  <2>1. w \in Running
    BY <1>0, <1>5 DEF DeleteStale, InsertRow, UpdateRow, Running
  <2>2. Fail(w) \/ UNCHANGED <<inputs, table, pc, dirty, overlapped>>
    BY <1>5 DEF DeleteStale, InsertRow, UpdateRow
  <2>3. CASE UNCHANGED <<inputs, table, pc, dirty, overlapped>>
    BY <2>3 DEF Running, inputs, Promise!vars
  <2> QED
    BY <1>3, <2>1, <2>2, <2>3
<1>6. ASSUME NEW w \in Recalculation, DeadlockVictim(w) \/ Crash(w)
      PROVE  Promise!Next
  BY <1>3, <1>6 DEF DeadlockVictim, Deadlocked, WaitsFor, Crash, Running
<1>7. CASE UNCHANGED vars
  BY <1>7 DEF vars, Running, Promise!vars
<1> QED
  BY <1>1, <1>2, <1>4, <1>5, <1>6, <1>7, PromiseCommit
     DEF Next, Advance, Promise!Next

(* However the statements of overlapping transactions interleave with       *)
(* failures, crashes and changing inputs, every step of recalculate is a    *)
(* step SnapshotReplace allows, or changes nothing it speaks of.            *)
THEOREM ImplementsReplace ==
    Spec => Promise!Init /\ [][Promise!Next]_(Promise!vars)
<1> QED
  BY SnapInvInit, SnapInvNext, PromiseInit, PromiseNext, PTL DEF Spec

-----------------------------------------------------------------------------
(* Recalculations one at a time                                             *)

SerialInv ==
    /\ IsFiniteSet(Running)
    /\ \A v, w \in Running : v = w
    /\ overlapped = {}

LEMMA SerialInit == Init => SerialInv
<1> SUFFICES ASSUME Init PROVE SerialInv
  OBVIOUS
<1>1. Running = {}
  BY DEF Init, Running
<1> QED
  BY <1>1, FS_EmptySet DEF Init, SerialInv

LEMMA SerialNext ==
    ASSUME MaxConcurrent = 1, SnapInv, SerialInv, [Next]_vars
    PROVE  SerialInv'
<1>0. pc \in [Recalculation ->
               {"idle"} \cup Reading \cup InTransaction \cup Ended]
  BY DEF SnapInv, TypeOK
<1>1. ASSUME Running' = Running, overlapped' = overlapped
      PROVE  SerialInv'
  BY <1>1 DEF SerialInv
<1>2. ASSUME NEW w \in Running, Running' = Running \ {w},
             overlapped' \subseteq (overlapped \ {w}) \cup (Running \ {w})
      PROVE  SerialInv'
  <2>1. Running' = {} /\ overlapped' = {}
    BY <1>2 DEF SerialInv
  <2> QED
    BY <2>1, FS_EmptySet DEF SerialInv
<1>3. ASSUME NEW w \in Recalculation, Start(w)
      PROVE  SerialInv'
  <2>1. Running = {}
    <3>1. PICK S : S = Running /\ IsFiniteSet(S) /\ Cardinality(S) < 1
      BY <1>3 DEF SerialInv, Start
    <3>2. Cardinality(S) = 0
      BY <3>1, FS_CardinalityType
    <3> QED
      BY <3>1, <3>2, FS_EmptySet
  <2>2. Running' \in SUBSET {w}
    BY <1>0, <1>3, <2>1 DEF Start, Goto, Running
  <2>3. IsFiniteSet(Running')
    BY <2>2, FS_Singleton, FS_Subset
  <2> QED
    BY <1>3, <2>2, <2>3 DEF SerialInv, Start
<1>4. ASSUME NEW w \in Running, Fail(w)
      PROVE  SerialInv'
  <2>1. Running' = Running \ {w} /\ overlapped' = overlapped \ {w}
    BY <1>0, <1>4 DEF Fail, Goto, Running
  <2> QED
    BY <1>2, <2>1
<1>5. ASSUME NEW w \in Recalculation, Commit(w)
      PROVE  SerialInv'
  <2>1. w \in Running /\ Running' = Running \ {w}
    BY <1>0, <1>5 DEF Commit, Goto, Running
  <2>2. overlapped' \subseteq (overlapped \ {w}) \cup (Running \ {w})
    BY <1>5 DEF Commit, Running
  <2> QED
    BY <1>2, <2>1, <2>2
<1>6. ASSUME NEW w \in Recalculation,
             \/ ReadOverrides(w) \/ ReadPlanFeatures(w) \/ ReadAddonFeatures(w)
             \/ FindExisting(w) \/ SaveSelect(w) \/ StartUpdates(w)
      PROVE  SerialInv'
  <2>1. Running' = Running
    BY <1>0, <1>6 DEF ReadOverrides, ReadPlanFeatures, ReadAddonFeatures,
       FindExisting, SaveSelect, StartUpdates, Goto, Running
  <2>2. overlapped' = overlapped
    BY <1>6 DEF ReadOverrides, ReadPlanFeatures, ReadAddonFeatures,
       FindExisting, SaveSelect, StartUpdates
  <2> QED
    BY <1>1, <2>1, <2>2
<1>7. ASSUME NEW w \in Recalculation,
             DeleteStale(w) \/ InsertRow(w) \/ UpdateRow(w)
      PROVE  SerialInv'
  <2>1. w \in Running
    BY <1>0, <1>7 DEF DeleteStale, InsertRow, UpdateRow, Running
  <2>2. Fail(w) \/ UNCHANGED <<pc, overlapped>>
    BY <1>7 DEF DeleteStale, InsertRow, UpdateRow
  <2>3. CASE UNCHANGED <<pc, overlapped>>
    BY <1>1, <2>3 DEF Running
  <2> QED
    BY <1>4, <2>1, <2>2, <2>3
<1>8. ASSUME NEW w \in Recalculation, DeadlockVictim(w) \/ Crash(w)
      PROVE  SerialInv'
  BY <1>4, <1>8 DEF DeadlockVictim, Deadlocked, WaitsFor, Crash, Running
<1>9. CASE Change \/ UNCHANGED vars
  BY <1>1, <1>9 DEF Change, vars, Running
<1> QED
  BY <1>3, <1>5, <1>6, <1>7, <1>8, <1>9 DEF Next, Advance

(* As long as one recalculation runs at a time, the comment of the service  *)
(* is true: a commit replaces all rows, and no step leaves a mixture, so    *)
(* that AccessDecision may do without Tear.                                 *)
THEOREM SerialReplaces ==
    ASSUME MaxConcurrent = 1
    PROVE  Spec => /\ CommitReplacesAllRows
                   /\ [][\A w \in Recalculation : ~Promise!Tear(w)]_vars
<1>1. SerialInv => \A w \in Recalculation : ~Promise!Tear(w)
  BY DEF SerialInv, Promise!Tear
<1>2. SnapInv /\ SerialInv /\ [Next]_vars =>
        [\A w \in Recalculation : Commits(w) =>
           \A f \in Feature : Content(table'[f]) = resolved[w][f]]_vars
  <2> SUFFICES ASSUME SnapInv, SerialInv, Next, NEW w \in Recalculation,
                      Commits(w), NEW f \in Feature
               PROVE  Content(table'[f]) = resolved[w][f]
    OBVIOUS
  <2>1. /\ pc[w] = "update" /\ todo[w] = {} /\ table' = View(w)
        /\ w \notin overlapped
    BY CommitsByCommit DEF Commit, SerialInv
  <2> QED
    BY <2>1, LoneView
<1>3. SnapInv /\ SerialInv /\ [Next]_vars => SerialInv'
  BY SerialNext
<1>4. SerialInv => [\A w \in Recalculation : ~Promise!Tear(w)]_vars
  BY <1>1
<1> QED
  BY <1>2, <1>3, <1>4, SnapInvInit, SnapInvNext, SerialInit, PTL
     DEF Spec, CommitReplacesAllRows
=============================================================================
