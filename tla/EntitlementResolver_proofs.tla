------------------------ MODULE EntitlementResolver_proofs ------------------------
(****************************************************************************)
(* What the operators of the merge compute, for any number of rows.  Merge  *)
(* is a fold, a recursive function on the subsets of the positions of a     *)
(* sequence; its value is compared with one that needs no recursion, by     *)
(* looking at a smallest subset on which the two differ.                    *)
(****************************************************************************)
EXTENDS EntitlementResolver, FiniteSetTheorems, TLAPS

USE DEF OveragePolicy, OVERAGE_POLICY_RANK

-----------------------------------------------------------------------------
(* The steps on one entry                                                   *)

LEMMA PolicyRank ==
    ASSUME NEW a \in OveragePolicy, NEW b \in OveragePolicy
    PROVE  /\ MorePermissive(a, b) \in {a, b}
           /\ OVERAGE_POLICY_RANK[MorePermissive(a, b)] >= OVERAGE_POLICY_RANK[a]
           /\ OVERAGE_POLICY_RANK[MorePermissive(a, b)] >= OVERAGE_POLICY_RANK[b]
           /\ MorePermissive(a, b) = MorePermissive(b, a)
  BY DEF MorePermissive

LEMMA CapacityTyped ==
    ASSUME NEW af \in AddonFeature
    PROVE  /\ Capacity(af) \in Limit
           /\ Capacity(af) = Null <=> af.includedLimit = Null
<1>1. CASE af.includedLimit = Null
  BY <1>1 DEF Capacity, Limit
<1>2. CASE af.includedLimit # Null
  <2>1. af.includedLimit \in Nat /\ af.quantity \in Nat
    BY <1>2 DEF AddonFeature, Limit
  <2>2. \A i, j \in Nat : i * j \in Nat
    OBVIOUS
  <2>3. af.includedLimit * af.quantity \in Nat
    BY <2>1, <2>2
  <2> QED
    BY <1>2, <2>3, NullAssumption DEF Capacity, Limit
<1> QED
  BY <1>1, <1>2

LEMMA AddLimitTyped ==
    ASSUME NEW a \in Limit, NEW b \in Limit
    PROVE  /\ AddLimit(a, b) \in Limit
           /\ AddLimit(a, b) = AddLimit(b, a)
           /\ AddLimit(a, b) = Null <=> a = Null \/ b = Null
  BY NullAssumption DEF AddLimit, Limit

LEMMA AddLimitAssociates ==
    ASSUME NEW a \in Limit, NEW b \in Limit, NEW c \in Limit
    PROVE  AddLimit(AddLimit(a, b), c) = AddLimit(AddLimit(a, c), b)
  BY NullAssumption DEF AddLimit, Limit

LEMMA FromPlanTyped ==
    ASSUME NEW p \in PlanFeatures
    PROVE  FromPlan(p) \in Entitlements
<1>1. ASSUME NEW f \in Feature, p[f] # Null
      PROVE  p[f] \in Terms
  BY <1>1 DEF PlanFeatures
<1> QED
  BY <1>1 DEF FromPlan, Entitlements, Entitlement, SourceType, Terms

LEMMA FromAddonTyped ==
    ASSUME NEW af \in AddonFeature
    PROVE  FromAddon(af) \in Entitlement
  BY CapacityTyped DEF FromAddon, Entitlement, AddonFeature, SourceType

LEMMA ExtendedTyped ==
    ASSUME NEW e \in Entitlement, NEW af \in AddonFeature
    PROVE  /\ Extended(e, af) \in Entitlement
           /\ OVERAGE_POLICY_RANK[Extended(e, af).overagePolicy]
                >= OVERAGE_POLICY_RANK[e.overagePolicy]
<1>1. /\ e.effectiveLimit \in Limit /\ e.overagePolicy \in OveragePolicy
      /\ af.overagePolicy \in OveragePolicy /\ e.isEnabled \in BOOLEAN
  BY DEF Entitlement, AddonFeature
<1>2. AddLimit(e.effectiveLimit, Capacity(af)) \in Limit
  BY <1>1, CapacityTyped, AddLimitTyped
<1>3. MorePermissive(e.overagePolicy, af.overagePolicy) \in OveragePolicy
  BY <1>1, PolicyRank
<1> QED
  BY <1>1, <1>2, <1>3, PolicyRank DEF Extended, Entitlement, SourceType

LEMMA OverriddenTyped ==
    ASSUME NEW e \in Entitlement, NEW o \in Override
    PROVE  Overridden(e, o) \in Entitlement
  BY DEF Overridden, Entitlement, Override, SourceType

LEMMA FromOverrideTyped ==
    ASSUME NEW o \in Override
    PROVE  FromOverride(o) \in Entitlement
  BY DEF FromOverride, Entitlement, Override, SourceType

LEMMA AddonStepTyped ==
    ASSUME NEW m \in Entitlements, NEW af \in AddonFeature
    PROVE  AddonStep(m, af) \in Entitlements
<1>1. /\ af.feature \in Feature
      /\ m[af.feature] # Null => m[af.feature] \in Entitlement
  BY DEF AddonFeature, Entitlements
<1> QED
  BY <1>1, FromAddonTyped, ExtendedTyped DEF AddonStep, Entitlements

LEMMA OverrideStepTyped ==
    ASSUME NEW m \in Entitlements, NEW o \in Override
    PROVE  OverrideStep(m, o) \in Entitlements
<1>1. /\ o.feature \in Feature
      /\ m[o.feature] # Null => m[o.feature] \in Entitlement
      /\ FromOverride(o) \in Entitlement
  BY FromOverrideTyped DEF Override, Entitlements
<1> QED
  BY <1>1, OverriddenTyped DEF OverrideStep, Entitlements

-----------------------------------------------------------------------------
(* Recursion over the subsets of a finite set                               *)

LEMMA SmallestSubset ==
    ASSUME NEW S, IsFiniteSet(S), NEW T, T \subseteq SUBSET S, T # {}
    PROVE  \E x \in T : \A y \in T : y \subseteq x => y = x
<1>1. IsWellFoundedOn(StrictSubsetOrdering(S), SUBSET S)
  BY FS_StrictSubsetOrderingWellFounded, FS_FiniteSubsetsOfFinite
<1>2. PICK x \in T : \A y \in T : ~ (<<y, x>> \in StrictSubsetOrdering(S))
  BY <1>1, WFMin
<1> QED
  BY <1>2 DEF StrictSubsetOrdering

SameSteps(g, h, S, c) ==
    /\ g[{}] = h[{}]
    /\ \A s \in SUBSET S : s # {} =>
         /\ c[s] \in s
         /\ g[s \ {c[s]}] = h[s \ {c[s]}] => g[s] = h[s]

LEMMA SameOnSubsets ==
    ASSUME NEW S, IsFiniteSet(S), NEW g, NEW h, NEW c, SameSteps(g, h, S, c)
    PROVE  \A s \in SUBSET S : g[s] = h[s]
<1> USE DEF SameSteps
<1> DEFINE T == {s \in SUBSET S : g[s] # h[s]}
<1> SUFFICES ASSUME T # {} PROVE FALSE
  OBVIOUS
<1>1. PICK x \in T : \A y \in T : y \subseteq x => y = x
  <2> HIDE DEF T
  <2>1. T \subseteq SUBSET S
    BY DEF T
  <2> QED
    BY <2>1, SmallestSubset
<1>2. x # {} /\ c[x] \in x
  OBVIOUS
<1>3. x \ {c[x]} \in T
  BY <1>2
<1> QED
  BY <1>1, <1>2, <1>3

Folds(g, S, base, step, c) ==
    \A s \in SUBSET S :
        g[s] = IF s = {} THEN base ELSE step[<<g[s \ {c[s]}], c[s]>>]

LEMMA FoldExists ==
    ASSUME NEW S, IsFiniteSet(S), NEW X, NEW base \in X,
           NEW step \in [X \X S -> X], NEW c,
           \A s \in SUBSET S : s # {} => c[s] \in s
    PROVE  \E g \in [SUBSET S -> X] : Folds(g, S, base, step, c)
<1> DEFINE Has(s) == \E g \in [SUBSET s -> X] : Folds(g, s, base, step, c)
           G(s) == CHOOSE g \in [SUBSET s -> X] : Folds(g, s, base, step, c)
           T == {s \in SUBSET S : ~Has(s)}
<1>1. \A s : Has(s) => G(s) \in [SUBSET s -> X] /\ Folds(G(s), s, base, step, c)
  BY Zenon
<1>2. ASSUME NEW s \in SUBSET S, NEW t \in SUBSET s, Has(s), Has(t)
      PROVE  G(s)[t] = G(t)[t]
  <2>1. IsFiniteSet(t)
    BY FS_Subset
  <2>2. PICK g : g = G(s) /\ Folds(g, s, base, step, c)
    BY <1>1, <1>2
  <2>3. PICK h : h = G(t) /\ Folds(h, t, base, step, c)
    BY <1>1, <1>2
  <2>4. g[{}] = h[{}]
    BY <2>2, <2>3 DEF Folds
  <2>5. ASSUME NEW u \in SUBSET t, u # {}
        PROVE  /\ c[u] \in u
               /\ g[u \ {c[u]}] = h[u \ {c[u]}] => g[u] = h[u]
    <3>1. u \in SUBSET S /\ u \in SUBSET s
      OBVIOUS
    <3>2. /\ g[u] = step[<<g[u \ {c[u]}], c[u]>>]
          /\ h[u] = step[<<h[u \ {c[u]}], c[u]>>]
      <4> HIDE DEF G, Has
      <4> QED
        BY <2>2, <2>3, <2>5, <3>1 DEF Folds
    <3> QED
      BY <2>5, <3>1, <3>2
  <2>6. g[t] = h[t]
    <3> HIDE DEF G, Has
    <3>1. SameSteps(g, h, t, c)
      BY <2>4, <2>5 DEF SameSteps
    <3> QED
      BY <2>1, <3>1, SameOnSubsets
  <2> QED
    BY <2>2, <2>3, <2>6
<1>3. ASSUME NEW s \in SUBSET S,
             \A t \in SUBSET s : t # s => Has(t)
      PROVE  Has(s)
  <2> DEFINE h == [t \in SUBSET s |-> IF t = {} THEN base
                     ELSE step[<<G(t \ {c[t]})[t \ {c[t]}], c[t]>>]]
  <2>1. ASSUME NEW t \in SUBSET s, t # {}
        PROVE  /\ c[t] \in t /\ c[t] \in S /\ t \ {c[t]} \in SUBSET s
               /\ Has(t \ {c[t]})
               /\ G(t \ {c[t]})[t \ {c[t]}] \in X
    <3>1. c[t] \in t /\ c[t] \in S /\ t \ {c[t]} \in SUBSET s /\ t \ {c[t]} # s
      BY <2>1
    <3>2. Has(t \ {c[t]})
      BY <1>3, <3>1
    <3>3. G(t \ {c[t]}) \in [SUBSET (t \ {c[t]}) -> X]
      BY <1>1, <3>2
    <3> HIDE DEF Has, G
    <3> QED
      BY <3>1, <3>2, <3>3
  <2>2. h \in [SUBSET s -> X]
    <3> HIDE DEF Has, G
    <3> QED
      BY <2>1
  <2>3. ASSUME NEW t \in SUBSET s, t # s
        PROVE  h[t] = G(t)[t]
    <3>1. Has(t) /\ Folds(G(t), t, base, step, c)
      BY <1>1, <1>3, <2>3
    <3>2. CASE t = {}
      <4> HIDE DEF Has, G
      <4> QED
        BY <3>1, <3>2 DEF Folds
    <3>3. CASE t # {}
      <4>1. PICK v : v = t \ {c[t]}
        OBVIOUS
      <4>2. v \in SUBSET t /\ Has(v)
        BY <2>1, <3>3, <4>1
      <4>3. G(t)[v] = G(v)[v]
        BY <1>2, <3>1, <4>2
      <4> HIDE DEF Has, G
      <4> QED
        BY <3>1, <3>3, <4>1, <4>3 DEF Folds
    <3> QED
      BY <3>2, <3>3
  <2>4. Folds(h, s, base, step, c)
    <3> SUFFICES ASSUME NEW t \in SUBSET s
                 PROVE  h[t] = IF t = {} THEN base
                               ELSE step[<<h[t \ {c[t]}], c[t]>>]
      BY DEF Folds
    <3>1. CASE t = {}
      BY <3>1
    <3>2. CASE t # {}
      <4>1. PICK v : v = t \ {c[t]}
        OBVIOUS
      <4>2. v \in SUBSET s /\ v # s
        BY <2>1, <3>2, <4>1
      <4>3. h[v] = G(v)[v]
        BY <2>3, <4>2
      <4> HIDE DEF Has, G
      <4> QED
        BY <3>2, <4>1, <4>3
    <3> QED
      BY <3>1, <3>2
  <2> HIDE DEF h
  <2> QED
    BY <2>2, <2>4
<1>4. ASSUME T # {} PROVE FALSE
  <2>1. PICK x \in T : \A y \in T : y \subseteq x => y = x
    <3>1. T \subseteq SUBSET S
      OBVIOUS
    <3> HIDE DEF T
    <3> QED
      BY <1>4, <3>1, SmallestSubset
  <2> HIDE DEF Has
  <2>2. \A t \in SUBSET x : t # x => Has(t)
    BY <2>1
  <2> QED
    BY <1>3, <2>1, <2>2
<1> QED
  BY <1>4

-----------------------------------------------------------------------------
(* Sequences that hold each element of a set once                           *)

(* What q holds at the positions s.                                         *)
HeldAt(q, s) == {q[i] : i \in s}

EnumeratesTo(q, n, S) ==
    /\ q \in [1..n -> S]
    /\ \A i, j \in 1..n : q[i] = q[j] => i = j
    /\ HeldAt(q, 1..n) = S

Enumerates(q, S) == \E n \in Nat : EnumeratesTo(q, n, S)

LEMMA SetToSeqEnumerates ==
    ASSUME NEW S, IsFiniteSet(S)
    PROVE  Enumerates(SetToSeq(S), S)
<1> DEFINE n == Cardinality(S)
           q == SetToSeq(S)
<1>1. n \in Nat /\ ExistsBijection(1..n, S)
  BY FS_CardinalityType
<1>2. \E f \in [1..n -> S] : IsInjective(f)
  BY <1>1, Zenon DEF ExistsBijection, Bijection, Injection
<1>3. q \in [1..n -> S] /\ IsInjective(q)
  BY <1>2, Zenon DEF SetToSeq
<1>4. IsFiniteSet(1..n) /\ Cardinality(1..n) = n
  BY <1>1, FS_Interval
<1>5. q \in Injection(1..n, S)
  BY <1>3 DEF Injection
<1>6. q \in Surjection(1..n, S)
  BY <1>4, <1>5, FS_Injection
<1> HIDE DEF n, q
<1>7. {q[i] : i \in 1..n} = S
  BY <1>3, <1>6 DEF Surjection
<1>8. \A i, j \in 1..n : q[i] = q[j] => i = j
  BY <1>3 DEF IsInjective
<1> QED
  BY <1>1, <1>3, <1>7, <1>8 DEF Enumerates, EnumeratesTo, HeldAt, q

(* The last of some positions, which the folds take off first.              *)
LEMMA LastPosition ==
    ASSUME NEW n \in Nat, NEW s \in SUBSET (1..n), s # {}
    PROVE  Max(s) \in s
<1> DEFINE T == {(x + 1) .. n : x \in s}
<1>1. PICK t \in T : \A u \in T : u \subseteq t => u = t
  <2>1. \A x \in s : (x + 1) .. n \in SUBSET (1..n)
    OBVIOUS
  <2>2. T \in SUBSET SUBSET (1..n) /\ T # {}
    BY <2>1
  <2>3. IsFiniteSet(1..n)
    BY FS_Interval
  <2>4. PICK D, U : D = 1..n /\ U = T
    OBVIOUS
  <2>5. IsFiniteSet(D) /\ U \in SUBSET SUBSET D /\ U # {}
    BY <2>2, <2>3, <2>4
  <2>6. \E t \in U : \A u \in U : u \subseteq t => u = t
    BY <2>5, SmallestSubset
  <2> HIDE DEF T
  <2> QED
    BY <2>4, <2>6
<1>2. PICK x \in s : t = (x + 1) .. n
  OBVIOUS
<1>3. ASSUME NEW y \in s PROVE x >= y
  <2> SUFFICES ASSUME y > x PROVE FALSE
    OBVIOUS
  <2>1. (y + 1) .. n \in T /\ (y + 1) .. n \subseteq t
    BY <1>2
  <2>2. y \in t /\ y \notin (y + 1) .. n
    BY <1>2
  <2> QED
    BY <1>1, <2>1, <2>2
<1> QED
  BY <1>3 DEF Max

(* Some positions of q without the last hold the same elements but one.     *)
LEMMA WithoutLast ==
    ASSUME NEW n \in Nat, NEW S, NEW q, EnumeratesTo(q, n, S),
           NEW s \in SUBSET (1..n), s # {}
    PROVE  /\ Max(s) \in s /\ q[Max(s)] \in S
           /\ s \ {Max(s)} \in SUBSET (1..n)
           /\ HeldAt(q, s \ {Max(s)}) \in SUBSET S
           /\ q[Max(s)] \notin HeldAt(q, s \ {Max(s)})
           /\ HeldAt(q, s) = HeldAt(q, s \ {Max(s)}) \cup {q[Max(s)]}
<1>1. PICK k : k = Max(s) /\ k \in s
  BY LastPosition
<1> QED
  BY <1>1 DEF EnumeratesTo, HeldAt

-----------------------------------------------------------------------------
(* What the rows of addons add up to, without recursion: a limit is as many *)
(* units, and the total the number of the units of all rows.                *)

Units(R) == UNION {{af} \X (1..Capacity(af)) : af \in R}
TotalOf(R) == Cardinality(Units(R))

Limited(R) == \A af \in R : af.includedLimit # Null

LEMMA UnitsFinite ==
    ASSUME NEW R \in SUBSET AddonFeature, IsFiniteSet(R), Limited(R)
    PROVE  IsFiniteSet(Units(R)) /\ TotalOf(R) \in Nat
<1> DEFINE f == [af \in R |-> {af} \X (1..Capacity(af))]
           T == {{af} \X (1..Capacity(af)) : af \in R}
<1>1. f \in Surjection(R, T)
  BY DEF Surjection
<1>2. IsFiniteSet(T)
  BY <1>1, FS_Surjection
<1>3. ASSUME NEW af \in R PROVE IsFiniteSet({af} \X (1..Capacity(af)))
  <2>1. Capacity(af) \in Nat
    BY CapacityTyped DEF Limited, Limit
  <2>2. PICK D, U : D = {af} /\ U = 1..Capacity(af)
    OBVIOUS
  <2>3. IsFiniteSet(D) /\ IsFiniteSet(U)
    <3>1. IsFiniteSet(1..Capacity(af))
      BY <2>1, FS_Interval
    <3>2. IsFiniteSet({af})
      BY FS_Singleton
    <3> QED
      BY <2>2, <3>1, <3>2
  <2>4. IsFiniteSet(D \X U)
    BY <2>3, FS_Product
  <2> QED
    BY <2>2, <2>4
<1>4. \A t \in T : IsFiniteSet(t)
  BY <1>3
<1>5. IsFiniteSet(UNION T)
  <2> HIDE DEF T
  <2> QED
    BY <1>2, <1>4, FS_UNION
<1> QED
  BY <1>5, FS_CardinalityType DEF Units, TotalOf

LEMMA TotalOfNone == TotalOf({}) = 0
  BY FS_EmptySet DEF TotalOf, Units

LEMMA TotalOfOneMore ==
    ASSUME NEW R \in SUBSET AddonFeature, IsFiniteSet(R), Limited(R),
           NEW af \in AddonFeature, af \notin R, af.includedLimit # Null
    PROVE  TotalOf(R \cup {af}) = TotalOf(R) + Capacity(af)
<1> DEFINE own == {af} \X (1..Capacity(af))
<1>1. Capacity(af) \in Nat
  BY CapacityTyped DEF Limit
<1>2. IsFiniteSet(own) /\ Cardinality(own) = Capacity(af)
  <2>1. IsFiniteSet(1..Capacity(af)) /\ Cardinality(1..Capacity(af)) = Capacity(af)
    BY <1>1, FS_Interval
  <2>2. IsFiniteSet({af}) /\ Cardinality({af}) = 1
    BY FS_Singleton
  <2>3. PICK D, U : D = {af} /\ U = 1..Capacity(af)
    OBVIOUS
  <2>4. /\ IsFiniteSet(D) /\ Cardinality(D) = 1
        /\ IsFiniteSet(U) /\ Cardinality(U) = Capacity(af)
    BY <2>1, <2>2, <2>3
  <2>5. IsFiniteSet(D \X U) /\ Cardinality(D \X U) = 1 * Capacity(af)
    BY <2>4, FS_Product
  <2> QED
    BY <1>1, <2>3, <2>5
<1>3. Units(R \cup {af}) = Units(R) \cup own
  BY DEF Units
<1>4. Units(R) \cap own = {}
  BY DEF Units
<1>5. IsFiniteSet(Units(R)) /\ TotalOf(R) \in Nat
  BY UnitsFinite
<1> HIDE DEF own
<1>6. Cardinality(Units(R) \cup own) = Cardinality(Units(R)) + Cardinality(own) - 0
  BY <1>2, <1>4, <1>5, FS_Union, FS_EmptySet
<1>7. TotalOf(R \cup {af}) = Cardinality(Units(R) \cup own)
  BY <1>3 DEF TotalOf
<1>8. Cardinality(Units(R)) = TotalOf(R)
  BY DEF TotalOf
<1> QED
  BY <1>1, <1>2, <1>5, <1>6, <1>7, <1>8

(* The most permissive of some policies, "deny" if there is none.           *)
Widest(P) ==
    IF "allow_and_flag" \in P THEN "allow_and_flag"
    ELSE IF "soft_limit" \in P THEN "soft_limit" ELSE "deny"

LEMMA WidestOneMore ==
    ASSUME NEW P \in SUBSET OveragePolicy, NEW p \in OveragePolicy
    PROVE  /\ Widest(P) \in OveragePolicy
           /\ Widest(P \cup {p}) = MorePermissive(Widest(P), p)
  BY DEF Widest, MorePermissive

LEMMA WidestIsMaximum ==
    ASSUME NEW P \in SUBSET OveragePolicy
    PROVE  Widest(P) = CHOOSE p \in P \cup {"deny"} : \A q \in P :
               OVERAGE_POLICY_RANK[q] <= OVERAGE_POLICY_RANK[p]
<1> DEFINE Top(p) == /\ p \in P \cup {"deny"}
                     /\ \A q \in P :
                          OVERAGE_POLICY_RANK[q] <= OVERAGE_POLICY_RANK[p]
<1>1. Top(Widest(P))
  BY DEF Widest
<1>2. ASSUME NEW p, NEW r, Top(p), Top(r) PROVE p = r
  <2>1. p \in OveragePolicy /\ r \in OveragePolicy
    BY <1>2
  <2>2. OVERAGE_POLICY_RANK[p] <= OVERAGE_POLICY_RANK[r]
    BY <1>2, <2>1
  <2>3. OVERAGE_POLICY_RANK[r] <= OVERAGE_POLICY_RANK[p]
    BY <1>2, <2>1
  <2> QED
    BY <2>1, <2>2, <2>3
<1> QED
  BY <1>1, <1>2

-----------------------------------------------------------------------------
(* The entry of a feature after step 2, from its entry e after step 1 and   *)
(* the set R of its addon rows, and after step 3, from the set P of its     *)
(* active overrides.                                                        *)

PoliciesOf(R) == {af.overagePolicy : af \in R}

AddedEntry(e, R) ==
    IF R = {} THEN e
    ELSE [isEnabled |-> IF e = Null THEN TRUE ELSE e.isEnabled,
          effectiveLimit |->
              IF ~Limited(R) \/ (e # Null /\ e.effectiveLimit = Null) THEN Null
              ELSE (IF e = Null THEN 0 ELSE e.effectiveLimit) + TotalOf(R),
          overagePolicy |->
              Widest(PoliciesOf(R) \cup
                     (IF e = Null THEN {} ELSE {e.overagePolicy})),
          sourceType |-> IF e = Null /\ \E af \in R : R = {af} THEN "addon" ELSE "mixed"]

RowsAbout(R, f) == {af \in R : af.feature = f}
Added(m, R) == [f \in Feature |-> AddedEntry(m[f], RowsAbout(R, f))]

DecidedEntry(e, P) ==
    IF P = {} THEN e
    ELSE LET o == CHOOSE o \in P : TRUE
         IN IF e # Null THEN Overridden(e, o)
            ELSE IF o.isEnabled THEN FromOverride(o) ELSE Null

Decided(m, P) == [f \in Feature |-> DecidedEntry(m[f], RowsAbout(P, f))]

LEMMA AddedEntryOneMore ==
    ASSUME NEW e \in Entitlement \cup {Null},
           NEW R \in SUBSET AddonFeature, IsFiniteSet(R),
           NEW af \in AddonFeature, af \notin R
    PROVE  AddedEntry(e, R \cup {af}) =
             IF AddedEntry(e, R) = Null THEN FromAddon(af)
             ELSE Extended(AddedEntry(e, R), af)
<1> DEFINE Q == R \cup {af}
<1>1. /\ af.overagePolicy \in OveragePolicy
      /\ e # Null => /\ e.overagePolicy \in OveragePolicy
                     /\ e.effectiveLimit \in Limit
  BY DEF AddonFeature, Entitlement
<1>2. PoliciesOf(R) \in SUBSET OveragePolicy
  BY DEF PoliciesOf, AddonFeature
<1>3. PoliciesOf(Q) = PoliciesOf(R) \cup {af.overagePolicy}
  BY DEF PoliciesOf
<1>4. Limited(Q) <=> Limited(R) /\ af.includedLimit # Null
  BY DEF Limited
<1>5. /\ Capacity(af) \in Limit
      /\ Capacity(af) = Null <=> af.includedLimit = Null
  BY CapacityTyped
<1>6. Limited(R) => TotalOf(R) \in Nat
  BY UnitsFinite
<1>7. Limited(Q) => TotalOf(Q) = TotalOf(R) + Capacity(af)
  BY <1>4, TotalOfOneMore
<1>8. CASE R = {}
  <2>1. PoliciesOf(Q) = {af.overagePolicy} /\ (\E x \in Q : Q = {x})
    BY <1>3, <1>8 DEF PoliciesOf
  <2>2. Limited(R) /\ TotalOf(R) = 0
    BY <1>8, TotalOfNone DEF Limited
  <2>3. CASE e = Null
    <3>1. Widest(PoliciesOf(Q) \cup {}) = af.overagePolicy
      BY <1>1, <2>1 DEF Widest
    <3>2. AddedEntry(e, Q) = FromAddon(af)
      <4>1. (IF ~Limited(Q) THEN Null ELSE 0 + TotalOf(Q)) = Capacity(af)
        BY <1>4, <1>5, <1>7, <2>2, NullAssumption DEF Limit
      <4> QED
        BY <2>1, <2>3, <3>1, <4>1 DEF AddedEntry, FromAddon
    <3> QED
      BY <1>8, <2>3, <3>2 DEF AddedEntry
  <2>4. CASE e # Null
    <3>1. Widest(PoliciesOf(Q) \cup {e.overagePolicy})
            = MorePermissive(e.overagePolicy, af.overagePolicy)
      BY <1>1, <2>1, <2>4 DEF Widest, MorePermissive
    <3>2. (IF ~Limited(Q) \/ e.effectiveLimit = Null THEN Null
           ELSE e.effectiveLimit + TotalOf(Q))
            = AddLimit(e.effectiveLimit, Capacity(af))
      BY <1>1, <1>4, <1>5, <1>7, <2>2, <2>4, NullAssumption DEF AddLimit, Limit
    <3>3. AddedEntry(e, Q) = Extended(e, af)
      BY <2>4, <3>1, <3>2 DEF AddedEntry, Extended
    <3> QED
      BY <1>8, <2>4, <3>3 DEF AddedEntry
  <2> QED
    BY <2>3, <2>4
<1>9. CASE R # {}
  <2>1. ~ (\E x \in Q : Q = {x})
    BY <1>9
  <2> DEFINE own == IF e = Null THEN {} ELSE {e.overagePolicy}
             l == IF ~Limited(R) \/ (e # Null /\ e.effectiveLimit = Null) THEN Null
                  ELSE (IF e = Null THEN 0 ELSE e.effectiveLimit) + TotalOf(R)
             k == IF ~Limited(Q) \/ (e # Null /\ e.effectiveLimit = Null) THEN Null
                  ELSE (IF e = Null THEN 0 ELSE e.effectiveLimit) + TotalOf(Q)
  <2>2. Widest(PoliciesOf(Q) \cup own)
          = MorePermissive(Widest(PoliciesOf(R) \cup own), af.overagePolicy)
    <3>1. PICK P \in SUBSET OveragePolicy : P = PoliciesOf(R) \cup own
      BY <1>1, <1>2
    <3>2. PoliciesOf(Q) \cup own = P \cup {af.overagePolicy}
      BY <1>3, <3>1
    <3> HIDE DEF own
    <3>3. Widest(P \cup {af.overagePolicy})
            = MorePermissive(Widest(P), af.overagePolicy)
      BY <1>1, WidestOneMore
    <3> QED
      BY <3>1, <3>2, <3>3
  <2>3. k = AddLimit(l, Capacity(af))
    BY <1>1, <1>4, <1>5, <1>6, <1>7, NullAssumption DEF AddLimit, Limit
  <2>4. PICK x, w, v, t :
          /\ x = (IF e = Null THEN TRUE ELSE e.isEnabled)
          /\ w = Widest(PoliciesOf(R) \cup own)
          /\ v = Widest(PoliciesOf(Q) \cup own)
          /\ t = (IF e = Null /\ \E y \in R : R = {y} THEN "addon" ELSE "mixed")
    OBVIOUS
  <2>5. /\ AddedEntry(e, R) = [isEnabled |-> x, effectiveLimit |-> l,
                               overagePolicy |-> w, sourceType |-> t]
        /\ AddedEntry(e, Q) = [isEnabled |-> x, effectiveLimit |-> k,
                               overagePolicy |-> v, sourceType |-> "mixed"]
    BY <1>9, <2>1, <2>4 DEF AddedEntry
  <2>6. x \in BOOLEAN /\ l \in Limit /\ w \in OveragePolicy /\ t \in SourceType
    <3>1. l \in Limit
      BY <1>1, <1>6, NullAssumption DEF Limit
    <3>2. w \in OveragePolicy /\ t \in SourceType
      BY <2>4 DEF Widest, SourceType
    <3>3. x \in BOOLEAN
      BY <2>4 DEF Entitlement
    <3> QED
      BY <3>1, <3>2, <3>3
  <2> HIDE DEF k, l, own, Q
  <2>7. AddedEntry(e, R) # Null
    <3>1. AddedEntry(e, R) \in Entitlement
      BY <2>5, <2>6 DEF Entitlement
    <3> QED
      BY <3>1, NullAssumption
  <2>8. v = MorePermissive(w, af.overagePolicy)
    BY <2>2, <2>4
  <2>9. AddedEntry(e, Q) = Extended(AddedEntry(e, R), af)
    BY <2>3, <2>5, <2>8 DEF Extended
  <2> QED
    BY <2>7, <2>9 DEF Q
<1> QED
  BY <1>8, <1>9

LEMMA RowsFinite ==
    ASSUME NEW R, IsFiniteSet(R), NEW f
    PROVE  RowsAbout(R, f) \in SUBSET R /\ IsFiniteSet(RowsAbout(R, f))
  BY FS_Subset DEF RowsAbout

LEMMA AddedNone ==
    ASSUME NEW m \in Entitlements
    PROVE  Added(m, {}) = m
  BY DEF Added, AddedEntry, RowsAbout, Entitlements

LEMMA AddedOneMore ==
    ASSUME NEW m \in Entitlements,
           NEW R \in SUBSET AddonFeature, IsFiniteSet(R),
           NEW af \in AddonFeature, af \notin R
    PROVE  Added(m, R \cup {af}) = AddonStep(Added(m, R), af)
<1>1. ASSUME NEW f \in Feature
      PROVE  AddedEntry(m[f], RowsAbout(R \cup {af}, f)) = AddonStep(Added(m, R), af)[f]
  <2>1. PICK d \in Entitlement \cup {Null} : d = m[f]
    BY DEF Entitlements
  <2>2. PICK S \in SUBSET AddonFeature :
          S = RowsAbout(R, f) /\ IsFiniteSet(S) /\ af \notin S
    BY RowsFinite
  <2>3. PICK e : e = AddedEntry(d, S) /\ e = Added(m, R)[f]
    BY <2>1, <2>2 DEF Added
  <2>4. CASE f = af.feature
    <3>1. RowsAbout(R \cup {af}, f) = S \cup {af}
      BY <2>2, <2>4 DEF RowsAbout
    <3>2. AddonStep(Added(m, R), af)[f]
            = IF e = Null THEN FromAddon(af) ELSE Extended(e, af)
      BY <2>3, <2>4 DEF AddonStep, Added
    <3>3. AddedEntry(d, S \cup {af})
            = IF AddedEntry(d, S) = Null THEN FromAddon(af)
              ELSE Extended(AddedEntry(d, S), af)
      BY <2>2, AddedEntryOneMore, Zenon
    <3> QED
      BY <2>1, <2>3, <3>1, <3>2, <3>3
  <2>5. CASE f # af.feature
    <3>1. RowsAbout(R \cup {af}, f) = S
      BY <2>2, <2>5 DEF RowsAbout
    <3>2. AddonStep(Added(m, R), af)[f] = e
      BY <2>3, <2>5 DEF AddonStep, Added
    <3> QED
      BY <2>1, <2>3, <3>1, <3>2
  <2> QED
    BY <2>4, <2>5
<1>2. AddonStep(Added(m, R), af) = [f \in Feature |-> AddonStep(Added(m, R), af)[f]]
  BY DEF AddonStep, Added
<1> QED
  BY <1>1, <1>2 DEF Added

LEMMA DecidedNone ==
    ASSUME NEW m \in Entitlements
    PROVE  Decided(m, {}) = m
  BY DEF Decided, DecidedEntry, RowsAbout, Entitlements

(* An organization has at most one override of a feature, so the next one   *)
(* meets an entry that no override has touched.                             *)
LEMMA DecidedOneMore ==
    ASSUME NEW m \in Entitlements, NEW P \in SUBSET Override,
           NEW o \in Override, \A p \in P : p.feature # o.feature
    PROVE  Decided(m, P \cup {o}) = OverrideStep(Decided(m, P), o)
<1>1. ASSUME NEW f \in Feature
      PROVE  DecidedEntry(m[f], RowsAbout(P \cup {o}, f))
               = OverrideStep(Decided(m, P), o)[f]
  <2>1. PICK e : e = m[f]
    OBVIOUS
  <2>2. CASE f = o.feature
    <3>1. RowsAbout(P \cup {o}, f) = {o} /\ RowsAbout(P, f) = {}
      BY <2>2 DEF RowsAbout
    <3>2. Decided(m, P)[f] = e
      BY <2>1, <3>1 DEF Decided, DecidedEntry
    <3>3. OverrideStep(Decided(m, P), o)[f]
            = IF e # Null THEN Overridden(e, o)
              ELSE IF o.isEnabled THEN FromOverride(o) ELSE Null
      BY <2>2, <3>2 DEF OverrideStep, Decided
    <3>4. (CHOOSE p \in {o} : TRUE) = o
      OBVIOUS
    <3> QED
      BY <2>1, <3>1, <3>3, <3>4 DEF DecidedEntry
  <2>3. CASE f # o.feature
    <3>1. RowsAbout(P \cup {o}, f) = RowsAbout(P, f)
      BY <2>3 DEF RowsAbout
    <3>2. OverrideStep(Decided(m, P), o)[f] = Decided(m, P)[f]
      BY <2>3 DEF OverrideStep, Decided
    <3> QED
      BY <3>1, <3>2 DEF Decided
  <2> QED
    BY <2>2, <2>3
<1>2. OverrideStep(Decided(m, P), o)
        = [f \in Feature |-> OverrideStep(Decided(m, P), o)[f]]
  BY DEF OverrideStep, Decided
<1> QED
  BY <1>1, <1>2 DEF Decided

-----------------------------------------------------------------------------
(* The folds of Merge                                                       *)

(* Step 2 over any sequence of the addon rows.                              *)
LEMMA AddonFold ==
    ASSUME NEW m \in Entitlements,
           NEW A \in SUBSET AddonFeature, IsFiniteSet(A),
           NEW q, Enumerates(q, A)
    PROVE  FoldLeft(AddonStep, m, q) = Added(m, A)
<1>1. PICK n \in Nat : EnumeratesTo(q, n, A)
  BY DEF Enumerates
<1> DEFINE D == 1..n
           Rec(g) == g = [s \in SUBSET D |-> IF s = {} THEN m
                           ELSE AddonStep(g[s \ {Max(s)}], q[Max(s)])]
           h == [s \in SUBSET D |-> Added(m, HeldAt(q, s))]
           g == CHOOSE x : Rec(x)
           c == [s \in SUBSET D |-> Max(s)]
<1>2. FoldLeft(AddonStep, m, q) = g[D]
  <2>1. DOMAIN q = D
    BY <1>1 DEF EnumeratesTo
  <2>2. FoldLeft(AddonStep, m, q)
          = (CHOOSE x : x = [s \in SUBSET DOMAIN q |-> IF s = {} THEN m
                              ELSE AddonStep(x[s \ {Max(s)}], q[Max(s)])])[DOMAIN q]
    BY DEF FoldLeft, MapThenFoldSet
  <2> QED
    BY <2>1, <2>2
<1>3. IsFiniteSet(D)
  BY FS_Interval
<1>4. h[{}] = m
  BY AddedNone DEF HeldAt
<1>5. ASSUME NEW s \in SUBSET D, s # {}
      PROVE  /\ Max(s) \in s /\ s \ {Max(s)} \in SUBSET D
             /\ h[s] = AddonStep(h[s \ {Max(s)}], q[Max(s)])
  <2> DEFINE R == HeldAt(q, s \ {Max(s)})
  <2>1. /\ Max(s) \in s /\ q[Max(s)] \in A
        /\ s \ {Max(s)} \in SUBSET D
        /\ R \in SUBSET A
        /\ q[Max(s)] \notin R
    BY <1>1, <1>5, WithoutLast
  <2>2. HeldAt(q, s) = R \cup {q[Max(s)]}
    BY <1>1, <1>5, WithoutLast
  <2>3. h[s] = Added(m, R \cup {q[Max(s)]}) /\ h[s \ {Max(s)}] = Added(m, R)
    BY <2>1, <2>2
  <2>4. IsFiniteSet(R) /\ R \in SUBSET AddonFeature /\ q[Max(s)] \in AddonFeature
    BY <2>1, FS_Subset
  <2> HIDE DEF R, h
  <2> QED
    BY <2>1, <2>3, <2>4, AddedOneMore
<1>6. Rec(h)
  <2>1. h = [s \in SUBSET D |-> h[s]]
    OBVIOUS
  <2> HIDE DEF h, D
  <2> QED
    BY <1>4, <1>5, <2>1
<1>7. Rec(g)
  <2> HIDE DEF Rec, h
  <2> QED
    BY <1>6, Zenon
<1>8. SameSteps(g, h, D, c)
  <2>1. g[{}] = h[{}]
    <3> HIDE DEF g, h
    <3> QED
      BY <1>4, <1>7
  <2>2. ASSUME NEW s \in SUBSET D, s # {}
        PROVE  /\ c[s] \in s
               /\ g[s \ {c[s]}] = h[s \ {c[s]}] => g[s] = h[s]
    <3>1. g[s] = AddonStep(g[s \ {Max(s)}], q[Max(s)])
      <4> HIDE DEF g, h, D
      <4> QED
        BY <1>7, <2>2
    <3> HIDE DEF g, h, D, Rec
    <3> QED
      BY <1>5, <2>2, <3>1
  <2> HIDE DEF g, h, c, D, Rec
  <2> QED
    BY <2>1, <2>2 DEF SameSteps
<1>9. g[D] = h[D]
  <2> HIDE DEF g, h, c, D, Rec
  <2> QED
    BY <1>3, <1>8, SameOnSubsets
<1>10. HeldAt(q, D) = A
  BY <1>1 DEF EnumeratesTo
<1> HIDE DEF g
<1> QED
  BY <1>2, <1>9, <1>10

LEMMA AddedEntryTyped ==
    ASSUME NEW e \in Entitlement \cup {Null},
           NEW R \in SUBSET AddonFeature, IsFiniteSet(R)
    PROVE  /\ AddedEntry(e, R) \in Entitlement \cup {Null}
           /\ R # {} => AddedEntry(e, R) \in Entitlement
<1>1. /\ e # Null => /\ e.overagePolicy \in OveragePolicy
                     /\ e.effectiveLimit \in Limit
                     /\ e.isEnabled \in BOOLEAN
  BY DEF Entitlement
<1>2. PICK x, l, w, t :
        /\ x = (IF e = Null THEN TRUE ELSE e.isEnabled)
        /\ l = (IF ~Limited(R) \/ (e # Null /\ e.effectiveLimit = Null) THEN Null
                ELSE (IF e = Null THEN 0 ELSE e.effectiveLimit) + TotalOf(R))
        /\ w = Widest(PoliciesOf(R) \cup
                      (IF e = Null THEN {} ELSE {e.overagePolicy}))
        /\ t = (IF e = Null /\ \E y \in R : R = {y} THEN "addon" ELSE "mixed")
  OBVIOUS
<1>3. l \in Limit
  BY <1>1, <1>2, UnitsFinite, NullAssumption DEF Limit
<1>4. w \in OveragePolicy /\ t \in SourceType
  BY <1>2 DEF Widest, SourceType
<1>5. x \in BOOLEAN
  BY <1>1, <1>2
<1>6. R # {} => AddedEntry(e, R) = [isEnabled |-> x, effectiveLimit |-> l,
                                    overagePolicy |-> w, sourceType |-> t]
  BY <1>2 DEF AddedEntry
<1>7. R # {} => AddedEntry(e, R) \in Entitlement
  BY <1>3, <1>4, <1>5, <1>6 DEF Entitlement
<1> QED
  BY <1>7 DEF AddedEntry

LEMMA AddedTyped ==
    ASSUME NEW m \in Entitlements,
           NEW R \in SUBSET AddonFeature, IsFiniteSet(R)
    PROVE  Added(m, R) \in Entitlements
<1>1. ASSUME NEW f \in Feature
      PROVE  AddedEntry(m[f], RowsAbout(R, f)) \in Entitlement \cup {Null}
  <2>1. m[f] \in Entitlement \cup {Null}
    BY DEF Entitlements
  <2>2. RowsAbout(R, f) \in SUBSET AddonFeature /\ IsFiniteSet(RowsAbout(R, f))
    BY RowsFinite
  <2> QED
    BY <2>1, <2>2, AddedEntryTyped
<1> QED
  BY <1>1 DEF Added, Entitlements

(* Step 3, started at m: an inactive override is passed over.               *)
OverrideRec(g, n, q, m, now) ==
    g = [s \in SUBSET (1..n) |-> IF s = {} THEN m
           ELSE IF IsOverrideActive(q[Max(s)], now)
                THEN OverrideStep(g[s \ {Max(s)}], q[Max(s)])
                ELSE g[s \ {Max(s)}]]

LEMMA MergeUnfolds ==
    ASSUME NEW pf, NEW a, NEW q, NEW n, DOMAIN q = 1..n, NEW now
    PROVE  Merge(pf, a, q, now)
             = (CHOOSE g : OverrideRec(g, n, q,
                              FoldLeft(AddonStep, FromPlan(pf), a), now))[1..n]
<1> DEFINE m == FoldLeft(AddonStep, FromPlan(pf), a)
<1>1. Merge(pf, a, q, now)
        = (CHOOSE g : g = [s \in SUBSET DOMAIN q |-> IF s = {} THEN m
             ELSE IF IsOverrideActive(q[Max(s)], now)
                  THEN OverrideStep(g[s \ {Max(s)}], q[Max(s)])
                  ELSE g[s \ {Max(s)}]])[DOMAIN q]
  BY Zenon DEF Merge, FoldLeft, MapThenFoldSet
<1> HIDE DEF m
<1> QED
  BY <1>1 DEF OverrideRec, m

(* Two functions that both go through the overrides from m agree.           *)
LEMMA OverrideRecUnique ==
    ASSUME NEW n \in Nat, NEW q, NEW m, NEW now,
           NEW g, OverrideRec(g, n, q, m, now),
           NEW h, OverrideRec(h, n, q, m, now)
    PROVE  g[1..n] = h[1..n]
<1> DEFINE D == 1..n
           c == [s \in SUBSET D |-> Max(s)]
<1>1. g[{}] = h[{}]
  BY DEF OverrideRec
<1>2. ASSUME NEW s \in SUBSET D, s # {}
      PROVE  /\ c[s] \in s
             /\ g[s \ {c[s]}] = h[s \ {c[s]}] => g[s] = h[s]
  <2>1. Max(s) \in s
    BY <1>2, LastPosition
  <2>2. /\ g[s] = IF IsOverrideActive(q[Max(s)], now)
                  THEN OverrideStep(g[s \ {Max(s)}], q[Max(s)])
                  ELSE g[s \ {Max(s)}]
        /\ h[s] = IF IsOverrideActive(q[Max(s)], now)
                  THEN OverrideStep(h[s \ {Max(s)}], q[Max(s)])
                  ELSE h[s \ {Max(s)}]
    BY <1>2 DEF OverrideRec
  <2> QED
    BY <2>1, <2>2
<1>3. SameSteps(g, h, D, c)
  BY <1>1, <1>2 DEF SameSteps
<1>4. IsFiniteSet(D)
  BY FS_Interval
<1> HIDE DEF D, c
<1>5. g[D] = h[D]
  BY <1>3, <1>4, SameOnSubsets
<1> QED
  BY <1>5 DEF D

LEMMA MergeIs ==
    ASSUME NEW pf, NEW a, NEW q, NEW n \in Nat, DOMAIN q = 1..n, NEW now,
           NEW h, OverrideRec(h, n, q, FoldLeft(AddonStep, FromPlan(pf), a), now)
    PROVE  Merge(pf, a, q, now) = h[1..n]
<1> DEFINE m == FoldLeft(AddonStep, FromPlan(pf), a)
           g == CHOOSE x : OverrideRec(x, n, q, m, now)
<1>1. OverrideRec(g, n, q, m, now)
  BY Zenon
<1>2. Merge(pf, a, q, now) = g[1..n]
  BY MergeUnfolds
<1> HIDE DEF g
<1>3. g[1..n] = h[1..n]
  BY <1>1, OverrideRecUnique
<1> QED
  BY <1>2, <1>3

OnePerFeature(P) == \A o, p \in P : o.feature = p.feature => o = p
InForce(P, now) == {o \in P : IsOverrideActive(o, now)}

(* merge() for any number of rows in any order: what step 2 adds up and     *)
(* step 3 decides, feature by feature.                                      *)
THEOREM MergeComputes ==
    ASSUME NEW pf \in PlanFeatures,
           NEW A \in SUBSET AddonFeature, IsFiniteSet(A),
           NEW P \in SUBSET Override, OnePerFeature(P),
           NEW a, Enumerates(a, A), NEW q, Enumerates(q, P), NEW now
    PROVE  Merge(pf, a, q, now)
             = Decided(Added(FromPlan(pf), A), InForce(P, now))
<1> DEFINE m == Added(FromPlan(pf), A)
<1>1. m \in Entitlements
  BY FromPlanTyped, AddedTyped
<1>2. FoldLeft(AddonStep, FromPlan(pf), a) = m
  BY FromPlanTyped, AddonFold
<1>3. PICK n \in Nat : EnumeratesTo(q, n, P)
  BY DEF Enumerates
<1> DEFINE h == [s \in SUBSET (1..n) |-> Decided(m, InForce(HeldAt(q, s), now))]
<1> HIDE DEF m
<1>4. h[{}] = m
  BY <1>1, DecidedNone DEF InForce, HeldAt
<1>5. ASSUME NEW s \in SUBSET (1..n), s # {}
      PROVE  h[s] = IF IsOverrideActive(q[Max(s)], now)
                    THEN OverrideStep(h[s \ {Max(s)}], q[Max(s)])
                    ELSE h[s \ {Max(s)}]
  <2>1. /\ q[Max(s)] \in P /\ s \ {Max(s)} \in SUBSET (1..n)
        /\ HeldAt(q, s \ {Max(s)}) \in SUBSET P
        /\ q[Max(s)] \notin HeldAt(q, s \ {Max(s)})
    BY <1>3, <1>5, WithoutLast
  <2>2. HeldAt(q, s) = HeldAt(q, s \ {Max(s)}) \cup {q[Max(s)]}
    BY <1>3, <1>5, WithoutLast
  <2>3. PICK o, R : o = q[Max(s)] /\ R = HeldAt(q, s \ {Max(s)})
    OBVIOUS
  <2>4. /\ h[s] = Decided(m, InForce(R \cup {o}, now))
        /\ h[s \ {Max(s)}] = Decided(m, InForce(R, now))
    BY <2>1, <2>3, <2>2
  <2> HIDE DEF h
  <2>5. CASE IsOverrideActive(o, now)
    <3>1. InForce(R \cup {o}, now) = InForce(R, now) \cup {o}
      BY <2>5 DEF InForce
    <3>2. /\ InForce(R, now) \in SUBSET Override /\ o \in Override
          /\ \A p \in InForce(R, now) : p.feature # o.feature
      BY <2>1, <2>3 DEF InForce, OnePerFeature
    <3>3. Decided(m, InForce(R, now) \cup {o})
            = OverrideStep(Decided(m, InForce(R, now)), o)
      BY <1>1, <3>2, DecidedOneMore
    <3> QED
      BY <2>3, <2>4, <2>5, <3>1, <3>3
  <2>6. CASE ~IsOverrideActive(o, now)
    <3>1. InForce(R \cup {o}, now) = InForce(R, now)
      BY <2>6 DEF InForce
    <3> QED
      BY <2>3, <2>4, <2>6, <3>1
  <2> QED
    BY <2>5, <2>6
<1>6. OverrideRec(h, n, q, m, now)
  <2>1. h = [s \in SUBSET (1..n) |-> h[s]]
    OBVIOUS
  <2> HIDE DEF h
  <2> QED
    BY <1>4, <1>5, <2>1 DEF OverrideRec
<1>7. h[1..n] = Decided(m, InForce(P, now))
  <2>1. HeldAt(q, 1..n) = P
    BY <1>3 DEF EnumeratesTo
  <2> QED
    BY <2>1
<1>8. DOMAIN q = 1..n
  BY <1>3 DEF EnumeratesTo
<1> HIDE DEF h
<1> QED
  BY <1>2, <1>6, <1>7, <1>8, MergeIs DEF m

(* Every merge of typed rows gives an entitlement or none for each feature, *)
(* also where a body names a feature in more than one override.             *)
THEOREM MergeTyped ==
    ASSUME NEW pf \in PlanFeatures,
           NEW A \in SUBSET AddonFeature, IsFiniteSet(A),
           NEW P \in SUBSET Override, IsFiniteSet(P), NEW now
    PROVE  Merge(pf, SetToSeq(A), SetToSeq(P), now) \in Entitlements
<1> DEFINE m == FoldLeft(AddonStep, FromPlan(pf), SetToSeq(A))
           q == SetToSeq(P)
<1>1. m \in Entitlements
  <2>1. m = Added(FromPlan(pf), A)
    BY FromPlanTyped, SetToSeqEnumerates, AddonFold
  <2> QED
    BY <2>1, FromPlanTyped, AddedTyped
<1>2. PICK n \in Nat : EnumeratesTo(q, n, P)
  BY SetToSeqEnumerates DEF Enumerates
<1> HIDE DEF m, q
<1> DEFINE D == 1..n
           step == [x \in Entitlements \X D |->
                      IF IsOverrideActive(q[x[2]], now)
                      THEN OverrideStep(x[1], q[x[2]]) ELSE x[1]]
           c == [s \in SUBSET D |-> Max(s)]
<1>3. \A i \in D : q[i] \in Override
  BY <1>2 DEF EnumeratesTo
<1>4. step \in [Entitlements \X D -> Entitlements]
  BY <1>3, OverrideStepTyped
<1>5. \A s \in SUBSET D : s # {} => c[s] \in s
  BY LastPosition
<1>6. IsFiniteSet(D)
  BY FS_Interval
<1>7. PICK g \in [SUBSET D -> Entitlements] : Folds(g, D, m, step, c)
  <2> HIDE DEF step, c, D
  <2> QED
    BY <1>1, <1>4, <1>5, <1>6, FoldExists
<1>8. OverrideRec(g, n, q, m, now)
  <2>1. g[{}] = m
    BY <1>7 DEF Folds
  <2>2. ASSUME NEW s \in SUBSET D, s # {}
        PROVE  g[s] = IF IsOverrideActive(q[Max(s)], now)
                      THEN OverrideStep(g[s \ {Max(s)}], q[Max(s)])
                      ELSE g[s \ {Max(s)}]
    <3>1. Max(s) \in D /\ s \ {Max(s)} \in SUBSET D
      BY <2>2, LastPosition
    <3>2. g[s \ {Max(s)}] \in Entitlements
      BY <1>7, <3>1
    <3>3. g[s] = step[<<g[s \ {Max(s)}], Max(s)>>]
      BY <1>7, <2>2 DEF Folds
    <3> QED
      BY <3>1, <3>2, <3>3
  <2>3. g = [s \in SUBSET D |-> g[s]]
    BY <1>7
  <2> QED
    BY <2>1, <2>2, <2>3 DEF OverrideRec
<1>9. DOMAIN q = D
  BY <1>2 DEF EnumeratesTo
<1>10. Merge(pf, SetToSeq(A), q, now) = g[D]
  BY <1>8, <1>9, MergeIs DEF m
<1> QED
  BY <1>7, <1>10 DEF q

-----------------------------------------------------------------------------
(* Sums over sets                                                           *)

AnyOf(s) == CHOOSE x \in s : TRUE

(* g[s] is the sum of w over s, for each subset s of S.                     *)
SumRec(g, S, w) ==
    g = [s \in SUBSET S |-> IF s = {} THEN 0
                            ELSE w[AnyOf(s)] + g[s \ {AnyOf(s)}]]

LEMMA SumRecUnique ==
    ASSUME NEW S, IsFiniteSet(S), NEW w,
           NEW g, SumRec(g, S, w), NEW h, SumRec(h, S, w)
    PROVE  g[S] = h[S]
<1> DEFINE c == [s \in SUBSET S |-> AnyOf(s)]
<1>1. g[{}] = h[{}]
  BY DEF SumRec
<1>2. ASSUME NEW s \in SUBSET S, s # {}
      PROVE  /\ c[s] \in s
             /\ g[s \ {c[s]}] = h[s \ {c[s]}] => g[s] = h[s]
  <2>1. AnyOf(s) \in s
    BY <1>2 DEF AnyOf
  <2>2. /\ g[s] = w[AnyOf(s)] + g[s \ {AnyOf(s)}]
        /\ h[s] = w[AnyOf(s)] + h[s \ {AnyOf(s)}]
    BY <1>2 DEF SumRec
  <2> QED
    BY <2>1, <2>2
<1>3. SameSteps(g, h, S, c)
  BY <1>1, <1>2 DEF SameSteps
<1> HIDE DEF c
<1> QED
  BY <1>3, SameOnSubsets

(* The capacities of limited addon rows add up to their units.              *)
UnitsBelow(R) == [s \in SUBSET R |-> TotalOf(s)]

LEMMA UnitsAreASum ==
    ASSUME NEW R \in SUBSET AddonFeature, IsFiniteSet(R), Limited(R)
    PROVE  SumRec(UnitsBelow(R), R, [af \in R |-> Capacity(af)])
<1>1. ASSUME NEW s \in SUBSET R, s # {}
      PROVE  TotalOf(s) = Capacity(AnyOf(s)) + TotalOf(s \ {AnyOf(s)})
  <2>1. PICK af \in s : af = AnyOf(s)
    BY <1>1 DEF AnyOf
  <2>2. PICK t : t = s \ {af}
    OBVIOUS
  <2>3. t \in SUBSET R /\ af \notin t /\ s = t \cup {af}
    BY <2>2
  <2>4. /\ t \in SUBSET AddonFeature /\ IsFiniteSet(t) /\ Limited(t)
        /\ af \in AddonFeature /\ af.includedLimit # Null
    BY <2>3, FS_Subset DEF Limited
  <2>5. TotalOf(t \cup {af}) = TotalOf(t) + Capacity(af)
    BY <2>3, <2>4, TotalOfOneMore
  <2>6. TotalOf(t) \in Nat /\ Capacity(af) \in Nat
    BY <2>4, UnitsFinite, CapacityTyped DEF Limit
  <2>7. TotalOf(s) = Capacity(af) + TotalOf(t)
    BY <2>3, <2>5, <2>6
  <2> QED
    BY <2>1, <2>2, <2>7
<1>2. ASSUME NEW s \in SUBSET R
      PROVE  UnitsBelow(R)[s] =
               IF s = {} THEN 0
               ELSE [af \in R |-> Capacity(af)][AnyOf(s)]
                      + UnitsBelow(R)[s \ {AnyOf(s)}]
  <2>1. CASE s = {}
    BY <2>1, TotalOfNone DEF UnitsBelow
  <2>2. CASE s # {}
    <3>1. AnyOf(s) \in R /\ s \ {AnyOf(s)} \in SUBSET R
      BY <2>2 DEF AnyOf
    <3>2. [af \in R |-> Capacity(af)][AnyOf(s)] = Capacity(AnyOf(s))
      BY <3>1
    <3>3. UnitsBelow(R)[s \ {AnyOf(s)}] = TotalOf(s \ {AnyOf(s)})
      BY <3>1 DEF UnitsBelow
    <3>4. UnitsBelow(R)[s] = TotalOf(s)
      BY DEF UnitsBelow
    <3> QED
      BY <1>1, <2>2, <3>2, <3>3, <3>4
  <2> QED
    BY <2>1, <2>2
<1>3. UnitsBelow(R) = [s \in SUBSET R |-> UnitsBelow(R)[s]]
  BY DEF UnitsBelow
<1> QED
  BY <1>2, <1>3 DEF SumRec

LEMMA CapacitiesAddUp ==
    ASSUME NEW R \in SUBSET AddonFeature, IsFiniteSet(R), Limited(R)
    PROVE  MapThenSumSet(Capacity, R) = TotalOf(R)
<1> DEFINE w == [af \in R |-> Capacity(af)]
           Rec(g) == g = [s \in SUBSET R |->
                            IF s = {} THEN 0
                            ELSE Capacity(AnyOf(s)) + g[s \ {AnyOf(s)}]]
           g == CHOOSE x : Rec(x)
<1>1. MapThenSumSet(Capacity, R) = g[R]
  BY Zenon DEF MapThenSumSet, MapThenFoldSet, AnyOf
<1>2. ASSUME NEW x PROVE Rec(x) <=> SumRec(x, R, w)
  <2>1. \A s \in SUBSET R : s # {} => w[AnyOf(s)] = Capacity(AnyOf(s))
    BY DEF AnyOf
  <2> HIDE DEF w
  <2> QED
    BY <2>1 DEF SumRec
<1>3. SumRec(UnitsBelow(R), R, w)
  BY UnitsAreASum
<1> HIDE DEF Rec, w
<1>4. SumRec(g, R, w)
  <2>1. Rec(g)
    BY <1>2, <1>3, Zenon
  <2> QED
    BY <1>2, <2>1
<1> HIDE DEF g
<1>5. g[R] = UnitsBelow(R)[R]
  BY <1>3, <1>4, SumRecUnique
<1> QED
  BY <1>1, <1>5 DEF UnitsBelow

(* A plan limit beside 0, however often the sum meets it.                   *)
LEMMA LimitBesideZero ==
    ASSUME NEW k \in Nat
    PROVE  SumSet({0} \cup {k}) = k
<1> DEFINE S == {0, k}
           Rec(g) == g = [s \in SUBSET S |->
                            IF s = {} THEN 0 ELSE AnyOf(s) + g[s \ {AnyOf(s)}]]
           w == [x \in S |-> x]
           h == [s \in SUBSET S |-> IF k \in s THEN k ELSE 0]
           g == CHOOSE x : Rec(x)
<1>1. SumSet({0} \cup {k}) = g[S]
  <2>1. PICK T : T = {0} \cup {k} /\ T = S
    OBVIOUS
  <2> HIDE DEF S
  <2>2. SumSet(T) = (CHOOSE x : x = [s \in SUBSET T |->
                        IF s = {} THEN 0 ELSE AnyOf(s) + x[s \ {AnyOf(s)}]])[T]
    BY Zenon DEF SumSet, FoldSet, MapThenFoldSet, AnyOf
  <2> QED
    BY <2>1, <2>2, Zenon
<1>2. ASSUME NEW x PROVE Rec(x) <=> SumRec(x, S, w)
  <2>1. \A s \in SUBSET S : s # {} => w[AnyOf(s)] = AnyOf(s)
    BY DEF AnyOf
  <2> HIDE DEF w, S
  <2> QED
    BY <2>1 DEF SumRec
<1>3. SumRec(h, S, w)
  <2>1. ASSUME NEW s \in SUBSET S
        PROVE  h[s] = IF s = {} THEN 0 ELSE w[AnyOf(s)] + h[s \ {AnyOf(s)}]
    <3>1. CASE s = {}
      BY <3>1
    <3>2. CASE s # {}
      <4>1. PICK x \in s : x = AnyOf(s)
        BY <3>2 DEF AnyOf
      <4>2. s \ {x} \in SUBSET S /\ x \in S /\ w[x] = x
        OBVIOUS
      <4>3. h[s] = x + h[s \ {x}]
        <5>1. x = k \/ x = 0
          OBVIOUS
        <5> QED
          BY <4>2, <5>1
      <4> QED
        BY <3>2, <4>1, <4>2, <4>3
    <3> QED
      BY <3>1, <3>2
  <2>2. h = [s \in SUBSET S |-> h[s]]
    OBVIOUS
  <2> HIDE DEF h, w, S
  <2> QED
    BY <2>1, <2>2 DEF SumRec
<1>4. IsFiniteSet(S)
  <2>1. S = 0..0 \cup {k}
    OBVIOUS
  <2>2. IsFiniteSet({0} \cup {k})
    BY FS_Singleton, FS_Union
  <2> QED
    BY <2>2
<1> HIDE DEF Rec, w, S, h
<1>5. SumRec(g, S, w)
  <2>1. Rec(g)
    BY <1>2, <1>3, Zenon
  <2> QED
    BY <1>2, <2>1
<1> HIDE DEF g
<1>6. g[S] = h[S]
  BY <1>3, <1>4, <1>5, SumRecUnique
<1>7. h[S] = k
  BY DEF h, S
<1> QED
  BY <1>1, <1>6, <1>7

LEMMA ZeroAlone == SumSet({0}) = 0
<1>1. {0} = {0} \cup {0}
  OBVIOUS
<1> QED
  BY <1>1, LimitBesideZero

-----------------------------------------------------------------------------
(* What the merge gives for one feature, from its plan row t or none, its   *)
(* addon rows R and its override in force, if any.                          *)

PlanEntry(t) ==
    IF t = Null THEN Null
    ELSE [isEnabled |-> TRUE, effectiveLimit |-> t.includedLimit,
          overagePolicy |-> t.overagePolicy, sourceType |-> "plan"]

PlanPolicies(t) == IF t = Null THEN {} ELSE {t.overagePolicy}
Replaces(o) == o.isEnabled /\ o.limitOverride # Null

SummedLimit(t, R) ==
    IF \/ t = Null /\ R = {}
       \/ t # Null /\ t.includedLimit = Null
       \/ ~Limited(R)
    THEN Null
    ELSE (IF t = Null THEN 0 ELSE t.includedLimit) + TotalOf(R)

LEMMA PlanEntryTyped ==
    ASSUME NEW t \in Terms \cup {Null}
    PROVE  /\ PlanEntry(t) \in Entitlement \cup {Null}
           /\ t # Null => /\ PlanEntry(t) \in Entitlement
                          /\ PlanEntry(t).isEnabled = TRUE
                          /\ PlanEntry(t).effectiveLimit = t.includedLimit
                          /\ PlanEntry(t).overagePolicy = t.overagePolicy
                          /\ t.includedLimit \in Limit
                          /\ t.overagePolicy \in OveragePolicy
<1>1. CASE t = Null
  BY <1>1 DEF PlanEntry
<1>2. CASE t # Null
  <2>1. t.includedLimit \in Limit /\ t.overagePolicy \in OveragePolicy
    BY <1>2 DEF Terms
  <2>2. PlanEntry(t) = [isEnabled |-> TRUE, effectiveLimit |-> t.includedLimit,
                        overagePolicy |-> t.overagePolicy, sourceType |-> "plan"]
    BY <1>2 DEF PlanEntry
  <2>3. PlanEntry(t) \in Entitlement
    BY <2>1, <2>2 DEF Entitlement, SourceType
  <2> QED
    BY <2>1, <2>2, <2>3
<1> QED
  BY <1>1, <1>2

LEMMA AddedEntryIs ==
    ASSUME NEW t \in Terms \cup {Null},
           NEW R \in SUBSET AddonFeature, IsFiniteSet(R), NEW e,
           e = AddedEntry(PlanEntry(t), R)
    PROVE  /\ e # Null <=> t # Null \/ R # {}
           /\ e # Null => /\ e.isEnabled = TRUE
                          /\ e.effectiveLimit = SummedLimit(t, R)
                          /\ e.overagePolicy
                               = Widest(PoliciesOf(R) \cup PlanPolicies(t))
<1>1. t # Null => /\ PlanEntry(t) \in Entitlement /\ PlanEntry(t) # Null
                  /\ PlanEntry(t).isEnabled = TRUE
                  /\ PlanEntry(t).effectiveLimit = t.includedLimit
                  /\ PlanEntry(t).overagePolicy = t.overagePolicy
                  /\ t.includedLimit \in Limit /\ t.overagePolicy \in OveragePolicy
  BY PlanEntryTyped, NullAssumption
<1>2. t = Null => PlanEntry(t) = Null
  BY DEF PlanEntry
<1>3. CASE R = {}
  <2>1. Limited(R) /\ TotalOf(R) = 0 /\ PoliciesOf(R) = {}
    BY <1>3, TotalOfNone DEF Limited, PoliciesOf
  <2>2. e = PlanEntry(t)
    BY <1>3 DEF AddedEntry
  <2>3. t # Null => t.overagePolicy = Widest({t.overagePolicy})
    BY <1>1 DEF Widest
  <2>4. t # Null => SummedLimit(t, R) = t.includedLimit
    BY <1>1, <1>3, <2>1, NullAssumption DEF SummedLimit, Limit
  <2> QED
    BY <1>1, <1>2, <1>3, <2>1, <2>2, <2>3, <2>4 DEF PlanPolicies
<1>4. CASE R # {}
  <2>1. AddedEntry(PlanEntry(t), R) \in Entitlement
    <3>1. PlanEntry(t) \in Entitlement \cup {Null}
      BY <1>1, <1>2
    <3> QED
      BY <1>4, <3>1, AddedEntryTyped
  <2>2. e # Null
    BY <2>1, NullAssumption
  <2>3. e.isEnabled = TRUE
    BY <1>1, <1>2, <1>4 DEF AddedEntry
  <2>4. e.effectiveLimit = SummedLimit(t, R)
    BY <1>1, <1>2, <1>4 DEF AddedEntry, SummedLimit
  <2>5. e.overagePolicy = Widest(PoliciesOf(R) \cup PlanPolicies(t))
    BY <1>1, <1>2, <1>4 DEF AddedEntry, PlanPolicies
  <2> QED
    BY <1>4, <2>2, <2>3, <2>4, <2>5
<1> QED
  BY <1>3, <1>4

(* The rules, for the entry v that merge() leaves for a feature.            *)
RulesFor(v, t, R, P) ==
    /\ v # Null <=> t # Null \/ R # {} \/ \E o \in P : o.isEnabled
    /\ v # Null =>
         /\ v.isEnabled <=> \A o \in P : o.isEnabled
         /\ v.overagePolicy = Widest(PoliciesOf(R) \cup PlanPolicies(t))
         /\ \A o \in P : Replaces(o) => v.effectiveLimit = o.limitOverride
         /\ (\A o \in P : ~Replaces(o)) => v.effectiveLimit = SummedLimit(t, R)

LEMMA DecidedEntryIs ==
    ASSUME NEW t \in Terms \cup {Null},
           NEW R \in SUBSET AddonFeature, IsFiniteSet(R),
           NEW P \in SUBSET Override, \A o, p \in P : o = p
    PROVE  RulesFor(DecidedEntry(AddedEntry(PlanEntry(t), R), P), t, R, P)
<1>1. PICK e : e = AddedEntry(PlanEntry(t), R)
  OBVIOUS
<1>2. PICK w, l : /\ w = Widest(PoliciesOf(R) \cup PlanPolicies(t))
                  /\ l = SummedLimit(t, R)
  OBVIOUS
<1>3. /\ e # Null <=> t # Null \/ R # {}
      /\ e # Null => /\ e.isEnabled = TRUE
                     /\ e.effectiveLimit = l
                     /\ e.overagePolicy = w
  BY <1>1, <1>2, AddedEntryIs
<1>4. CASE P = {}
  BY <1>1, <1>2, <1>3, <1>4 DEF RulesFor, DecidedEntry
<1>5. CASE P # {}
  <2>1. PICK o \in Override : P = {o}
    BY <1>5
  <2>2. (CHOOSE p \in P : TRUE) = o
    BY <2>1
  <2>3. o.isEnabled \in BOOLEAN
    BY DEF Override
  <2>4. CASE e # Null
    <3>1. DecidedEntry(e, P) = Overridden(e, o)
      BY <1>5, <2>2, <2>4 DEF DecidedEntry
    <3>2. Overridden(e, o) # Null
      <4>1. AddedEntry(PlanEntry(t), R) \in Entitlement \cup {Null}
        BY PlanEntryTyped, AddedEntryTyped
      <4>2. e \in Entitlement
        BY <1>1, <2>4, <4>1
      <4> QED
        BY <4>2, OverriddenTyped, NullAssumption
    <3>3. /\ Overridden(e, o).isEnabled = o.isEnabled
          /\ Overridden(e, o).overagePolicy = w
          /\ Overridden(e, o).effectiveLimit
               = IF Replaces(o) THEN o.limitOverride ELSE l
      BY <1>3, <2>4 DEF Overridden, Replaces
    <3> QED
      BY <1>1, <1>2, <1>3, <2>1, <2>3, <2>4, <3>1, <3>2, <3>3 DEF RulesFor
  <2>5. CASE e = Null
    <3>1. t = Null /\ R = {}
      BY <1>3, <2>5
    <3>2. l = Null /\ w = "deny"
      BY <1>2, <3>1 DEF SummedLimit, Widest, PoliciesOf, PlanPolicies
    <3>3. DecidedEntry(e, P) = IF o.isEnabled THEN FromOverride(o) ELSE Null
      BY <1>5, <2>2, <2>5 DEF DecidedEntry
    <3>4. FromOverride(o) # Null
      BY FromOverrideTyped, NullAssumption
    <3>5. /\ FromOverride(o).isEnabled = TRUE
          /\ FromOverride(o).overagePolicy = "deny"
          /\ FromOverride(o).effectiveLimit = o.limitOverride
      BY DEF FromOverride
    <3> QED
      BY <1>1, <1>2, <2>1, <3>1, <3>2, <3>3, <3>4, <3>5 DEF RulesFor, Replaces
  <2> QED
    BY <2>4, <2>5
<1> QED
  BY <1>4, <1>5

(* What the merge gives of one feature obeys the rules, whatever rows there *)
(* are and in whichever order they come.                                    *)
THEOREM MergeFollowsRules ==
    ASSUME NEW pf \in PlanFeatures,
           NEW A \in SUBSET AddonFeature, IsFiniteSet(A),
           NEW P \in SUBSET Override, OnePerFeature(P), NEW f \in Feature
    PROVE  RulesFor(Decided(Added(FromPlan(pf), A), P)[f],
                    pf[f], RowsAbout(A, f), RowsAbout(P, f))
<1>1. pf[f] \in Terms \cup {Null}
  BY DEF PlanFeatures
<1>2. RowsAbout(A, f) \in SUBSET AddonFeature /\ IsFiniteSet(RowsAbout(A, f))
  BY RowsFinite
<1>3. /\ RowsAbout(P, f) \in SUBSET Override
      /\ \A o, p \in RowsAbout(P, f) : o = p
  BY DEF RowsAbout, OnePerFeature
<1>4. Decided(Added(FromPlan(pf), A), P)[f]
        = DecidedEntry(AddedEntry(FromPlan(pf)[f], RowsAbout(A, f)), RowsAbout(P, f))
  BY DEF Decided, Added
<1>5. FromPlan(pf)[f] = PlanEntry(pf[f])
  BY DEF FromPlan, PlanEntry
<1> QED
  BY <1>1, <1>2, <1>3, <1>4, <1>5, DecidedEntryIs

-----------------------------------------------------------------------------
(* resolveForOrg                                                            *)

LEMMA ImageFinite ==
    ASSUME NEW S, IsFiniteSet(S), NEW g, DOMAIN g = S
    PROVE  IsFiniteSet({g[x] : x \in S})
<1> DEFINE T == {g[x] : x \in S}
<1>1. [x \in S |-> g[x]] \in Surjection(S, T)
  BY DEF Surjection
<1> HIDE DEF T
<1>2. IsFiniteSet(T)
  BY <1>1, FS_Surjection
<1> QED
  BY <1>2 DEF T

(* The addon rows with the quantities of the subscription.                  *)
Quantified(s, A) == {WithQuantity(s, af) : af \in A}

Subscribed(s, A) ==
    /\ A \in SUBSET AddonTerms /\ IsFiniteSet(A)
    /\ \A af \in A : Quantity(s, af) \in Nat \ {0}

LEMMA QuantifiedTyped ==
    ASSUME NEW s, NEW A, Subscribed(s, A)
    PROVE  Quantified(s, A) \in SUBSET AddonFeature /\ IsFiniteSet(Quantified(s, A))
<1> DEFINE g == [af \in A |-> WithQuantity(s, af)]
<1>1. IsFiniteSet({g[af] : af \in A})
  BY ImageFinite DEF Subscribed
<1>2. {g[af] : af \in A} = Quantified(s, A)
  BY DEF Quantified
<1>3. ASSUME NEW af \in A PROVE WithQuantity(s, af) \in AddonFeature
  BY DEF Subscribed, WithQuantity, AddonFeature, AddonTerms
<1> QED
  BY <1>1, <1>2, <1>3 DEF Quantified

(* Whatever rows a resolution or a simulation reads, its result has an      *)
(* entitlement or none for each feature.                                    *)
THEOREM ResolveTyped ==
    ASSUME NEW s, NEW pf \in PlanFeatures, NEW A, Subscribed(s, A),
           NEW P \in SUBSET Override, IsFiniteSet(P)
    PROVE  Resolve(s, pf, A, P) \in Entitlements
<1>1. PICK R : /\ R = Quantified(s, A)
               /\ R \in SUBSET AddonFeature /\ IsFiniteSet(R)
  BY QuantifiedTyped
<1>2. Merge(pf, SetToSeq(R), SetToSeq(P), 0) \in Entitlements
  BY <1>1, MergeTyped
<1> QED
  BY <1>1, <1>2 DEF Resolve, Quantified

(* A resolution of overrides in force obeys the rules, whatever it reads.   *)
THEOREM ResolveFollowsRules ==
    ASSUME NEW s, NEW pf \in PlanFeatures, NEW A, Subscribed(s, A),
           NEW P \in SUBSET Override, IsFiniteSet(P), OnePerFeature(P),
           \A o \in P : IsOverrideActive(o, 0), NEW f \in Feature
    PROVE  RulesFor(Resolve(s, pf, A, P)[f], pf[f],
                    RowsAbout(Quantified(s, A), f), RowsAbout(P, f))
<1>1. PICK R : /\ R = Quantified(s, A)
               /\ R \in SUBSET AddonFeature /\ IsFiniteSet(R)
  BY QuantifiedTyped
<1>2. Enumerates(SetToSeq(R), R) /\ Enumerates(SetToSeq(P), P)
  BY <1>1, SetToSeqEnumerates
<1>3. Merge(pf, SetToSeq(R), SetToSeq(P), 0)
        = Decided(Added(FromPlan(pf), R), InForce(P, 0))
  BY <1>1, <1>2, MergeComputes
<1>4. InForce(P, 0) = P
  BY DEF InForce
<1>5. RulesFor(Decided(Added(FromPlan(pf), R), P)[f],
               pf[f], RowsAbout(R, f), RowsAbout(P, f))
  BY <1>1, MergeFollowsRules
<1>6. Resolve(s, pf, A, P) = Merge(pf, SetToSeq(R), SetToSeq(P), 0)
  BY <1>1 DEF Resolve, Quantified
<1> QED
  BY <1>1, <1>3, <1>4, <1>5, <1>6

(* The capacities of catalog rows, each with its quantity, add up to the    *)
(* units of the rows the merge gets.                                        *)
CapacityRec(g, s, A) ==
    g = [x \in SUBSET A |->
           IF x = {} THEN 0
           ELSE AnyOf(x).includedLimit * Quantity(s, AnyOf(x)) + g[x \ {AnyOf(x)}]]

LEMMA QuantifiedOneMore ==
    ASSUME NEW s, NEW A, Subscribed(s, A), Limited(A), NEW x \in SUBSET A, x # {}
    PROVE  TotalOf(Quantified(s, x))
             = AnyOf(x).includedLimit * Quantity(s, AnyOf(x))
                 + TotalOf(Quantified(s, x \ {AnyOf(x)}))
<1>1. PICK af \in x : af = AnyOf(x)
  BY DEF AnyOf
<1>2. PICK y : y = x \ {af}
  OBVIOUS
<1>3. PICK R, row : R = Quantified(s, y) /\ row = WithQuantity(s, af)
  OBVIOUS
<1>4. Subscribed(s, y) /\ Subscribed(s, x)
  <2>1. y \in SUBSET A /\ x \in SUBSET A /\ IsFiniteSet(A)
    BY <1>2 DEF Subscribed
  <2>2. IsFiniteSet(y) /\ IsFiniteSet(x)
    BY <2>1, FS_Subset
  <2> QED
    BY <2>1, <2>2 DEF Subscribed
<1>5. R \in SUBSET AddonFeature /\ IsFiniteSet(R) /\ Limited(R)
  <2>1. R \in SUBSET AddonFeature /\ IsFiniteSet(R)
    BY <1>3, <1>4, QuantifiedTyped
  <2>2. Limited(R)
    BY <1>2, <1>3 DEF Limited, Quantified, WithQuantity
  <2> QED
    BY <2>1, <2>2
<1>6. /\ row \in AddonFeature /\ row.includedLimit = af.includedLimit
      /\ row.includedLimit # Null /\ row.quantity = Quantity(s, af)
  <2>1. Quantified(s, x) \in SUBSET AddonFeature
    BY <1>4, QuantifiedTyped
  <2> QED
    BY <1>3, <2>1 DEF Quantified, WithQuantity, Limited
<1>7. row \notin R
  <2>1. ASSUME NEW b \in y, WithQuantity(s, b) = row PROVE FALSE
    <3>1. b \in AddonTerms /\ af \in AddonTerms /\ b # af
      BY <1>2 DEF Subscribed
    <3>2. /\ b.addon = af.addon /\ b.feature = af.feature
          /\ b.includedLimit = af.includedLimit
          /\ b.overagePolicy = af.overagePolicy
      BY <1>3, <2>1 DEF WithQuantity
    <3> QED
      BY <3>1, <3>2 DEF AddonTerms
  <2> QED
    BY <1>3, <2>1 DEF Quantified
<1>8. Quantified(s, x) = R \cup {row}
  <2>1. x = y \cup {af}
    BY <1>2
  <2> QED
    BY <1>3, <2>1 DEF Quantified
<1>9. Capacity(row) = af.includedLimit * Quantity(s, af)
  BY <1>6 DEF Capacity
<1>10. TotalOf(R \cup {row}) = TotalOf(R) + Capacity(row)
  BY <1>5, <1>6, <1>7, TotalOfOneMore
<1>11. TotalOf(R) \in Nat /\ Capacity(row) \in Nat
  BY <1>5, <1>6, UnitsFinite, CapacityTyped DEF Limit
<1> QED
  BY <1>1, <1>2, <1>3, <1>8, <1>9, <1>10, <1>11

LEMMA RowsAddUp ==
    ASSUME NEW s, NEW A, Subscribed(s, A), Limited(A)
    PROVE  (CHOOSE g : CapacityRec(g, s, A))[A] = TotalOf(Quantified(s, A))
<1> DEFINE w == [af \in A |-> af.includedLimit * Quantity(s, af)]
           h == [x \in SUBSET A |-> TotalOf(Quantified(s, x))]
           g == CHOOSE x : CapacityRec(x, s, A)
<1>1. ASSUME NEW x PROVE CapacityRec(x, s, A) <=> SumRec(x, A, w)
  <2>1. \A y \in SUBSET A : y # {} =>
          w[AnyOf(y)] = AnyOf(y).includedLimit * Quantity(s, AnyOf(y))
    BY DEF AnyOf
  <2> HIDE DEF w
  <2> QED
    BY <2>1 DEF SumRec, CapacityRec
<1>2. CapacityRec(h, s, A)
  <2>1. h[{}] = 0
    BY TotalOfNone DEF Quantified
  <2>2. ASSUME NEW x \in SUBSET A, x # {}
        PROVE  h[x] = AnyOf(x).includedLimit * Quantity(s, AnyOf(x))
                        + h[x \ {AnyOf(x)}]
    <3>1. PICK y : y = x \ {AnyOf(x)} /\ y \in SUBSET A
      OBVIOUS
    <3>2. h[x] = TotalOf(Quantified(s, x)) /\ h[y] = TotalOf(Quantified(s, y))
      BY <3>1
    <3> HIDE DEF h
    <3> QED
      BY <2>2, <3>1, <3>2, QuantifiedOneMore
  <2>3. h = [x \in SUBSET A |-> h[x]]
    OBVIOUS
  <2> HIDE DEF h
  <2> QED
    BY <2>1, <2>2, <2>3 DEF CapacityRec
<1> HIDE DEF w, h
<1>3. CapacityRec(g, s, A)
  BY <1>2, Zenon
<1> HIDE DEF g
<1>4. g[A] = h[A]
  <2>1. IsFiniteSet(A) /\ SumRec(g, A, w) /\ SumRec(h, A, w)
    BY <1>1, <1>2, <1>3 DEF Subscribed
  <2> QED
    BY <2>1, SumRecUnique
<1> QED
  BY <1>4 DEF g, h
=============================================================================
