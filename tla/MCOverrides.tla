----------------------------- MODULE MCOverrides -----------------------------
(* The catalog and the overrides on a small instance: a feature, a plan and *)
(* an override from the start, and requests that work on the same rows.     *)
EXTENDS Overrides, TLC

CONSTANTS k1, k2, f0, p0, v0, r1, r2, r3, q1, q2, q3

MCKey == {k1, k2}
MCRequest == {r1, r2, r3}
MCOverrideRequest == {q1, q2, q3}
MCSeeded == (f0 :> [table |-> "feature", key |-> k1]) @@
            (p0 :> [table |-> "plan", key |-> k1])
MCSeededOverrides == v0 :> [feature |-> f0, startsAt |-> 0, endsAt |-> None]

Create(t, k) == [op |-> "create", item |-> [table |-> t, key |-> k]]
Update(i, t, k) == [op |-> "update", id |-> i, table |-> t, key |-> k]
Delete(i, t) == [op |-> "delete", id |-> i, table |-> t]
Map(op, b, f) == [op |-> op, bundle |-> b, feature |-> f]

Creates == {Create("feature", k1), Create("feature", k2)}
Renames == {Update(f0, "feature", k2), Update(p0, "plan", None)}
Deletes == {Delete(f0, "feature"), Delete(p0, "plan")}
Maps == {Map("assign", p0, f0), Map("unassign", p0, f0)}
OnNew == {Update(r1, "feature", k2)}
MCCall == Creates \cup Renames \cup Deletes \cup Maps \cup OnNew
MCWorkload == (r1 :> Creates) @@
              (r2 :> Renames \cup {Map("assign", p0, f0)}) @@
              (r3 :> Deletes \cup Maps \cup OnNew)

NewOverride(f, s, e) ==
    [op |-> "create", row |-> [feature |-> f, startsAt |-> s, endsAt |-> e]]
Patch(i, s, e) == [op |-> "update", id |-> i, startsAt |-> s, endsAt |-> e]
Drop(i) == [op |-> "delete", id |-> i]

MCOverrideWorkload ==
    (q1 :> {NewOverride(f0, None, 1), Patch(v0, 1, Absent)}) @@
    (q2 :> {NewOverride(f0, 1, 2), Patch(v0, Absent, 1)}) @@
    (q3 :> {Drop(v0)})

(* Nobody works on the catalog.                                             *)
Quiet == [r \in MCRequest |-> {}]
=============================================================================
