------------------------------- MODULE MCSessions -------------------------------
(* Sessions with a handful of interchangeable requests.                     *)
EXTENDS Sessions, TLC

CONSTANTS r1, r2, r3, r4, r5

FourRequests == {r1, r2, r3, r4}
FiveRequests == {r1, r2, r3, r4, r5}
Interchangeable == Permutations(Request)
=============================================================================
