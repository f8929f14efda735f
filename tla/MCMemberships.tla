------------------------------ MODULE MCMemberships ------------------------------
(* Two founders who may race for a slug, a platform administrator, up to    *)
(* two invitations of analysts, and up to two requests accepting them.      *)
EXTENDS Memberships, TLC

CONSTANTS u1, u2, root, s1, s2, r1, r2, r3, r4, r5

MCUser == {u1, u2, root}
MCPlatformAdmin == {root}
MCSlug == {s1, s2}
MCInviteRole == {"analyst"}
MCRequest == {r1, r2, r3, r4, r5}
MCWorkload ==
    (r1 :> {"createOrg"}) @@ (r2 :> {"createOrg"}) @@
    (r3 :> {"invite"}) @@ (r4 :> {"invite", "accept"}) @@ (r5 :> {"accept"})

Interchangeable == Permutations({r1, r2}) \cup Permutations({u1, u2})
                   \cup Permutations(MCSlug)
=============================================================================
