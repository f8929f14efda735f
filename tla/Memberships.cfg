SPECIFICATION Spec
CHECK_DEADLOCK FALSE
CONSTANTS
    u1 = u1
    u2 = u2
    root = root
    s1 = s1
    s2 = s2
    r1 = r1
    r2 = r2
    r3 = r3
    r4 = r4
    r5 = r5
    None = None
    User <- MCUser
    PlatformAdmin <- MCPlatformAdmin
    Slug <- MCSlug
    InviteRole <- MCInviteRole
    Request <- MCRequest
    Workload <- MCWorkload
SYMMETRY Interchangeable
INVARIANTS
    TypeOK
    KeysAreUnique
    AcceptedMeansMember
    InvitationIsSingleUse
    SettledOrgHasOwner
    MembershipIsEarned
