------------------------------ MODULE Memberships ------------------------------
(****************************************************************************)
(* Tenancy: creating an organization, inviting a user to it and accepting   *)
(* the invitation, over the tables "organizations", "memberships" and       *)
(* "invitations".                                                           *)
(*                                                                          *)
(* Each of the three handlers does its work in several database calls       *)
(* without a transaction, so every call is an action and a request may stop *)
(* after any of them.  A request inserts at most one row of each table;     *)
(* organizations and invitations are named after that request.  An          *)
(* invitation's token and an organization's id leave the server in the      *)
(* answer only.  No code deletes a row of these tables or changes a role.   *)
(****************************************************************************)
EXTENDS Naturals, FiniteSets

CONSTANTS
    User,          \* users; their e-mail addresses are as unique as they are
    PlatformAdmin, \* the users with is_platform_admin
    Slug,
    InviteRole,    \* roles the bodies of invitations ask for
    Request,
    Workload,      \* Workload[r]: the operations request r may be
    None

Role == {"owner", "admin", "billing", "analyst", "integration"}
Op == {"createOrg", "invite", "accept"}

ASSUME UsersAssumption == PlatformAdmin \subseteq User /\ InviteRole \subseteq Role
ASSUME WorkloadAssumption == Workload \in [Request -> SUBSET Op]
VARIABLES
    orgs,        \* slug of the organization request r inserted
    memberships, \* rows, with the request that inserted each
    invitations, \* the invitation request r inserted
    pc,
    call,        \* the caller, operation and body of each request
    joining      \* organization, user and role createMembership was called with

vars == <<orgs, memberships, invitations, pc, call, joining>>

Membership == [org : Request, user : User, role : Role, by : Request]
Invitation == [org : Request, to : User, role : Role, accepted : BOOLEAN,
               expired : BOOLEAN]
Joining == [org : Request, user : User, role : Role]
Body == [op : {"createOrg"}, user : User, slug : Slug] \cup
        [op : {"invite"}, user : User, org : Request, to : User, role : InviteRole]
        \cup [op : {"accept"}, user : User, invitation : Request]

ASSUME NoneAssumption ==
    /\ None \notin Slug \cup Request
    /\ None \notin Invitation /\ None \notin Joining /\ None \notin Body

Running == {"checkSlug", "insertOrg", "guards", "insertInvitation",
            "findInvitation", "saveAccepted", "checkMember", "insertMember"}
Ended == {"ok", "rejected", "failed", "crashed"}

Orgs == {o \in Request : orgs[o] # None}
Invitations == {i \in Request : invitations[i] # None}
Known(rows) == {x \in rows : pc[x] = "ok"}
MembershipsOf(org, user) == {m \in memberships : m.org = org /\ m.user = user}

Goto(r, label) == pc' = [pc EXCEPT ![r] = label]

Init ==
    /\ orgs = [r \in Request |-> None]
    /\ memberships = {}
    /\ invitations = [r \in Request |-> None]
    /\ pc = [r \in Request |-> "idle"]
    /\ call = [r \in Request |-> None]
    /\ joining = [r \in Request |-> None]

-----------------------------------------------------------------------------
Call(r, c, label) ==
    /\ pc[r] = "idle"
    /\ c.op \in Workload[r]
    /\ call' = [call EXCEPT ![r] = c]
    /\ Goto(r, label)
    /\ UNCHANGED <<orgs, memberships, invitations, joining>>

ArriveCreate(r) ==
    \E u \in User, s \in Slug :
        Call(r, [op |-> "createOrg", user |-> u, slug |-> s], "checkSlug")

ArriveInvite(r) ==
    \E u, to \in User, role \in InviteRole, o \in Known(Orgs) :
        Call(r, [op |-> "invite", user |-> u, org |-> o, to |-> to,
                 role |-> role], "guards")

ArriveAccept(r) ==
    \E u \in User, i \in Known(Invitations) :
        Call(r, [op |-> "accept", user |-> u, invitation |-> i],
             "findInvitation")

-----------------------------------------------------------------------------
(* create: OrganizationsService.create, then createMembership as owner      *)

SlugTaken(s) == \E o \in Orgs : orgs[o] = s

CheckSlug(r) ==
    /\ pc[r] = "checkSlug"
    /\ Goto(r, IF SlugTaken(call[r].slug) THEN "rejected" ELSE "insertOrg")
    /\ UNCHANGED <<orgs, memberships, invitations, call, joining>>

(* Mutant: the founder joins as an administrator.                           *)
InsertOrg_asAdmin(r) ==
    /\ pc[r] = "insertOrg"
    /\ ~SlugTaken(call[r].slug)
    /\ orgs' = [orgs EXCEPT ![r] = call[r].slug]
    /\ joining' = [joining EXCEPT ![r] =
           [org |-> r, user |-> call[r].user, role |-> "admin"]]
    /\ Goto(r, "checkMember")
    /\ UNCHANGED <<memberships, invitations, call>>

InsertOrg(r) ==
    /\ pc[r] = "insertOrg"
    /\ IF SlugTaken(call[r].slug) \* uq_organizations_slug
       THEN Goto(r, "failed") /\ UNCHANGED <<orgs, joining>>
       ELSE /\ orgs' = [orgs EXCEPT ![r] = call[r].slug]
            /\ joining' = [joining EXCEPT ![r] =
                   [org |-> r, user |-> call[r].user, role |-> "owner"]]
            /\ Goto(r, "checkMember")
    /\ UNCHANGED <<memberships, invitations, call>>

-----------------------------------------------------------------------------
(* inviteMember, behind OrganizationMemberGuard and RolesGuard              *)

ROLE_WEIGHT == [owner |-> 50, admin |-> 40, billing |-> 30, analyst |-> 20,
                integration |-> 10]
HasMinimumRole(caller, required) == ROLE_WEIGHT[caller] >= ROLE_WEIGHT[required]

(* Mutant: any member may invite.                                           *)
MayInvite_anyMember(user, org) ==
    user \in PlatformAdmin \/ MembershipsOf(org, user) # {}

MayInvite(user, org) ==
    \/ user \in PlatformAdmin
    \/ \E m \in MembershipsOf(org, user) : HasMinimumRole(m.role, "admin")

Guards(r) ==
    /\ pc[r] = "guards"
    /\ Goto(r, IF MayInvite(call[r].user, call[r].org)
               THEN "insertInvitation" ELSE "rejected")
    /\ UNCHANGED <<orgs, memberships, invitations, call, joining>>

InsertInvitation(r) ==
    /\ pc[r] = "insertInvitation"
    /\ invitations' = [invitations EXCEPT ![r] =
           [org |-> call[r].org, to |-> call[r].to, role |-> call[r].role,
            accepted |-> FALSE, expired |-> FALSE]]
    /\ Goto(r, "ok")
    /\ UNCHANGED <<orgs, memberships, call, joining>>

-----------------------------------------------------------------------------
(* acceptInvitation                                                         *)

(* Mutant: the addressee is not compared with the caller.                   *)
Acceptable_byAnyone(invitation, user) ==
    ~invitation.accepted /\ ~invitation.expired

Acceptable(invitation, user) ==
    ~invitation.accepted /\ ~invitation.expired /\ invitation.to = user

FindInvitation(r) ==
    LET i == invitations[call[r].invitation]
    IN /\ pc[r] = "findInvitation"
       /\ Goto(r, IF Acceptable(i, call[r].user)
                  THEN "saveAccepted" ELSE "rejected")
       /\ UNCHANGED <<orgs, memberships, invitations, call, joining>>

SaveAccepted(r) ==
    LET i == invitations[call[r].invitation]
    IN /\ pc[r] = "saveAccepted"
       /\ invitations' = [invitations EXCEPT ![call[r].invitation].accepted = TRUE]
       /\ joining' = [joining EXCEPT ![r] =
              [org |-> i.org, user |-> call[r].user, role |-> i.role]]
       /\ Goto(r, "checkMember")
       /\ UNCHANGED <<orgs, memberships, call>>

-----------------------------------------------------------------------------
(* createMembership                                                         *)

(* Mutant: the lookup names the user only.                                  *)
IsMember_anyOrg(r) == \E m \in memberships : m.user = joining[r].user

IsMember(r) == MembershipsOf(joining[r].org, joining[r].user) # {}

(* Mutant: the role of the invitation is not passed on.                     *)
Joined_noRole(r) == [org |-> joining[r].org, user |-> joining[r].user,
                     role |-> None, by |-> r]

Joined(r) == [org |-> joining[r].org, user |-> joining[r].user,
              role |-> joining[r].role, by |-> r]

CheckMember(r) ==
    /\ pc[r] = "checkMember"
    /\ Goto(r, IF IsMember(r) THEN "rejected" ELSE "insertMember")
    /\ UNCHANGED <<orgs, memberships, invitations, call, joining>>

(* Mutant: no UNIQUE (organization_id, user_id) behind the check.           *)
InsertMember_noUnique(r) ==
    /\ pc[r] = "insertMember"
    /\ memberships' = memberships \cup {Joined(r)}
    /\ Goto(r, "ok")
    /\ UNCHANGED <<orgs, invitations, call, joining>>

InsertMember(r) ==
    /\ pc[r] = "insertMember"
    /\ IF IsMember(r) \* uq_membership_org_user
       THEN Goto(r, "failed") /\ UNCHANGED memberships
       ELSE /\ memberships' = memberships \cup {Joined(r)}
            /\ Goto(r, "ok")
    /\ UNCHANGED <<orgs, invitations, call, joining>>

-----------------------------------------------------------------------------
Crash(r) ==
    /\ pc[r] \in Running
    /\ Goto(r, "crashed")
    /\ UNCHANGED <<orgs, memberships, invitations, call, joining>>

ExpireInvitation(i) ==
    /\ i \in Invitations
    /\ ~invitations[i].expired
    /\ invitations' = [invitations EXCEPT ![i].expired = TRUE]
    /\ UNCHANGED <<orgs, memberships, pc, call, joining>>

Step(r) ==
    \/ ArriveCreate(r) \/ ArriveInvite(r) \/ ArriveAccept(r)
    \/ CheckSlug(r) \/ InsertOrg(r)
    \/ Guards(r) \/ InsertInvitation(r)
    \/ FindInvitation(r) \/ SaveAccepted(r)
    \/ CheckMember(r) \/ InsertMember(r)
    \/ Crash(r) \/ ExpireInvitation(r)

Next == \E r \in Request : Step(r)

Spec == Init /\ [][Next]_vars

-----------------------------------------------------------------------------
TypeOK ==
    /\ orgs \in [Request -> Slug \cup {None}]
    /\ memberships \subseteq Membership
    /\ invitations \in [Request -> Invitation \cup {None}]
    /\ pc \in [Request -> {"idle"} \cup Running \cup Ended]
    /\ call \in [Request -> Body \cup {None}]
    /\ joining \in [Request -> Joining \cup {None}]
    /\ \A m \in memberships : m.org \in Orgs
    /\ \A i \in Invitations : invitations[i].org \in Orgs

(* Two requests past their checks do not both insert: one organization per  *)
(* slug, one membership per user and organization.                          *)
KeysAreUnique ==
    /\ \A o, q \in Orgs : orgs[o] = orgs[q] => o = q
    /\ \A m, n \in memberships : m.org = n.org /\ m.user = n.user => m = n

(* A consumed invitation made its addressee a member of the organization,   *)
(* unless a request that accepted it is still at work or died after the     *)
(* invitation was saved and before the membership was.                      *)
Accepting(i) == {r \in Request : call[r] # None /\ call[r].op = "accept"
                                 /\ call[r].invitation = i /\ joining[r] # None}
AcceptedMeansMember ==
    \A i \in Invitations :
        \/ ~invitations[i].accepted
        \/ MembershipsOf(invitations[i].org, invitations[i].to) # {}
        \/ \E r \in Accepting(i) :
               pc[r] \in {"checkMember", "insertMember", "crashed"}

(* An invitation is good for one membership (invitation.entity.ts:20),      *)
(* although acceptedAt is checked long before it is saved.                  *)
InvitationIsSingleUse ==
    \A m, n \in memberships :
        (/\ call[m.by].op = "accept" /\ call[n.by].op = "accept"
         /\ call[m.by].invitation = call[n.by].invitation) => m = n

(* An organization with a member or an invitation has its founder as owner: *)
(* a create that died half-way leaves an organization nobody gets into.     *)
SettledOrgHasOwner ==
    \A o \in Orgs :
        (\/ \E m \in memberships : m.org = o
         \/ \E i \in Invitations : invitations[i].org = o)
        => \E m \in MembershipsOf(o, call[o].user) : m.role = "owner"

(* Whoever is a member founded the organization, or joined with the role of *)
(* an invitation addressed to them; and whoever wrote an invitation is an   *)
(* owner, an administrator of the organization or of the platform.          *)
MembershipIsEarned ==
    /\ \A m \in memberships :
         LET c == call[m.by]
             i == invitations[c.invitation]
         IN \/ c.op = "createOrg" /\ m.by = m.org /\ m.role = "owner"
            \/ /\ c.op = "accept"
               /\ i.org = m.org /\ i.to = m.user /\ i.role = m.role
    /\ \A i \in Invitations :
         \/ call[i].user \in PlatformAdmin
         \/ \E m \in MembershipsOf(invitations[i].org, call[i].user) :
                m.role \in {"owner", "admin"}
=============================================================================
