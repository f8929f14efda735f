--------------------------- MODULE Memberships_proofs ---------------------------
(* Invariants of tenancy, for every number of users, organizations and      *)
(* requests.                                                                *)
EXTENDS Memberships, TLAPS

-----------------------------------------------------------------------------
(* What strengthens the invariants: which body a request at a given place   *)
(* carries, and where what it is about to insert comes from.                *)
Founding == {"checkSlug", "insertOrg"}
Inviting == {"guards", "insertInvitation"}
Answering == {"findInvitation", "saveAccepted"}
JoiningAt == {"checkMember", "insertMember"}

PlaceOK ==
    \A r \in Request :
      /\ pc[r] = "idle" <=> call[r] = None
      /\ pc[r] \in Founding => call[r].op = "createOrg"
      /\ pc[r] \in Inviting => call[r].op = "invite"
      /\ pc[r] \in Answering => call[r].op = "accept"
      /\ pc[r] \in JoiningAt => joining[r] # None
      /\ pc[r] \in {"idle"} \cup Founding \cup Inviting \cup Answering =>
             joining[r] = None
      /\ pc[r] = "insertInvitation" => MayInvite(call[r].user, call[r].org)
      /\ pc[r] = "saveAccepted" =>
             invitations[call[r].invitation].to = call[r].user

(* The rows a body refers to are those of requests that were answered.      *)
BodyOK ==
    \A r \in Request : call[r] # None =>
      /\ call[r].op = "invite" => call[r].org \in Orgs /\ pc[call[r].org] = "ok"
      /\ call[r].op = "accept" => call[r].invitation \in Invitations

RowsOK ==
    /\ \A o \in Orgs : call[o] # None /\ call[o].op = "createOrg" /\ joining[o] # None
    /\ \A i \in Invitations :
         /\ call[i] # None /\ call[i].op = "invite"
         /\ pc[i] = "ok" /\ joining[i] = None
         /\ invitations[i].org = call[i].org

(* createMembership is called for the founder as owner, or for the          *)
(* addressee of an invitation in the role it names.                         *)
JoiningOK ==
    \A r \in Request : joining[r] # None =>
      \/ /\ call[r].op = "createOrg" /\ r \in Orgs
         /\ joining[r] = [org |-> r, user |-> call[r].user, role |-> "owner"]
      \/ /\ call[r].op = "accept"
         /\ LET i == invitations[call[r].invitation]
            IN joining[r] = [org |-> i.org, user |-> i.to, role |-> i.role]

MembersOK ==
    /\ \A m \in memberships : /\ m.by \in Request /\ joining[m.by] # None
                              /\ m = Joined(m.by) /\ pc[m.by] = "ok"
    /\ \A r \in Request : pc[r] = "ok" /\ joining[r] # None =>
         \E m \in memberships : m.by = r

(* Second half of MembershipIsEarned.                                       *)
WrittenByAdmin ==
    \A i \in Invitations :
         \/ call[i].user \in PlatformAdmin
         \/ \E m \in MembershipsOf(invitations[i].org, call[i].user) :
                m.role \in {"owner", "admin"}

IInv ==
    /\ TypeOK /\ PlaceOK /\ BodyOK /\ RowsOK /\ JoiningOK /\ MembersOK
    /\ KeysAreUnique /\ AcceptedMeansMember /\ WrittenByAdmin

-----------------------------------------------------------------------------
USE DEF Founding, Inviting, Answering, JoiningAt, Running, Ended

LEMMA BodyFields ==
    ASSUME NEW c \in Body
    PROVE  /\ c # None
           /\ c.op \in Op
           /\ c.user \in User
           /\ c.op = "createOrg" => c.slug \in Slug
           /\ c.op = "invite" => c.org \in Request /\ c.to \in User /\ c.role \in Role
           /\ c.op = "accept" => c.invitation \in Request
BY NoneAssumption, UsersAssumption DEF Body, Op

LEMMA IInvInit == Init => IInv
BY NoneAssumption
DEF Init, IInv, TypeOK, PlaceOK, BodyOK, RowsOK, JoiningOK, MembersOK,
    KeysAreUnique, AcceptedMeansMember, WrittenByAdmin, Orgs, Invitations

(* A step of r from one place to the next that leaves every row alone.      *)
Rows == <<orgs, memberships, invitations>>

LEMMA IInvMove ==
    ASSUME IInv, NEW r \in Request, pc[r] \in Running,
           Goto(r, pc'[r]), pc'[r] \in Running \cup (Ended \ {"ok"}),
           UNCHANGED <<Rows, call, joining>>,
           \/ pc'[r] \in Ended
           \/ pc[r] = "checkSlug" /\ pc'[r] = "insertOrg"
           \/ /\ pc[r] = "guards" /\ pc'[r] = "insertInvitation"
              /\ MayInvite(call[r].user, call[r].org)
           \/ /\ pc[r] = "findInvitation" /\ pc'[r] = "saveAccepted"
              /\ invitations[call[r].invitation].to = call[r].user
           \/ pc[r] = "checkMember" /\ pc'[r] = "insertMember",
           pc[r] \in JoiningAt /\ pc'[r] \in {"rejected", "failed"} => IsMember(r)
    PROVE  IInv'
<1> USE DEF IInv, Rows, Goto
<1>1. \A q \in Request : pc'[q] = IF q = r THEN pc'[r] ELSE pc[q]
  BY DEF TypeOK
<1>2. TypeOK'
  BY DEF TypeOK, Orgs, Invitations
<1>3. PlaceOK'
  BY <1>1 DEF PlaceOK, MayInvite, MembershipsOf
<1>4. BodyOK' /\ RowsOK' /\ JoiningOK'
  BY <1>1 DEF BodyOK, RowsOK, JoiningOK, Orgs, Invitations
<1>5. MembersOK' /\ KeysAreUnique' /\ WrittenByAdmin'
  BY <1>1 DEF MembersOK, KeysAreUnique, WrittenByAdmin, Joined, Orgs, Invitations,
              MembershipsOf
<1>6. AcceptedMeansMember'
  <2> SUFFICES ASSUME NEW i \in Invitations, invitations[i].accepted,
                      MembershipsOf(invitations[i].org, invitations[i].to) = {}
               PROVE  \E q \in Accepting(i) :
                          pc'[q] \in {"checkMember", "insertMember", "crashed"}
    BY DEF AcceptedMeansMember, Invitations, Accepting, MembershipsOf
  <2>1. PICK q \in Accepting(i) : pc[q] \in {"checkMember", "insertMember", "crashed"}
    BY DEF AcceptedMeansMember
  <2>2. q \in Request /\ call[q].op = "accept" /\ call[q].invitation = i
                      /\ joining[q] # None
    BY DEF Accepting
  <2>2a. joining[q] = [org |-> invitations[i].org, user |-> invitations[i].to,
                       role |-> invitations[i].role]
    BY <2>2 DEF JoiningOK
  <2>3. ~IsMember(q)
    BY <2>2a DEF IsMember
  <2> QED
    BY <1>1, <2>1, <2>2, <2>3
<1> QED
  BY <1>2, <1>3, <1>4, <1>5, <1>6

(* The arrival of a request.                                                *)
LEMMA IInvArrive ==
    ASSUME IInv, NEW r \in Request, NEW c \in Body, pc[r] = "idle",
           call' = [call EXCEPT ![r] = c], Goto(r, pc'[r]),
           UNCHANGED <<Rows, joining>>,
           \/ c.op = "createOrg" /\ pc'[r] = "checkSlug"
           \/ c.op = "invite" /\ pc'[r] = "guards" /\ c.org \in Known(Orgs)
           \/ c.op = "accept" /\ pc'[r] = "findInvitation"
                              /\ c.invitation \in Known(Invitations)
    PROVE  IInv'
<1> USE DEF IInv, Rows, Goto
<1>1. \A q \in Request : pc'[q] = IF q = r THEN pc'[r] ELSE pc[q]
  BY DEF TypeOK
<1>2. \A q \in Request : call'[q] = IF q = r THEN c ELSE call[q]
  BY DEF TypeOK
<1>3. call[r] = None /\ joining[r] = None /\ c # None
  BY BodyFields DEF PlaceOK
<1>4. TypeOK'
  BY DEF TypeOK, Orgs, Invitations
<1>5. PlaceOK'
  BY <1>1, <1>2, <1>3 DEF PlaceOK, MayInvite, MembershipsOf
<1>6. BodyOK' /\ RowsOK'
  BY <1>1, <1>2, <1>3 DEF BodyOK, RowsOK, Orgs, Invitations, Known
<1>7. JoiningOK' /\ MembersOK'
  BY <1>1, <1>2, <1>3 DEF JoiningOK, MembersOK, Joined, Orgs
<1>8. KeysAreUnique' /\ WrittenByAdmin'
  BY <1>2, <1>3 DEF RowsOK, KeysAreUnique, WrittenByAdmin, Orgs, Invitations,
                    MembershipsOf
<1>9. AcceptedMeansMember'
  BY <1>1, <1>2, <1>3 DEF AcceptedMeansMember, Accepting, Invitations, MembershipsOf
<1> QED
  BY <1>4, <1>5, <1>6, <1>7, <1>8, <1>9

LEMMA IInvInsertOrg ==
    ASSUME IInv, NEW r \in Request, InsertOrg(r)
    PROVE  IInv'
<1> USE DEF IInv, Rows, Goto, InsertOrg
<1>1. CASE SlugTaken(call[r].slug)
  <2>1. pc'[r] = "failed"
    BY <1>1 DEF TypeOK
  <2> QED
    BY <1>1, <2>1, IInvMove
<1>2. CASE ~SlugTaken(call[r].slug)
  <2> DEFINE j == [org |-> r, user |-> call[r].user, role |-> "owner"]
  <2>1. /\ orgs' = [orgs EXCEPT ![r] = call[r].slug]
        /\ joining' = [joining EXCEPT ![r] = j]
        /\ pc' = [pc EXCEPT ![r] = "checkMember"]
        /\ UNCHANGED <<memberships, invitations, call>>
    BY <1>2
  <2>2. /\ call[r] \in Body /\ call[r].op = "createOrg" /\ joining[r] = None
        /\ call[r] # None
        /\ r \notin Orgs /\ r \notin Invitations
    BY NoneAssumption DEF TypeOK, PlaceOK, RowsOK, Orgs, Invitations
  <2>3. call[r].slug \in Slug /\ call[r].slug # None /\ j \in Joining /\ j # None
    BY <2>2, BodyFields, NoneAssumption DEF Joining, Role
  <2>4. Orgs' = Orgs \cup {r} /\ Invitations' = Invitations
    BY <2>1, <2>3 DEF Orgs, Invitations, TypeOK
  <2>5. \A q \in Request :
          /\ pc'[q] = IF q = r THEN "checkMember" ELSE pc[q]
          /\ joining'[q] = IF q = r THEN j ELSE joining[q]
          /\ orgs'[q] = IF q = r THEN call[r].slug ELSE orgs[q]
    BY <2>1 DEF TypeOK
  <2> HIDE DEF j, InsertOrg, Goto
  <2>6. TypeOK'
    BY <2>1, <2>3, <2>4 DEF TypeOK
  <2>7. PlaceOK'
    <3> SUFFICES ASSUME NEW q \in Request PROVE PlaceOK!(q)'
      BY DEF PlaceOK
    <3>1. CASE q = r
      BY <2>1, <2>2, <2>3, <2>5, <3>1 DEF PlaceOK
    <3>2. CASE q # r
      BY <2>1, <2>5, <3>2 DEF PlaceOK, MayInvite, MembershipsOf
    <3> QED
      BY <3>1, <3>2
  <2>8. BodyOK' /\ RowsOK'
    BY <2>1, <2>2, <2>3, <2>4, <2>5 DEF BodyOK, RowsOK, PlaceOK, InsertOrg
  <2>9. JoiningOK'
    BY <2>1, <2>2, <2>4, <2>5 DEF JoiningOK, j
  <2>10. MembersOK'
    BY <2>1, <2>2, <2>5 DEF MembersOK, Joined
  <2>11. KeysAreUnique'
    BY <1>2, <2>1, <2>4, <2>5 DEF KeysAreUnique, SlugTaken, Orgs
  <2>12. WrittenByAdmin' /\ AcceptedMeansMember'
    BY <2>1, <2>2, <2>4, <2>5
    DEF WrittenByAdmin, AcceptedMeansMember, Accepting, MembershipsOf
  <2> QED
    BY <2>6, <2>7, <2>8, <2>9, <2>10, <2>11, <2>12
<1> QED
  BY <1>1, <1>2

LEMMA IInvInsertInvitation ==
    ASSUME IInv, NEW r \in Request, InsertInvitation(r)
    PROVE  IInv'
<1> USE DEF IInv
<1> DEFINE i == [org |-> call[r].org, to |-> call[r].to, role |-> call[r].role,
                 accepted |-> FALSE, expired |-> FALSE]
<1>1. /\ invitations' = [invitations EXCEPT ![r] = i]
      /\ pc' = [pc EXCEPT ![r] = "ok"]
      /\ UNCHANGED <<orgs, memberships, call, joining>>
      /\ pc[r] = "insertInvitation"
  BY DEF InsertInvitation, Goto
<1>2. /\ call[r] \in Body /\ call[r].op = "invite" /\ joining[r] = None
      /\ MayInvite(call[r].user, call[r].org) /\ call[r].org \in Orgs
      /\ r \notin Orgs /\ r \notin Invitations /\ pc[call[r].org] = "ok"
  BY <1>1 DEF TypeOK, PlaceOK, RowsOK, BodyOK, Orgs, Invitations
<1>3. i \in Invitation /\ i # None
  <2>1. call[r].org \in Request /\ call[r].to \in User /\ call[r].role \in Role
    BY <1>2, BodyFields
  <2>2. i \in Invitation
    BY <2>1 DEF Invitation
  <2> QED
    BY <2>2, NoneAssumption
<1>4. Orgs' = Orgs /\ Invitations' = Invitations \cup {r}
  BY <1>1, <1>3 DEF Orgs, Invitations, TypeOK
<1>5. \A q \in Request :
        /\ pc'[q] = IF q = r THEN "ok" ELSE pc[q]
        /\ invitations'[q] = IF q = r THEN i ELSE invitations[q]
  BY <1>1 DEF TypeOK
<1>6. i.org = call[r].org /\ ~i.accepted
  OBVIOUS
<1> HIDE DEF i
<1>7. TypeOK'
  BY <1>1, <1>2, <1>3, <1>4, <1>5, <1>6 DEF TypeOK
<1>8. \A q \in Request : call[q] # None /\ call[q].op = "accept" =>
        /\ call[q].invitation \in Request
        /\ invitations'[call[q].invitation] = invitations[call[q].invitation]
  BY <1>2, <1>5 DEF BodyOK, Invitations
<1>9. PlaceOK'
  BY <1>1, <1>2, <1>5, <1>8 DEF PlaceOK, MayInvite, MembershipsOf
<1>10. BodyOK' /\ RowsOK'
  BY <1>1, <1>2, <1>4, <1>5, <1>6, BodyFields DEF BodyOK, RowsOK, TypeOK
<1>11. JoiningOK'
  <2>1. \A q \in Request : joining[q] # None => call[q] # None
    BY DEF PlaceOK
  <2> SUFFICES ASSUME NEW q \in Request, joining'[q] # None
               PROVE  JoiningOK!(q)!2'
    BY DEF JoiningOK
  <2>2. CASE call[q].op = "accept"
    <3> DEFINE v == call[q].invitation
    <3>1. joining[q] = [org |-> invitations[v].org, user |-> invitations[v].to,
                        role |-> invitations[v].role]
      BY <1>1, <2>2 DEF JoiningOK
    <3>2. invitations'[v] = invitations[v]
      BY <1>1, <1>8, <2>1, <2>2
    <3> QED
      BY <1>1, <2>2, <3>1, <3>2
  <2>3. CASE call[q].op # "accept"
    BY <1>1, <1>4, <2>3 DEF JoiningOK
  <2> QED
    BY <2>2, <2>3
<1>12. MembersOK' /\ KeysAreUnique'
  BY <1>1, <1>2, <1>4, <1>5 DEF MembersOK, KeysAreUnique, Joined
<1>13. AcceptedMeansMember'
  BY <1>1, <1>2, <1>4, <1>5, <1>6
  DEF AcceptedMeansMember, Accepting, MembershipsOf, Invitations
<1>14. WrittenByAdmin'
  <2>1. \A m \in memberships : HasMinimumRole(m.role, "admin") =>
            m.role \in {"owner", "admin"}
    BY DEF TypeOK, Membership, Role, HasMinimumRole, ROLE_WEIGHT
  <2> QED
    BY <1>1, <1>2, <1>4, <1>5, <1>6, <2>1
    DEF WrittenByAdmin, MayInvite, MembershipsOf, Invitations
<1> QED
  BY <1>7, <1>9, <1>10, <1>11, <1>12, <1>13, <1>14

(* An invitation's organization, addressee and role never change.           *)
Kept == \A q \in Invitations :
            /\ invitations'[q].org = invitations[q].org
            /\ invitations'[q].to = invitations[q].to
            /\ invitations'[q].role = invitations[q].role

LEMMA IInvSaveAccepted ==
    ASSUME IInv, NEW r \in Request, SaveAccepted(r)
    PROVE  IInv'
<1> USE DEF IInv
<1> DEFINE v == call[r].invitation
           j == [org |-> invitations[v].org, user |-> call[r].user,
                 role |-> invitations[v].role]
<1>1. /\ invitations' = [invitations EXCEPT ![v].accepted = TRUE]
      /\ joining' = [joining EXCEPT ![r] = j]
      /\ pc' = [pc EXCEPT ![r] = "checkMember"]
      /\ UNCHANGED <<orgs, memberships, call>>
      /\ pc[r] = "saveAccepted"
  BY DEF SaveAccepted, Goto
<1>2. /\ call[r] \in Body /\ call[r] # None /\ call[r].op = "accept"
      /\ joining[r] = None /\ v \in Invitations /\ r \notin Orgs /\ r \notin Invitations
      /\ invitations[v].to = call[r].user
  BY <1>1 DEF TypeOK, PlaceOK, RowsOK, BodyOK, Orgs, Invitations
<1>3. v \in Request /\ invitations[v] \in Invitation
  BY <1>2 DEF TypeOK, Invitations
<1> DEFINE w == [invitations[v] EXCEPT !.accepted = TRUE]
<1>4. /\ w \in Invitation
      /\ w.org = invitations[v].org /\ w.to = invitations[v].to
      /\ w.role = invitations[v].role
  BY <1>3 DEF Invitation
<1>5. \A q \in Request :
        /\ pc'[q] = IF q = r THEN "checkMember" ELSE pc[q]
        /\ joining'[q] = IF q = r THEN j ELSE joining[q]
        /\ invitations'[q] = IF q = v THEN w ELSE invitations[q]
  BY <1>1 DEF TypeOK
<1>6. j \in Joining /\ j # None
  <2>1. call[r].user \in User
    BY <1>2, BodyFields
  <2>2. j \in Joining
    BY <1>3, <2>1 DEF Invitation, Joining
  <2> QED
    BY <2>2, NoneAssumption
<1>7. j = [org |-> invitations[v].org, user |-> invitations[v].to,
           role |-> invitations[v].role]
  BY <1>2
<1>8. invitations' \in [Request -> Invitation \cup {None}]
  BY <1>1, <1>3, <1>4 DEF TypeOK
<1> HIDE DEF j, w
<1>9. w # None
  BY <1>4, NoneAssumption
<1>10. Orgs' = Orgs /\ Invitations' = Invitations
  <2>1. \A q \in Request : invitations'[q] # None <=> invitations[q] # None
    BY <1>2, <1>5, <1>9 DEF Invitations
  <2> QED
    BY <1>1, <2>1 DEF Orgs, Invitations
<1>11. Kept
  BY <1>4, <1>5 DEF Kept, Invitations
<1>12. TypeOK'
  <2>1. joining' \in [Request -> Joining \cup {None}]
    BY <1>1, <1>6 DEF TypeOK
  <2>2. \A q \in Invitations' : invitations'[q].org \in Orgs'
    BY <1>10, <1>11 DEF TypeOK, Kept
  <2> QED
    BY <1>1, <1>8, <1>10, <2>1, <2>2 DEF TypeOK
<1> HIDE DEF v
<1>13. PlaceOK'
  <2> SUFFICES ASSUME NEW q \in Request PROVE PlaceOK!(q)'
    BY DEF PlaceOK
  <2>1. CASE q = r
    BY <1>1, <1>2, <1>5, <1>6, <2>1 DEF PlaceOK
  <2>2. CASE q # r
    <3>1. pc[q] = "saveAccepted" => call[q].invitation \in Invitations
      BY DEF PlaceOK, BodyOK
    <3> QED
      BY <1>1, <1>5, <1>11, <2>2, <3>1 DEF PlaceOK, Kept, MayInvite, MembershipsOf
  <2> QED
    BY <2>1, <2>2
<1>14. BodyOK' /\ RowsOK'
  <2>1. Orgs \subseteq Request /\ Invitations \subseteq Request
    BY DEF Orgs, Invitations
  <2>2. BodyOK'
    BY <1>1, <1>2, <1>5, <1>10, <2>1 DEF BodyOK, PlaceOK, TypeOK
  <2>3. RowsOK'
    BY <1>1, <1>2, <1>5, <1>6, <1>10, <1>11, <2>1 DEF RowsOK, Kept
  <2> QED
    BY <2>2, <2>3
<1>15. JoiningOK'
  <2> SUFFICES ASSUME NEW q \in Request, joining'[q] # None
               PROVE  JoiningOK!(q)!2'
    BY DEF JoiningOK
  <2>1. CASE q = r
    BY <1>1, <1>2, <1>4, <1>5, <1>7, <2>1 DEF v
  <2>2. CASE q # r /\ call[q].op = "accept"
    <3> DEFINE x == call[q].invitation
    <3>1. joining[q] = [org |-> invitations[x].org, user |-> invitations[x].to,
                        role |-> invitations[x].role]
      BY <1>5, <2>2 DEF JoiningOK
    <3>2. x \in Invitations
      BY <1>5, <2>2 DEF BodyOK, PlaceOK
    <3> QED
      BY <1>1, <1>5, <1>11, <2>2, <3>1, <3>2 DEF Kept
  <2>3. CASE q # r /\ call[q].op # "accept"
    BY <1>1, <1>5, <1>10, <2>3 DEF JoiningOK
  <2> QED
    BY <2>1, <2>2, <2>3
<1>16. MembersOK' /\ KeysAreUnique'
  BY <1>1, <1>2, <1>5, <1>10 DEF MembersOK, KeysAreUnique, Joined
<1>17. AcceptedMeansMember'
  <2> SUFFICES ASSUME NEW i \in Invitations
               PROVE  AcceptedMeansMember!(i)'
    BY <1>10 DEF AcceptedMeansMember
  <2>1. CASE i = v
    <3>1. r \in Accepting(i)'
      BY <1>1, <1>2, <1>5, <1>6, <2>1 DEF Accepting, v
    <3> QED
      BY <1>5, <3>1
  <2>2. CASE i # v
    <3>1. Accepting(i) \subseteq Accepting(i)' /\ r \notin Accepting(i)
      BY <1>1, <1>2, <1>5 DEF Accepting
    <3>2. \A q \in Accepting(i) : pc'[q] = pc[q]
      BY <1>5, <3>1 DEF Accepting
    <3>3. invitations'[i] = invitations[i] /\ memberships' = memberships
      BY <1>1, <1>5, <2>2 DEF Invitations
    <3> QED
      BY <3>1, <3>2, <3>3 DEF AcceptedMeansMember, MembershipsOf
  <2> QED
    BY <2>1, <2>2
<1>18. WrittenByAdmin'
  BY <1>1, <1>10, <1>11 DEF WrittenByAdmin, MembershipsOf, Kept
<1> QED
  BY <1>12, <1>13, <1>14, <1>15, <1>16, <1>17, <1>18

LEMMA IInvInsertMember ==
    ASSUME IInv, NEW r \in Request, InsertMember(r)
    PROVE  IInv'
<1> USE DEF IInv
<1>1. CASE IsMember(r)
  <2>1. pc'[r] = "failed" /\ pc[r] = "insertMember" /\ Goto(r, pc'[r])
    BY <1>1 DEF InsertMember, Goto, TypeOK
  <2>2. UNCHANGED <<Rows, call, joining>>
    BY <1>1 DEF InsertMember, Rows
  <2> QED
    BY <1>1, <2>1, <2>2, IInvMove
<1>2. CASE ~IsMember(r)
  <2> DEFINE m == Joined(r)
  <2>1. /\ memberships' = memberships \cup {m}
        /\ pc' = [pc EXCEPT ![r] = "ok"]
        /\ UNCHANGED <<orgs, invitations, call, joining>>
        /\ pc[r] = "insertMember"
    BY <1>2 DEF InsertMember, Goto
  <2>2. joining[r] # None /\ joining[r] \in Joining /\ r \notin Invitations
    BY <2>1 DEF TypeOK, PlaceOK, RowsOK
  <2>3. /\ m \in Membership /\ m.by = r
        /\ m.org = joining[r].org /\ m.user = joining[r].user
    BY <2>2 DEF Joining, Membership, Joined
  <2>4. joining[r].org \in Orgs
    BY <2>2 DEF JoiningOK, BodyOK, TypeOK, PlaceOK
  <2>5. \A q \in Request : pc'[q] = IF q = r THEN "ok" ELSE pc[q]
    BY <2>1 DEF TypeOK
  <2>6. Orgs' = Orgs /\ Invitations' = Invitations
    BY <2>1 DEF Orgs, Invitations
  <2>7. \A n \in memberships : n.by # r /\ (n.org # m.org \/ n.user # m.user)
    BY <1>2, <2>1, <2>3 DEF MembersOK, IsMember, MembershipsOf
  <2> HIDE DEF m
  <2>8. TypeOK'
    BY <2>1, <2>3, <2>4, <2>6 DEF TypeOK
  <2>9. PlaceOK'
    <3> SUFFICES ASSUME NEW q \in Request PROVE PlaceOK!(q)'
      BY DEF PlaceOK
    <3>1. MayInvite(call[q].user, call[q].org) => MayInvite(call[q].user, call[q].org)'
      BY <2>1 DEF MayInvite, MembershipsOf
    <3> QED
      BY <2>1, <2>5, <3>1 DEF PlaceOK
  <2>10. BodyOK' /\ RowsOK' /\ JoiningOK'
    BY <2>1, <2>5, <2>6 DEF BodyOK, RowsOK, JoiningOK, PlaceOK
  <2>11. MembersOK'
    BY <2>1, <2>2, <2>3, <2>5, <2>7 DEF MembersOK, Joined, m
  <2>12. KeysAreUnique'
    BY <2>1, <2>6, <2>7 DEF KeysAreUnique
  <2>13. WrittenByAdmin'
    BY <2>1, <2>6 DEF WrittenByAdmin, MembershipsOf
  <2>14. AcceptedMeansMember'
    <3> SUFFICES ASSUME NEW i \in Invitations, invitations[i].accepted,
                        MembershipsOf(invitations[i].org, invitations[i].to)' = {}
                 PROVE  \E q \in Accepting(i) :
                            pc'[q] \in {"checkMember", "insertMember", "crashed"}
      BY <2>1, <2>6 DEF AcceptedMeansMember, Accepting
    <3>1. MembershipsOf(invitations[i].org, invitations[i].to) = {}
      BY <2>1 DEF MembershipsOf
    <3>2. PICK q \in Accepting(i) : pc[q] \in {"checkMember", "insertMember", "crashed"}
      BY <3>1 DEF AcceptedMeansMember
    <3>3. q # r
      <4> SUFFICES ASSUME q = r PROVE FALSE
        OBVIOUS
      <4>1. call[r].op = "accept" /\ call[r].invitation = i
        BY DEF Accepting
      <4>2. joining[r] = [org |-> invitations[i].org, user |-> invitations[i].to,
                          role |-> invitations[i].role]
        BY <2>2, <4>1 DEF JoiningOK
      <4> QED
        BY <2>1, <2>3, <4>2 DEF MembershipsOf
    <3> QED
      BY <2>5, <3>2, <3>3 DEF Accepting
  <2> QED
    BY <2>8, <2>9, <2>10, <2>11, <2>12, <2>13, <2>14
<1> QED
  BY <1>1, <1>2

LEMMA IInvExpire ==
    ASSUME IInv, NEW v \in Request, ExpireInvitation(v)
    PROVE  IInv'
<1> USE DEF IInv
<1> DEFINE w == [invitations[v] EXCEPT !.expired = TRUE]
<1>1. /\ invitations' = [invitations EXCEPT ![v] = w]
      /\ UNCHANGED <<orgs, memberships, pc, call, joining>>
      /\ v \in Invitations /\ invitations[v] \in Invitation
  BY DEF ExpireInvitation, TypeOK, Invitations
<1>2. /\ w \in Invitation
      /\ w.org = invitations[v].org /\ w.to = invitations[v].to
      /\ w.role = invitations[v].role /\ w.accepted = invitations[v].accepted
  BY <1>1 DEF Invitation
<1> HIDE DEF w
<1>3. w # None
  BY <1>2, NoneAssumption
<1>4. \A q \in Request : invitations'[q] = IF q = v THEN w ELSE invitations[q]
  BY <1>1 DEF TypeOK
<1>5. Orgs' = Orgs /\ Invitations' = Invitations
  BY <1>1, <1>3, <1>4 DEF Orgs, Invitations
<1>6. /\ Kept
      /\ \A q \in Invitations : invitations'[q].accepted = invitations[q].accepted
  BY <1>2, <1>4 DEF Kept, Invitations
<1>7. TypeOK'
  BY <1>1, <1>2, <1>5, <1>6 DEF TypeOK, Kept
<1>8. PlaceOK'
  <2> SUFFICES ASSUME NEW q \in Request PROVE PlaceOK!(q)'
    BY DEF PlaceOK
  <2>1. pc[q] = "saveAccepted" => call[q].invitation \in Invitations
    BY DEF PlaceOK, BodyOK
  <2> QED
    BY <1>1, <1>6, <2>1 DEF PlaceOK, Kept, MayInvite, MembershipsOf
<1>9. BodyOK' /\ RowsOK'
  BY <1>1, <1>5, <1>6 DEF BodyOK, RowsOK, Kept
<1>10. JoiningOK'
  <2> SUFFICES ASSUME NEW q \in Request, joining[q] # None
               PROVE  JoiningOK!(q)!2'
    BY <1>1 DEF JoiningOK
  <2>1. CASE call[q].op = "accept"
    <3> DEFINE x == call[q].invitation
    <3>1. joining[q] = [org |-> invitations[x].org, user |-> invitations[x].to,
                        role |-> invitations[x].role]
      BY <2>1 DEF JoiningOK
    <3>2. x \in Invitations
      BY <2>1 DEF BodyOK, PlaceOK
    <3> QED
      BY <1>1, <1>6, <2>1, <3>1, <3>2 DEF Kept
  <2>2. CASE call[q].op # "accept"
    BY <1>1, <1>5, <2>2 DEF JoiningOK
  <2> QED
    BY <2>1, <2>2
<1>11. MembersOK' /\ KeysAreUnique' /\ WrittenByAdmin'
  BY <1>1, <1>5, <1>6
  DEF MembersOK, KeysAreUnique, WrittenByAdmin, MembershipsOf, Joined, Kept
<1>12. AcceptedMeansMember'
  BY <1>1, <1>5, <1>6 DEF AcceptedMeansMember, Accepting, MembershipsOf, Kept
<1> QED
  BY <1>7, <1>8, <1>9, <1>10, <1>11, <1>12

-----------------------------------------------------------------------------
(* The bodies that arrive are bodies, and every step is one of the lemmas.  *)
LEMMA IInvArrivals ==
    ASSUME IInv, NEW r \in Request, ArriveCreate(r) \/ ArriveInvite(r) \/ ArriveAccept(r)
    PROVE  IInv'
<1>1. CASE ArriveCreate(r)
  <2>1. PICK u \in User, s \in Slug :
          Call(r, [op |-> "createOrg", user |-> u, slug |-> s], "checkSlug")
    BY <1>1 DEF ArriveCreate
  <2> DEFINE c == [op |-> "createOrg", user |-> u, slug |-> s]
  <2>2. c \in Body /\ c.op = "createOrg"
    BY DEF Body
  <2>3. pc[r] = "idle" /\ call' = [call EXCEPT ![r] = c] /\ UNCHANGED <<Rows, joining>>
    BY <2>1 DEF Call, Rows
  <2>4. pc'[r] = "checkSlug" /\ Goto(r, pc'[r])
    BY <2>1 DEF Call, Goto, IInv, TypeOK
  <2> HIDE DEF c
  <2> QED
    BY <2>2, <2>3, <2>4, IInvArrive
<1>2. CASE ArriveInvite(r)
  <2>1. PICK u, to \in User, role \in InviteRole, o \in Known(Orgs) :
          Call(r, [op |-> "invite", user |-> u, org |-> o, to |-> to, role |-> role],
               "guards")
    BY <1>2 DEF ArriveInvite
  <2> DEFINE c == [op |-> "invite", user |-> u, org |-> o, to |-> to, role |-> role]
  <2>2. c \in Body /\ c.op = "invite" /\ c.org \in Known(Orgs)
    BY DEF Body, Known, Orgs
  <2>3. pc[r] = "idle" /\ call' = [call EXCEPT ![r] = c] /\ UNCHANGED <<Rows, joining>>
    BY <2>1 DEF Call, Rows
  <2>4. pc'[r] = "guards" /\ Goto(r, pc'[r])
    BY <2>1 DEF Call, Goto, IInv, TypeOK
  <2> HIDE DEF c
  <2> QED
    BY <2>2, <2>3, <2>4, IInvArrive
<1>3. CASE ArriveAccept(r)
  <2>1. PICK u \in User, i \in Known(Invitations) :
          Call(r, [op |-> "accept", user |-> u, invitation |-> i], "findInvitation")
    BY <1>3 DEF ArriveAccept
  <2> DEFINE c == [op |-> "accept", user |-> u, invitation |-> i]
  <2>2. c \in Body /\ c.op = "accept" /\ c.invitation \in Known(Invitations)
    BY DEF Body, Known, Invitations
  <2>3. pc[r] = "idle" /\ call' = [call EXCEPT ![r] = c] /\ UNCHANGED <<Rows, joining>>
    BY <2>1 DEF Call, Rows
  <2>4. pc'[r] = "findInvitation" /\ Goto(r, pc'[r])
    BY <2>1 DEF Call, Goto, IInv, TypeOK
  <2> HIDE DEF c
  <2> QED
    BY <2>2, <2>3, <2>4, IInvArrive
<1> QED
  BY <1>1, <1>2, <1>3

LEMMA IInvMoves ==
    ASSUME IInv, NEW r \in Request,
           CheckSlug(r) \/ Guards(r) \/ FindInvitation(r) \/ CheckMember(r) \/ Crash(r)
    PROVE  IInv'
<1>1. /\ UNCHANGED <<Rows, call, joining>> /\ pc[r] \in Running
      /\ Goto(r, pc'[r]) /\ pc'[r] \in Running \cup (Ended \ {"ok"})
  BY DEF Rows, CheckSlug, Guards, FindInvitation, CheckMember, Crash, Goto, IInv, TypeOK
<1>2. CASE CheckSlug(r)
  <2>1. pc[r] = "checkSlug" /\ pc'[r] \in {"rejected", "insertOrg"}
    BY <1>2 DEF CheckSlug, Goto, IInv, TypeOK
  <2> QED
    BY <1>1, <2>1, IInvMove
<1>3. CASE Guards(r)
  <2>1. /\ pc[r] = "guards" /\ pc'[r] \in {"rejected", "insertInvitation"}
        /\ pc'[r] = "insertInvitation" => MayInvite(call[r].user, call[r].org)
    BY <1>3 DEF Guards, Goto, IInv, TypeOK
  <2> QED
    BY <1>1, <2>1, IInvMove
<1>4. CASE FindInvitation(r)
  <2>1. /\ pc[r] = "findInvitation" /\ pc'[r] \in {"rejected", "saveAccepted"}
        /\ pc'[r] = "saveAccepted" =>
               invitations[call[r].invitation].to = call[r].user
    BY <1>4 DEF FindInvitation, Acceptable, Goto, IInv, TypeOK
  <2> QED
    BY <1>1, <2>1, IInvMove
<1>5. CASE CheckMember(r)
  <2>1. /\ pc[r] = "checkMember" /\ pc'[r] \in {"rejected", "insertMember"}
        /\ pc'[r] = "rejected" => IsMember(r)
    BY <1>5 DEF CheckMember, Goto, IInv, TypeOK
  <2> QED
    BY <1>1, <2>1, IInvMove
<1>6. CASE Crash(r)
  <2>1. pc'[r] = "crashed"
    BY <1>6 DEF Crash, Goto, IInv, TypeOK
  <2> QED
    BY <1>1, <2>1, IInvMove
<1> QED
  BY <1>2, <1>3, <1>4, <1>5, <1>6

LEMMA IInvNext == IInv /\ [Next]_vars => IInv'
<1> SUFFICES ASSUME IInv, [Next]_vars PROVE IInv'
  OBVIOUS
<1>1. CASE UNCHANGED vars
  BY <1>1
  DEF vars, IInv, TypeOK, PlaceOK, BodyOK, RowsOK, JoiningOK, MembersOK, KeysAreUnique,
      AcceptedMeansMember, WrittenByAdmin, Orgs, Invitations, MembershipsOf, Accepting,
      Joined, MayInvite
<1>2. ASSUME NEW r \in Request, Step(r) PROVE IInv'
  BY <1>2, IInvArrivals, IInvMoves, IInvInsertOrg, IInvInsertInvitation,
     IInvSaveAccepted, IInvInsertMember, IInvExpire DEF Step
<1> QED
  BY <1>1, <1>2 DEF Next

LEMMA IInvHolds == Spec => []IInv
BY IInvInit, IInvNext, PTL DEF Spec

-----------------------------------------------------------------------------
(* Where a membership comes from.                                           *)
LEMMA Origin ==
    ASSUME IInv, NEW m \in memberships
    PROVE  /\ m.by \in Request /\ pc[m.by] = "ok"
           /\ \/ /\ call[m.by].op = "createOrg" /\ m.org = m.by /\ m.role = "owner"
                 /\ m.user = call[m.by].user
              \/ /\ call[m.by].op = "accept"
                 /\ call[m.by].invitation \in Invitations
                 /\ m.org = invitations[call[m.by].invitation].org
                 /\ m.user = invitations[call[m.by].invitation].to
                 /\ m.role = invitations[call[m.by].invitation].role
<1> DEFINE r == m.by
           v == call[r].invitation
<1>1. r \in Request /\ pc[r] = "ok" /\ joining[r] # None /\ m = Joined(r)
  BY DEF IInv, MembersOK
<1>2. m.org = joining[r].org /\ m.user = joining[r].user /\ m.role = joining[r].role
  <2> DEFINE n == Joined(r)
  <2>1. n.org = joining[r].org /\ n.user = joining[r].user /\ n.role = joining[r].role
    BY DEF Joined
  <2>2. m = n
    BY <1>1
  <2> HIDE DEF n
  <2> QED
    BY <2>1, <2>2
<1> HIDE DEF r
<1>3. CASE /\ call[r].op = "createOrg"
           /\ joining[r] = [org |-> r, user |-> call[r].user, role |-> "owner"]
  BY <1>1, <1>2, <1>3 DEF r
<1>4. CASE /\ call[r].op = "accept"
           /\ joining[r] = [org |-> invitations[v].org, user |-> invitations[v].to,
                            role |-> invitations[v].role]
  <2>1. v \in Invitations
    BY <1>1, <1>4 DEF IInv, BodyOK, PlaceOK
  <2> QED
    BY <1>1, <1>2, <1>4, <2>1 DEF r
<1> QED
  BY <1>1, <1>3, <1>4 DEF IInv, JoiningOK

(* The rows, the requests and what they carry are of their types.           *)
THEOREM TypeCorrect == Spec => []TypeOK
<1>1. IInv => TypeOK
  BY DEF IInv
<1> QED
  BY <1>1, IInvHolds, PTL

(* One organization per slug, one membership per user and organization:     *)
(* create (organizations.service.ts:19) and createMembership                *)
(* (memberships.service.ts:40) look before they insert, and the unique      *)
(* constraints decide between two requests past that look.                  *)
THEOREM UniqueKeys == Spec => []KeysAreUnique
<1>1. IInv => KeysAreUnique
  BY DEF IInv
<1> QED
  BY <1>1, IInvHolds, PTL

(* The addressee of a consumed invitation is a member, or a request is      *)
(* between the two saves of acceptInvitation, which saves the invitation    *)
(* before the membership, or died there.                                    *)
THEOREM AcceptedIsMember == Spec => []AcceptedMeansMember
<1>1. IInv => AcceptedMeansMember
  BY DEF IInv
<1> QED
  BY <1>1, IInvHolds, PTL

(* Two memberships one invitation made would be of one user and one         *)
(* organization, whatever the order of the two requests.                    *)
THEOREM SingleUse == Spec => []InvitationIsSingleUse
<1>1. IInv => InvitationIsSingleUse
  <2> SUFFICES ASSUME IInv, NEW m \in memberships, NEW n \in memberships,
                      call[m.by].op = "accept", call[n.by].op = "accept",
                      call[m.by].invitation = call[n.by].invitation
               PROVE  m = n
    BY DEF InvitationIsSingleUse
  <2>1. m.org = n.org /\ m.user = n.user
    BY Origin
  <2> QED
    BY <2>1 DEF IInv, KeysAreUnique
<1> QED
  BY <1>1, IInvHolds, PTL

(* Membership comes from founding the organization or from an invitation    *)
(* addressed to the member, with the role it names; and the invitation from *)
(* somebody RolesGuard let through.                                         *)
THEOREM Earned == Spec => []MembershipIsEarned
<1>1. IInv => MembershipIsEarned
  <2> SUFFICES ASSUME IInv, NEW m \in memberships
               PROVE  LET c == call[m.by]
                          i == invitations[c.invitation]
                      IN \/ c.op = "createOrg" /\ m.by = m.org /\ m.role = "owner"
                         \/ c.op = "accept" /\ i.org = m.org /\ i.to = m.user
                                            /\ i.role = m.role
    BY DEF MembershipIsEarned, IInv, WrittenByAdmin
  <2> QED
    BY Origin
<1> QED
  BY <1>1, IInvHolds, PTL

(* Nobody but the founder can be the first member of an organization: its   *)
(* id leaves the server when the founder's membership is in.                *)
THEOREM OrgHasOwner == Spec => []SettledOrgHasOwner
<1>1. IInv => SettledOrgHasOwner
  <2> SUFFICES ASSUME IInv, NEW o \in Orgs,
                      \/ \E m \in memberships : m.org = o
                      \/ \E i \in Invitations : invitations[i].org = o
               PROVE  \E m \in MembershipsOf(o, call[o].user) : m.role = "owner"
    BY DEF SettledOrgHasOwner
  <2>1. /\ o \in Request /\ joining[o] # None
        /\ joining[o] = [org |-> o, user |-> call[o].user, role |-> "owner"]
    BY DEF IInv, RowsOK, JoiningOK, Orgs
  <2>2. \A i \in Invitations : invitations[i].org = o => pc[o] = "ok"
    BY DEF IInv, RowsOK, BodyOK, Invitations
  <2>3. pc[o] = "ok"
    <3>1. ASSUME NEW m \in memberships, m.org = o PROVE pc[o] = "ok"
      BY <2>2, <3>1, Origin
    <3> QED
      BY <2>2, <3>1
  <2>4. PICK m \in memberships : m.by = o
    BY <2>1, <2>3 DEF IInv, MembersOK
  <2>5. m.org = o /\ m.user = call[o].user /\ m.role = "owner"
    BY <2>4, Origin DEF IInv, RowsOK
  <2> QED
    BY <2>5 DEF MembershipsOf
<1> QED
  BY <1>1, IInvHolds, PTL
=============================================================================
