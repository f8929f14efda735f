---------------------------- MODULE Sessions_proofs ----------------------------
(* Invariants of the sign-in sessions, for every number of requests.        *)
EXTENDS Sessions, FiniteSetTheorems, TLAPS

-----------------------------------------------------------------------------
(* What strengthens the type invariant and SessionSurvives to an inductive  *)
(* invariant.  A presented token comes from an answered request, so the     *)
(* successor a rotation has just inserted is not presented by anybody yet:  *)
(* only an end of the whole session can have revoked it.                    *)
PresentedOK ==
    \A r \in Request : op[r] # "login" =>
        /\ presented[r] \in Exists
        /\ pc[presented[r]] = "ok"
        /\ pc[r] \notin {"idle", "login"}

PlaceOK ==
    \A r \in Request :
      /\ pc[r] \in Rotating => op[r] = "refresh"
      /\ pc[r] = "logoutSave" => op[r] = "logout"
      /\ pc[r] \in {"idle", "login", "find", "insert"} => tokens[r] = None

SuccessorOK ==
    \A r \in Request : pc[r] = "save" =>
        /\ tokens[r] # None
        /\ tokens[r].family = FamilyOf(r)
        /\ tokens[r].revoked => FamilyOf(r) \in revokedBy

(* A family is named after the token of the login that opened it.           *)
FamilyOK ==
    \A t \in Exists :
        /\ tokens[t].family \in Exists
        /\ tokens[tokens[t].family].family = tokens[t].family

Control == PresentedOK /\ PlaceOK /\ SuccessorOK /\ FamilyOK
SessionInv == TypeOK /\ Control /\ SessionSurvives

(* Each link is the work of one finished rotation; in a family that has not *)
(* forked, one rotation is under way at most, its token has no link, and no *)
(* other token of the family is live.                                       *)
LinkOK ==
    \A t \in Exists : tokens[t].replacedBy # None =>
        LET r == tokens[t].replacedBy
        IN /\ tokens[t].revoked
           /\ op[r] = "refresh" /\ presented[r] = t
           /\ pc[r] \in {"answer", "ok", "failed"}

AloneOK ==
    \A r \in Request : pc[r] \in Rotating /\ FamilyOf(r) \notin forked =>
        /\ tokens[presented[r]].replacedBy = None
        /\ Live(FamilyOf(r)) \subseteq {presented[r], r}
        /\ \A q \in Request :
             pc[q] \in Rotating /\ FamilyOf(q) = FamilyOf(r) => q = r

(* The tokens that may be live in a family that has not forked.             *)
LiveOK ==
    \A x, y \in Exists :
        LET f == tokens[x].family
        IN /\ x # y /\ tokens[y].family = f /\ f \notin forked
           /\ ~tokens[x].revoked /\ ~tokens[y].revoked
           => \E r \in Request : pc[r] = "save" /\ {x, y} = {r, presented[r]}

ChainInv == LinkOK /\ AloneOK /\ LiveOK /\ ChainUnlessForked
IInv == SessionInv /\ ChainInv

-----------------------------------------------------------------------------
(* SessionInv is inductive: first the steps that leave the tokens alone.    *)

USE DEF Rotating, Running, Ended, Op, Token

LEMMA SessionInvInit == Init => SessionInv
BY NoneAssumption
DEF Init, SessionInv, Control, TypeOK, PresentedOK, PlaceOK, SuccessorOK,
    FamilyOK, SessionSurvives, Exists

Keeping == UNCHANGED <<tokens, revokedBy>>

LEMMA SurvivesKept == ASSUME SessionSurvives, Keeping PROVE SessionSurvives'
BY DEF SessionSurvives, Keeping, Exists, Live, Family

LEMMA FamilyKept == ASSUME FamilyOK, Keeping PROVE FamilyOK'
BY DEF FamilyOK, Keeping, Exists

(* A step of r from one place to the next.                                  *)
LEMMA SessionInvMove ==
    ASSUME SessionInv, NEW r \in Request, pc[r] \in Running,
           Goto(r, pc'[r]), pc'[r] \in Running \cup Ended,
           UNCHANGED <<tokens, expired, op, presented, revokedBy>>,
           forked' \subseteq Request,
           \/ pc'[r] \in Ended
           \/ pc'[r] \in {"insert", "revokeFamily", "logoutSave"} /\ pc[r] = "find",
           pc'[r] = "insert" => op[r] = "refresh",
           pc'[r] = "logoutSave" => op[r] = "logout"
    PROVE  SessionInv'
<1>1. TypeOK'
  BY DEF SessionInv, TypeOK, Goto, Exists
<1>2. PresentedOK'
  BY DEF SessionInv, Control, PresentedOK, TypeOK, Goto, Exists
<1>3. PlaceOK' /\ SuccessorOK'
  BY DEF SessionInv, Control, PlaceOK, SuccessorOK, TypeOK, Goto, FamilyOf
<1> QED
  BY <1>1, <1>2, <1>3, SurvivesKept, FamilyKept
  DEF SessionInv, Control, Keeping

LEMMA SessionInvArrivals ==
    ASSUME SessionInv, NEW r \in Request,
           ArriveLogin(r) \/ Arrive(r) \/ Answer(r) \/ Expire(r)
    PROVE  SessionInv'
<1>0. Keeping
  BY DEF Keeping, ArriveLogin, Arrive, Answer, Expire
<1>1. SessionSurvives' /\ FamilyOK'
  BY <1>0, SurvivesKept, FamilyKept DEF SessionInv, Control
<1>2. CASE ArriveLogin(r)
  <2>1. op[r] = "login" /\ \A q \in Request : op[q] # "login" => presented[q] # r
    BY <1>2 DEF SessionInv, Control, PresentedOK, ArriveLogin, TypeOK
  <2>2. TypeOK' /\ PresentedOK'
    BY <1>2, <2>1 DEF SessionInv, Control, TypeOK, PresentedOK, ArriveLogin, Goto, Exists
  <2>3. PlaceOK' /\ SuccessorOK'
    BY <1>2 DEF SessionInv, Control, TypeOK, PlaceOK, SuccessorOK, ArriveLogin,
                Goto, FamilyOf
  <2> QED
    BY <1>1, <2>2, <2>3 DEF SessionInv, Control
<1>3. CASE Arrive(r)
  <2>1. PICK o \in {"refresh", "logout"}, t \in Known :
          /\ op' = [op EXCEPT ![r] = o]
          /\ presented' = [presented EXCEPT ![r] = t]
    BY <1>3 DEF Arrive
  <2>2. t \in Exists /\ pc[t] = "ok" /\ pc[r] = "idle" /\ t # r
    BY <1>3 DEF Known, Arrive
  <2>3. TypeOK'
    BY <1>3, <2>1, <2>2 DEF SessionInv, TypeOK, Arrive, Goto, Exists
  <2>4. PresentedOK'
    BY <1>3, <2>1, <2>2
    DEF SessionInv, Control, PresentedOK, TypeOK, Arrive, Goto, Exists
  <2>5. PlaceOK' /\ SuccessorOK'
    BY <1>3, <2>1
    DEF SessionInv, Control, TypeOK, PlaceOK, SuccessorOK, Arrive, Goto, FamilyOf
  <2> QED
    BY <1>1, <2>3, <2>4, <2>5 DEF SessionInv, Control
<1>4. CASE Answer(r)
  <2>1. pc[r] \in Running /\ forked' \subseteq Request
    BY <1>4 DEF Answer, SessionInv, TypeOK
  <2>2. Goto(r, pc'[r]) /\ pc'[r] = "ok"
    BY <1>4 DEF Answer, Goto, SessionInv, TypeOK
  <2> QED
    BY <1>4, <2>1, <2>2, SessionInvMove DEF Answer
<1>5. CASE Expire(r)
  BY <1>1, <1>5
  DEF SessionInv, Control, TypeOK, PresentedOK, PlaceOK, SuccessorOK, Expire,
      Exists, FamilyOf
<1> QED
  BY <1>2, <1>3, <1>4, <1>5

LEMMA SessionInvDecisions ==
    ASSUME SessionInv, NEW r \in Request,
           RefreshFind(r) \/ LogoutFind(r) \/ Crash(r)
    PROVE  SessionInv'
<1>1. CASE RefreshFind(r)
  <2>1. FamilyOf(r) \in Request
    BY <1>1 DEF SessionInv, TypeOK, RefreshFind, FamilyOf, Exists
  <2>2. forked' \subseteq Request
    BY <1>1, <2>1 DEF SessionInv, TypeOK, RefreshFind
  <2>3. /\ Goto(r, pc'[r])
        /\ pc'[r] \in {"revokeFamily", "rejected", "insert"}
    BY <1>1 DEF RefreshFind, Goto, SessionInv, TypeOK
  <2> QED
    BY <1>1, <2>2, <2>3, SessionInvMove DEF RefreshFind
<1>2. CASE LogoutFind(r)
  <2>1. Goto(r, pc'[r]) /\ pc'[r] \in {"ok", "logoutSave"}
    BY <1>2 DEF LogoutFind, Goto, SessionInv, TypeOK
  <2>2. forked' \subseteq Request
    BY <1>2 DEF LogoutFind, SessionInv, TypeOK
  <2> QED
    BY <1>2, <2>1, <2>2, SessionInvMove DEF LogoutFind
<1>3. CASE Crash(r)
  <2>1. forked' \subseteq Request
    BY <1>3 DEF Crash, SessionInv, TypeOK
  <2>2. Goto(r, pc'[r]) /\ pc'[r] = "failed"
    BY <1>3 DEF Crash, Goto, SessionInv, TypeOK
  <2> QED
    BY <1>3, <2>1, <2>2, SessionInvMove DEF Crash
<1> QED
  BY <1>1, <1>2, <1>3

-----------------------------------------------------------------------------
(* The steps that write tokens.                                             *)

LEMMA NewTokenTyped ==
    \A f \in Request : NewToken(f) \in Token /\ NewToken(f) # None
<1>1. ASSUME NEW f \in Request PROVE NewToken(f) \in Token
  BY DEF NewToken
<1> QED
  BY <1>1, NoneAssumption

(* Only a revocation and a rotation's two writes can end a session.  r's    *)
(* row is not in the table yet, and nobody has presented it.                *)
LEMMA SessionInvInserts ==
    ASSUME SessionInv, NEW r \in Request, Login(r) \/ RefreshInsert(r)
    PROVE  SessionInv'
<1> DEFINE Issues == /\ Login(r)
                     /\ Goto(r, "answer")
                     /\ tokens' = [tokens EXCEPT ![r] = NewToken(r)]
<1>1. CASE Login(r) /\ Goto(r, "rejected") /\ UNCHANGED tokens
  <2>1. pc[r] \in Running /\ forked' \subseteq Request
    BY <1>1 DEF Login, SessionInv, TypeOK
  <2>2. Goto(r, pc'[r]) /\ pc'[r] = "rejected"
    BY <1>1 DEF Login, Goto, SessionInv, TypeOK
  <2> QED
    BY <1>1, <2>1, <2>2, SessionInvMove DEF Login
<1>2. CASE RefreshInsert(r) \/ Issues
  <2> DEFINE f == IF pc[r] = "login" THEN r ELSE FamilyOf(r)
             label == IF pc[r] = "login" THEN "answer" ELSE "save"
  <2>1. /\ pc[r] \in {"login", "insert"} /\ tokens[r] = None
        /\ tokens' = [tokens EXCEPT ![r] = NewToken(f)]
        /\ Goto(r, label)
        /\ UNCHANGED <<expired, op, presented, revokedBy, forked>>
    BY <1>2 DEF Login, RefreshInsert, SessionInv, Control, PlaceOK
  <2>2. f \in Request /\ (pc[r] = "insert" => f \in Exists /\ tokens[f].family = f)
    BY <2>1 DEF SessionInv, TypeOK, Control, FamilyOK, PlaceOK, FamilyOf, Exists
  <2>3. NewToken(f) \in Token /\ NewToken(f) # None
    BY <2>2, NewTokenTyped
  <2>4. TypeOK'
    BY <2>1, <2>3 DEF SessionInv, TypeOK, Goto, Exists
  <2>5. PresentedOK'
    BY <2>1, <2>3 DEF SessionInv, Control, TypeOK, PresentedOK, Goto, Exists
  <2>6. PlaceOK'
    BY <2>1 DEF SessionInv, Control, TypeOK, PlaceOK, Goto
  <2>7. \A q \in Request : op[q] # "login" => FamilyOf(q)' = FamilyOf(q)
    BY <2>1 DEF SessionInv, Control, TypeOK, PresentedOK, FamilyOf, Exists
  <2>8. SuccessorOK'
    BY <2>1, <2>3, <2>7
    DEF SessionInv, Control, TypeOK, SuccessorOK, PlaceOK, Goto, NewToken
  <2>9. FamilyOK'
    BY <2>1, <2>2, <2>3
    DEF SessionInv, Control, TypeOK, FamilyOK, Exists, NewToken
  <2>10. SessionSurvives'
    BY <2>1, <2>3
    DEF SessionInv, TypeOK, SessionSurvives, Exists, Live, Family, NewToken
  <2> QED
    BY <2>4, <2>5, <2>6, <2>8, <2>9, <2>10 DEF SessionInv, Control
<1> QED
  BY <1>1, <1>2 DEF Login

(* The other writes revoke or link rows of the table; families stay.        *)
SameFamilies ==
    \A t \in Request : /\ (t \in Exists)' <=> t \in Exists
                       /\ t \in Exists => tokens'[t].family = tokens[t].family

LEMMA SessionInvWrite ==
    ASSUME SessionInv, NEW r \in Request,
           SameFamilies, tokens' \in [Request -> Token \cup {None}],
           pc[r] \in {"save", "revokeFamily", "logoutSave"},
           Goto(r, pc'[r]), pc'[r] \in {"answer", "rejected", "ok"},
           UNCHANGED <<expired, op, presented, forked>>,
           revokedBy' \in SUBSET Request, revokedBy \subseteq revokedBy',
           \A t \in Exists : tokens'[t].revoked =>
               \/ tokens[t].revoked
               \/ tokens[t].family \in revokedBy'
               \/ pc[t] # "save"
    PROVE  /\ TypeOK' /\ Control'
           /\ \A q \in Request : op[q] # "login" => FamilyOf(q)' = FamilyOf(q)
<1>1. TypeOK'
  BY DEF SessionInv, TypeOK, Goto, Exists, SameFamilies
<1>2. PresentedOK'
  BY DEF SessionInv, Control, PresentedOK, TypeOK, Goto, Exists, SameFamilies
<1>3. \A q \in Request : op[q] # "login" => FamilyOf(q)' = FamilyOf(q)
  BY DEF SessionInv, Control, TypeOK, PresentedOK, FamilyOf, SameFamilies, Exists
<1>4. PlaceOK'
  BY DEF SessionInv, Control, PlaceOK, TypeOK, Goto, Exists, SameFamilies
<1>5. SuccessorOK'
  BY <1>3 DEF SessionInv, Control, SuccessorOK, TypeOK, Goto, Exists, SameFamilies
<1>6. FamilyOK'
  BY DEF SessionInv, Control, FamilyOK, TypeOK, Exists, SameFamilies
<1> QED
  BY <1>1, <1>2, <1>3, <1>4, <1>5, <1>6 DEF Control

(* The token a rotation retires is not the successor it has just inserted.  *)
LEMMA RefreshSaveEffect ==
    ASSUME SessionInv, NEW r \in Request, RefreshSave(r)
    PROVE  LET t == presented[r]
           IN /\ pc[r] = "save" /\ t \in Exists /\ pc[t] = "ok" /\ t # r
              /\ r \in Exists /\ tokens[r].family = FamilyOf(r)
              /\ tokens[r].revoked => FamilyOf(r) \in revokedBy
              /\ tokens' \in [Request -> Token \cup {None}] /\ SameFamilies
              /\ \A x \in Exists : x # t => tokens'[x] = tokens[x]
              /\ tokens'[t].revoked /\ tokens'[t].replacedBy = r
              /\ Goto(r, pc'[r]) /\ pc'[r] = "answer"
              /\ UNCHANGED <<expired, op, presented, revokedBy, forked>>
<1> DEFINE t == presented[r]
<1>1. /\ pc[r] = "save" /\ t \in Exists /\ pc[t] = "ok" /\ t # r
      /\ r \in Exists /\ tokens[r].family = FamilyOf(r)
      /\ tokens[r].revoked => FamilyOf(r) \in revokedBy
  BY DEF RefreshSave, SessionInv, Control, TypeOK, PlaceOK, PresentedOK,
         SuccessorOK, Exists
<1>2. t \in Request /\ tokens[t] \in Token
  BY <1>1 DEF SessionInv, TypeOK, Exists
<1>3. Replaced(tokens[t], r) \in Token
  BY <1>2 DEF Replaced
<1>4. /\ tokens' = [tokens EXCEPT ![t] = Replaced(tokens[t], r)]
      /\ Goto(r, pc'[r]) /\ pc'[r] = "answer"
      /\ UNCHANGED <<expired, op, presented, revokedBy, forked>>
  BY DEF RefreshSave, Goto, SessionInv, TypeOK
<1>5. /\ Replaced(tokens[t], r).family = tokens[t].family
      /\ Replaced(tokens[t], r).revoked /\ Replaced(tokens[t], r).replacedBy = r
  BY <1>2 DEF Replaced
<1>6. SameFamilies
  BY <1>2, <1>3, <1>4, <1>5, NoneAssumption DEF SameFamilies, Exists, SessionInv, TypeOK
<1>7. /\ tokens' \in [Request -> Token \cup {None}]
      /\ \A x \in Exists : x # t => tokens'[x] = tokens[x]
      /\ tokens'[t].revoked /\ tokens'[t].replacedBy = r
  BY <1>2, <1>3, <1>4, <1>5 DEF SessionInv, TypeOK, Exists
<1> QED
  BY <1>1, <1>4, <1>6, <1>7

(* The successor keeps the session alive.                                   *)
LEMMA SessionInvRefreshSave ==
    ASSUME SessionInv, NEW r \in Request, RefreshSave(r)
    PROVE  SessionInv'
<1> DEFINE t == presented[r]
<1>1. /\ pc[r] = "save" /\ t \in Exists /\ pc[t] = "ok" /\ t # r
      /\ r \in Exists /\ tokens[r].family = FamilyOf(r)
      /\ tokens[r].revoked => FamilyOf(r) \in revokedBy
  BY RefreshSaveEffect
<1>4. /\ tokens' \in [Request -> Token \cup {None}]
      /\ Goto(r, pc'[r]) /\ pc'[r] = "answer"
      /\ UNCHANGED <<expired, op, presented, revokedBy, forked>>
  BY RefreshSaveEffect
<1>6. SameFamilies
  BY RefreshSaveEffect
<1>7. \A x \in Exists : x # t => tokens'[x] = tokens[x]
  BY RefreshSaveEffect
<1>8. TypeOK' /\ Control'
  <2>2. revokedBy' \in SUBSET Request /\ revokedBy \subseteq revokedBy'
    BY <1>4 DEF SessionInv, TypeOK
  <2>3. \A x \in Exists : tokens'[x].revoked => tokens[x].revoked \/ pc[x] # "save"
    BY <1>1, <1>7
  <2> QED
    BY <1>1, <1>4, <1>6, <2>2, <2>3, SessionInvWrite
<1>9. SessionSurvives'
  <2> SUFFICES ASSUME NEW f \in Exists, tokens[f].family = f, f \notin revokedBy
               PROVE  \E x \in Exists : tokens'[x].family = f /\ ~tokens'[x].revoked
    BY <1>4, <1>6 DEF SessionSurvives, Live, Family, SameFamilies, Exists
  <2>1. CASE FamilyOf(r) = f
    BY <2>1, <1>1, <1>7
  <2>2. CASE FamilyOf(r) # f
    <3>1. PICK x \in Exists : tokens[x].family = f /\ ~tokens[x].revoked
      BY DEF SessionInv, SessionSurvives, Live, Family
    <3> QED
      BY <2>2, <3>1, <1>7 DEF FamilyOf
  <2> QED
    BY <2>1, <2>2
<1> QED
  BY <1>8, <1>9 DEF SessionInv

(* A logout and the reaction to reuse revoke rows of one family.            *)
LEMMA RevocationEffect ==
    ASSUME SessionInv, NEW r \in Request, RevokeFamily(r) \/ LogoutSave(r)
    PROVE  /\ presented[r] \in Exists /\ FamilyOf(r) \in Request
           /\ pc[r] \in {"revokeFamily", "logoutSave"}
           /\ revokedBy' = revokedBy \cup {FamilyOf(r)}
           /\ Goto(r, pc'[r])
           /\ pc'[r] = "rejected" \/ (pc'[r] = "ok" /\ op[r] = "logout")
           /\ UNCHANGED <<expired, op, presented, forked>>
           /\ tokens' \in [Request -> Token \cup {None}] /\ SameFamilies
           /\ \A t \in Exists :
                /\ tokens'[t].replacedBy = tokens[t].replacedBy
                /\ tokens[t].revoked => tokens'[t].revoked
                /\ tokens[t].family # FamilyOf(r) => tokens'[t] = tokens[t]
                /\ tokens'[t].revoked =>
                     tokens[t].revoked \/ tokens[t].family \in revokedBy'
<1> DEFINE f == FamilyOf(r)
<1>1. /\ presented[r] \in Exists /\ f \in Request
      /\ pc[r] \in {"revokeFamily", "logoutSave"}
      /\ tokens[presented[r]].family = f
  BY DEF RevokeFamily, LogoutSave, SessionInv, TypeOK, Exists, FamilyOf
<1>2. /\ revokedBy' = revokedBy \cup {f}
      /\ Goto(r, pc'[r])
      /\ pc'[r] = "rejected" \/ (pc'[r] = "ok" /\ op[r] = "logout")
      /\ UNCHANGED <<expired, op, presented, forked>>
  <2>1. CASE RevokeFamily(r)
    BY <2>1 DEF RevokeFamily, Goto, SessionInv, TypeOK
  <2>2. CASE LogoutSave(r)
    <3>1. op[r] = "logout"
      BY <2>2 DEF LogoutSave, SessionInv, Control, PlaceOK
    <3> QED
      BY <2>2, <3>1 DEF LogoutSave, Goto, SessionInv, TypeOK
  <2> QED
    BY <2>1, <2>2
<1>3. /\ tokens' \in [Request -> Token \cup {None}]
      /\ \A t \in Request :
           \/ tokens'[t] = tokens[t]
           \/ /\ t \in Exists /\ tokens[t].family = f
              /\ tokens'[t] = [tokens[t] EXCEPT !.revoked = TRUE]
  <2>1. ASSUME NEW t \in Exists
        PROVE  [tokens[t] EXCEPT !.revoked = TRUE] \in Token
    <3>1. tokens[t] \in Token
      BY DEF SessionInv, TypeOK, Exists
    <3> QED
      BY <3>1
  <2>2. CASE RevokeFamily(r)
    <3>1. \A t \in Request :
            tokens'[t] = IF t \in Live(f)
                         THEN [tokens[t] EXCEPT !.revoked = TRUE] ELSE tokens[t]
      BY <2>2 DEF RevokeFamily
    <3>2. tokens' = [t \in Request |-> tokens'[t]]
      BY <2>2 DEF RevokeFamily
    <3>3. \A t \in Live(f) : t \in Exists /\ tokens[t].family = f
      BY DEF Live, Family
    <3>4. \A t \in Request : tokens'[t] \in Token \cup {None}
      BY <2>1, <3>1, <3>3 DEF SessionInv, TypeOK
    <3> QED
      BY <3>1, <3>2, <3>3, <3>4
  <2>3. CASE LogoutSave(r)
    <3>1. tokens' = [tokens EXCEPT ![presented[r]] =
                        [tokens[presented[r]] EXCEPT !.revoked = TRUE]]
      BY <2>3, <1>1 DEF LogoutSave, SessionInv, TypeOK, Exists
    <3> QED
      BY <1>1, <2>1, <3>1 DEF SessionInv, TypeOK, Exists
  <2> QED
    BY <2>2, <2>3
<1>4. ASSUME NEW t \in Exists
      PROVE  /\ [tokens[t] EXCEPT !.revoked = TRUE].family = tokens[t].family
             /\ [tokens[t] EXCEPT !.revoked = TRUE].replacedBy = tokens[t].replacedBy
             /\ [tokens[t] EXCEPT !.revoked = TRUE].revoked
             /\ [tokens[t] EXCEPT !.revoked = TRUE] # None
  <2>1. tokens[t] \in Token
    BY DEF SessionInv, TypeOK, Exists
  <2>2. [tokens[t] EXCEPT !.revoked = TRUE] \in Token
    BY <2>1
  <2> QED
    BY <2>1, <2>2, NoneAssumption
<1>5. SameFamilies
  BY <1>3, <1>4 DEF SameFamilies, Exists
<1>6. \A t \in Exists :
        /\ tokens'[t].replacedBy = tokens[t].replacedBy
        /\ tokens[t].revoked => tokens'[t].revoked
        /\ tokens[t].family # f => tokens'[t] = tokens[t]
        /\ tokens'[t].revoked => tokens[t].revoked \/ tokens[t].family \in revokedBy'
  BY <1>2, <1>3, <1>4 DEF Exists
<1> QED
  BY <1>1, <1>2, <1>3, <1>5, <1>6

(* The end of a session is on record.                                       *)
LEMMA SessionInvRevocations ==
    ASSUME SessionInv, NEW r \in Request, RevokeFamily(r) \/ LogoutSave(r)
    PROVE  SessionInv'
<1> DEFINE f == FamilyOf(r)
<1>1. TypeOK' /\ Control'
  <2>1. revokedBy' \in SUBSET Request /\ revokedBy \subseteq revokedBy'
    BY RevocationEffect DEF SessionInv, TypeOK
  <2> QED
    BY <2>1, RevocationEffect, SessionInvWrite
<1>2. SessionSurvives'
  <2> SUFFICES ASSUME NEW g \in Exists, tokens[g].family = g, g \notin revokedBy'
               PROVE  \E x \in Exists : tokens'[x].family = g /\ ~tokens'[x].revoked
    BY RevocationEffect DEF SessionSurvives, Live, Family, SameFamilies, Exists
  <2>1. g \notin revokedBy /\ g # f
    BY RevocationEffect
  <2>2. PICK x \in Exists : tokens[x].family = g /\ ~tokens[x].revoked
    BY <2>1 DEF SessionInv, SessionSurvives, Live, Family
  <2>3. tokens'[x] = tokens[x]
    BY <2>1, <2>2, RevocationEffect
  <2> QED
    BY <2>2, <2>3
<1> QED
  BY <1>1, <1>2 DEF SessionInv

LEMMA SessionInvNext == SessionInv /\ [Next]_vars => SessionInv'
<1> SUFFICES ASSUME SessionInv, [Next]_vars PROVE SessionInv'
  OBVIOUS
<1>1. ASSUME NEW r \in Request, Step(r) PROVE SessionInv'
  BY <1>1, SessionInvArrivals, SessionInvDecisions, SessionInvInserts,
     SessionInvRefreshSave, SessionInvRevocations DEF Step
<1>2. CASE UNCHANGED vars
  BY <1>2, SurvivesKept, FamilyKept
  DEF vars, Keeping, SessionInv, Control, TypeOK, PresentedOK, PlaceOK,
      SuccessorOK, Exists, FamilyOf
<1> QED
  BY <1>1, <1>2 DEF Next

-----------------------------------------------------------------------------
(* Dead sessions and chains.  Most steps start no rotation, insert nothing  *)
(* and link nothing.                                                        *)

OrderlyRow(t) ==
    /\ (t \in Exists)' <=> t \in Exists
    /\ t \in Exists => /\ tokens'[t].family = tokens[t].family
                       /\ tokens'[t].replacedBy = tokens[t].replacedBy
                       /\ tokens[t].revoked => tokens'[t].revoked

OrderlyRequest(q) ==
    /\ pc[q] # "idle" => op'[q] = op[q] /\ presented'[q] = presented[q]
    /\ pc'[q] \in Rotating => pc'[q] = pc[q]
    /\ pc[q] = "save" => pc'[q] = "save" \/ FamilyOf(q) \in forked'
    /\ pc[q] \in {"answer", "ok", "failed"} => pc'[q] \in {"answer", "ok", "failed"}
    /\ op'[q] = "refresh" /\ pc'[q] \in {"answer", "ok"} =>
           op[q] = "refresh" /\ pc[q] \in {"answer", "ok"}

Orderly == /\ \A t \in Request : OrderlyRow(t) /\ OrderlyRequest(t)
           /\ forked \subseteq forked'

OrderlyStep(r) ==
    \/ ArriveLogin(r) \/ Arrive(r) \/ LogoutFind(r) \/ Answer(r) \/ Crash(r)
    \/ Expire(r) \/ RevokeFamily(r) \/ LogoutSave(r)
    \/ Login(r) /\ tokens'[r] = None
    \/ RefreshFind(r) /\ pc'[r] # "insert"
    \/ UNCHANGED vars

LEMMA OrderlySteps ==
    ASSUME SessionInv, NEW r \in Request, OrderlyStep(r)
    PROVE  Orderly
<1>1. CASE RevokeFamily(r) \/ LogoutSave(r)
  <2>1. \A t \in Request : OrderlyRow(t)
    BY <1>1, RevocationEffect DEF OrderlyRow, SameFamilies
  <2>2. \A q \in Request : OrderlyRequest(q)
    BY <1>1, RevocationEffect DEF OrderlyRequest, Goto, SessionInv, TypeOK
  <2> QED
    BY <1>1, <2>1, <2>2, RevocationEffect DEF Orderly
<1>2. CASE ~(RevokeFamily(r) \/ LogoutSave(r))
  <2>1. tokens' = tokens
    BY <1>2, NewTokenTyped
    DEF OrderlyStep, ArriveLogin, Arrive, LogoutFind, Answer, Crash, Expire,
        Login, RefreshFind, vars, SessionInv, TypeOK
  <2>2. \A t \in Request : OrderlyRow(t)
    BY <2>1 DEF OrderlyRow, Exists
  <2>3. \A q \in Request : OrderlyRequest(q)
    <3>1. CASE ArriveLogin(r) \/ Arrive(r)
      BY <3>1 DEF OrderlyRequest, ArriveLogin, Arrive, SessionInv, TypeOK, Goto
    <3>2. CASE Crash(r)
      BY <3>2 DEF OrderlyRequest, Crash, SessionInv, TypeOK, Goto, FamilyOf, Exists
    <3>3. CASE LogoutFind(r)
      BY <3>3 DEF OrderlyRequest, LogoutFind, SessionInv, TypeOK, Goto
    <3>4. CASE Answer(r) \/ Expire(r)
      BY <3>4 DEF OrderlyRequest, Answer, Expire, SessionInv, TypeOK, Goto
    <3>5. CASE Login(r) /\ tokens'[r] = None
      <4>1. Goto(r, "rejected")
        BY <3>5, NewTokenTyped DEF Login, SessionInv, TypeOK
      <4> QED
        BY <3>5, <4>1 DEF OrderlyRequest, Login, SessionInv, TypeOK, Goto
    <3>6. CASE RefreshFind(r) /\ pc'[r] # "insert"
      BY <3>6 DEF OrderlyRequest, RefreshFind, SessionInv, TypeOK, Goto
    <3>7. CASE UNCHANGED vars
      BY <3>7 DEF OrderlyRequest, vars
    <3> QED
      BY <1>2, <3>1, <3>2, <3>3, <3>4, <3>5, <3>6, <3>7 DEF OrderlyStep
  <2>4. forked \subseteq forked'
    BY <1>2
    DEF OrderlyStep, ArriveLogin, Arrive, LogoutFind, Answer, Crash, Expire,
        Login, RefreshFind, vars
  <2> QED
    BY <2>2, <2>3, <2>4 DEF Orderly
<1> QED
  BY <1>1, <1>2

LEMMA FamilyOfKept ==
    ASSUME SessionInv, Orderly, NEW q \in Request, pc[q] # "idle", op[q] # "login"
    PROVE  FamilyOf(q)' = FamilyOf(q) /\ presented[q] \in Exists
BY DEF SessionInv, Control, PresentedOK, TypeOK, Orderly, OrderlyRow,
       OrderlyRequest, FamilyOf, Exists

LEMMA RotatingKept ==
    ASSUME SessionInv, Orderly, NEW q \in Request, pc'[q] \in Rotating
    PROVE  /\ pc[q] = pc'[q] /\ pc[q] \in Rotating /\ op[q] = "refresh"
           /\ FamilyOf(q)' = FamilyOf(q) /\ presented'[q] = presented[q]
           /\ presented[q] \in Exists
<1>1. pc[q] = pc'[q] /\ pc[q] \in Rotating /\ presented'[q] = presented[q]
  BY DEF Orderly, OrderlyRequest
<1>2. op[q] = "refresh"
  BY <1>1 DEF SessionInv, Control, PlaceOK
<1> QED
  BY <1>1, <1>2, FamilyOfKept

LEMMA DeadOrderly ==
    ASSUME SessionInv, Orderly, NEW f \in Request, Dead(f)
    PROVE  Dead(f)'
<1>1. \A q \in Request : pc'[q] \in Rotating =>
          pc[q] \in Rotating /\ FamilyOf(q)' = FamilyOf(q)
  BY RotatingKept
<1> QED
  BY <1>1 DEF Dead, Family, Live, RotatingIn, Exists, Orderly, OrderlyRow

LEMMA ChainOrderly ==
    ASSUME SessionInv, ChainInv, Orderly
    PROVE  ChainInv'
<1>1. \A t \in Request : OrderlyRow(t)
  BY DEF Orderly
<1>2. LinkOK'
  BY <1>1 DEF ChainInv, LinkOK, Orderly, OrderlyRow, OrderlyRequest, Exists,
              SessionInv, TypeOK
<1>3. AloneOK'
  <2> SUFFICES ASSUME NEW r \in Request, pc'[r] \in Rotating,
                      FamilyOf(r)' \notin forked'
               PROVE  /\ tokens'[presented'[r]].replacedBy = None
                      /\ Live(FamilyOf(r))' \subseteq {presented'[r], r}
                      /\ \A q \in Request :
                           pc'[q] \in Rotating /\ FamilyOf(q)' = FamilyOf(r)' => q = r
    BY DEF AloneOK
  <2>1. /\ pc[r] \in Rotating /\ FamilyOf(r)' = FamilyOf(r)
        /\ presented'[r] = presented[r] /\ presented[r] \in Exists
        /\ FamilyOf(r) \notin forked
    BY RotatingKept DEF Orderly
  <2>2. /\ tokens[presented[r]].replacedBy = None
        /\ Live(FamilyOf(r)) \subseteq {presented[r], r}
        /\ \A q \in Request : pc[q] \in Rotating /\ FamilyOf(q) = FamilyOf(r) => q = r
    BY <2>1 DEF ChainInv, AloneOK
  <2>3. tokens'[presented'[r]].replacedBy = None
    BY <1>1, <2>1, <2>2 DEF OrderlyRow, Exists
  <2>4. Live(FamilyOf(r))' \subseteq Live(FamilyOf(r))
    BY <1>1, <2>1 DEF Live, Family, OrderlyRow, Exists
  <2>5. \A q \in Request :
          pc'[q] \in Rotating /\ FamilyOf(q)' = FamilyOf(r)' => q = r
    BY <2>1, <2>2, RotatingKept
  <2> QED
    BY <2>1, <2>2, <2>3, <2>4, <2>5
<1>4. LiveOK'
  <2> SUFFICES ASSUME NEW x \in Request, NEW y \in Request, x # y,
                      (x \in Exists)', (y \in Exists)',
                      tokens'[y].family = tokens'[x].family,
                      tokens'[x].family \notin forked',
                      ~tokens'[x].revoked, ~tokens'[y].revoked
               PROVE  \E r \in Request :
                        pc'[r] = "save" /\ {x, y} = {r, presented'[r]}
    BY DEF LiveOK, Exists
  <2>1. /\ x \in Exists /\ y \in Exists /\ tokens[y].family = tokens[x].family
        /\ tokens[x].family \notin forked' /\ tokens[x].family \notin forked
        /\ ~tokens[x].revoked /\ ~tokens[y].revoked
    BY <1>1 DEF OrderlyRow, Orderly
  <2>2. PICK r \in Request : pc[r] = "save" /\ {x, y} = {r, presented[r]}
    BY <2>1 DEF ChainInv, LiveOK
  <2>3. op[r] = "refresh"
    BY <2>2 DEF SessionInv, Control, PlaceOK
  <2>4. FamilyOf(r) = tokens[x].family
    BY <2>1, <2>2, <2>3 DEF FamilyOf, SessionInv, Control, SuccessorOK
  <2>5. presented'[r] = presented[r] /\ pc'[r] = "save"
    BY <2>1, <2>2, <2>4 DEF Orderly, OrderlyRequest
  <2> QED
    BY <2>2, <2>5
<1>5. ChainUnlessForked'
  <2> SUFFICES ASSUME NEW r \in Request, Rotated(r)', FamilyOf(r)' \notin forked'
               PROVE  PredecessorsOf(r)' = {presented'[r]}
    BY DEF ChainUnlessForked
  <2>1. Rotated(r) /\ presented'[r] = presented[r] /\ pc[r] # "idle" /\ op[r] # "login"
    BY DEF Orderly, OrderlyRequest, Rotated
  <2>2. FamilyOf(r) \notin forked
    BY <2>1, FamilyOfKept DEF Orderly
  <2>3. PredecessorsOf(r) = {presented[r]}
    BY <2>1, <2>2 DEF ChainInv, ChainUnlessForked
  <2>4. PredecessorsOf(r)' = PredecessorsOf(r)
    BY <1>1 DEF PredecessorsOf, OrderlyRow, Exists
  <2> QED
    BY <2>1, <2>3, <2>4
<1> QED
  BY <1>2, <1>3, <1>4, <1>5 DEF ChainInv

(* The steps that remain: two insert a token, one starts a rotation, one    *)
(* finishes it.                                                             *)
LEMMA InsertEffect ==
    ASSUME SessionInv, NEW r \in Request, NEW f \in Request,
           tokens' = [tokens EXCEPT ![r] = NewToken(f)], tokens[r] = None
    PROVE  /\ \A t \in Exists : (t \in Exists)' /\ tokens'[t] = tokens[t]
           /\ \A t \in Request : (t \in Exists)' => t \in Exists \/ t = r
           /\ r \notin Exists /\ (r \in Exists)'
           /\ tokens'[r].family = f /\ ~tokens'[r].revoked
           /\ tokens'[r].replacedBy = None
<1>1. tokens'[r] = NewToken(f) /\ \A t \in Request : t # r => tokens'[t] = tokens[t]
  BY DEF SessionInv, TypeOK
<1>2. NewToken(f) # None
  BY NewTokenTyped
<1> QED
  BY <1>1, <1>2 DEF Exists, NewToken

LEMMA LoginEffect ==
    ASSUME SessionInv, NEW r \in Request, Login(r), tokens'[r] # None
    PROVE  /\ pc[r] = "login" /\ tokens[r] = None
           /\ tokens' = [tokens EXCEPT ![r] = NewToken(r)]
           /\ \A q \in Request : pc'[q] = IF q = r THEN "answer" ELSE pc[q]
           /\ UNCHANGED <<expired, op, presented, revokedBy, forked>>
<1>1. pc[r] = "login" /\ tokens[r] = None
  BY DEF Login, SessionInv, Control, PlaceOK
<1>2. tokens' = [tokens EXCEPT ![r] = NewToken(r)] /\ Goto(r, "answer")
  BY <1>1 DEF Login
<1> QED
  BY <1>1, <1>2 DEF Login, Goto, SessionInv, TypeOK

LEMMA RefreshInsertEffect ==
    ASSUME SessionInv, NEW r \in Request, RefreshInsert(r)
    PROVE  /\ pc[r] = "insert" /\ tokens[r] = None /\ op[r] = "refresh"
           /\ presented[r] \in Exists /\ FamilyOf(r) \in Request
           /\ tokens' = [tokens EXCEPT ![r] = NewToken(FamilyOf(r))]
           /\ \A q \in Request : pc'[q] = IF q = r THEN "save" ELSE pc[q]
           /\ UNCHANGED <<expired, op, presented, revokedBy, forked>>
<1>1. pc[r] = "insert" /\ tokens[r] = None /\ op[r] = "refresh"
  BY DEF RefreshInsert, SessionInv, Control, PlaceOK
<1>2. presented[r] \in Exists /\ FamilyOf(r) \in Request
  BY <1>1 DEF SessionInv, TypeOK, FamilyOf, Exists
<1> QED
  BY <1>1, <1>2 DEF RefreshInsert, Goto, SessionInv, TypeOK

LEMMA RefreshStartEffect ==
    ASSUME SessionInv, NEW r \in Request, RefreshFind(r), pc'[r] = "insert"
    PROVE  /\ pc[r] = "find" /\ op[r] = "refresh"
           /\ presented[r] \in Exists /\ ~tokens[presented[r]].revoked
           /\ forked' = forked \cup {f \in {FamilyOf(r)} : RotatingIn(f) # {}}
           /\ \A q \in Request : pc'[q] = IF q = r THEN "insert" ELSE pc[q]
           /\ UNCHANGED <<tokens, expired, op, presented, revokedBy>>
<1>1. Goto(r, "insert")
  BY DEF RefreshFind, Goto, SessionInv, TypeOK
<1>2. pc[r] = "find" /\ op[r] = "refresh" /\ presented[r] \in Exists
  BY DEF RefreshFind, SessionInv, TypeOK
<1>3. /\ ~tokens[presented[r]].revoked
      /\ forked' = forked \cup {f \in {FamilyOf(r)} : RotatingIn(f) # {}}
  BY DEF RefreshFind, Goto, SessionInv, TypeOK
<1> QED
  BY <1>1, <1>2, <1>3 DEF RefreshFind, Goto, SessionInv, TypeOK

(* A presented token exists already: inserting another row does not change  *)
(* its family.                                                              *)
LEMMA FamilyOfStays ==
    ASSUME SessionInv, NEW q \in Request, op[q] # "login",
           \A t \in Exists : tokens'[t].family = tokens[t].family,
           UNCHANGED presented
    PROVE  FamilyOf(q)' = FamilyOf(q) /\ presented[q] \in Exists
BY DEF SessionInv, Control, PresentedOK, FamilyOf

LEMMA RotatingIsRefresh ==
    ASSUME SessionInv, NEW q \in Request, pc[q] \in Rotating
    PROVE  op[q] = "refresh" /\ op[q] # "login" /\ presented[q] \in Exists
BY DEF SessionInv, Control, PlaceOK, PresentedOK

LEMMA DeadNext ==
    ASSUME SessionInv, NEW r \in Request, Step(r), NEW f \in Request, Dead(f)
    PROVE  Dead(f)'
<1>1. f \in Exists /\ \A t \in Exists : tokens[t].family = f => tokens[t].revoked
  BY DEF Dead, Family, Live, SessionInv, Control, FamilyOK, Exists
<1>2. \A q \in Request : pc[q] \in Rotating => FamilyOf(q) # f
  BY DEF Dead, RotatingIn
<1> DEFINE Keeps == /\ \A t \in Exists : /\ (t \in Exists)'
                                         /\ tokens'[t].family = tokens[t].family
                                         /\ tokens[t].revoked => tokens'[t].revoked
                    /\ \A t \in Request \ Exists :
                         (t \in Exists)' => tokens'[t].family # f
                    /\ \A q \in Request : pc'[q] \in Rotating => FamilyOf(q)' # f
<1>3. Keeps => Dead(f)'
  BY DEF Dead, Family, Live, RotatingIn, Exists
<1>4. CASE Login(r) /\ tokens'[r] # None
  <2>1. /\ \A t \in Exists : (t \in Exists)' /\ tokens'[t] = tokens[t]
        /\ \A t \in Request : (t \in Exists)' => t \in Exists \/ t = r
        /\ r \notin Exists /\ tokens'[r].family = r
    BY <1>4, LoginEffect, InsertEffect
  <2>2. \A q \in Request : pc'[q] \in Rotating => pc[q] \in Rotating
    BY <1>4, LoginEffect
  <2>3. UNCHANGED presented
    BY <1>4, LoginEffect
  <2>4. \A q \in Request : pc'[q] \in Rotating => FamilyOf(q)' # f
    BY <1>2, <2>1, <2>2, <2>3, FamilyOfStays, RotatingIsRefresh
  <2> QED
    BY <1>1, <1>3, <2>1, <2>4
<1>5. CASE RefreshInsert(r)
  <2>1. /\ \A t \in Exists : (t \in Exists)' /\ tokens'[t] = tokens[t]
        /\ \A t \in Request : (t \in Exists)' => t \in Exists \/ t = r
        /\ r \notin Exists /\ tokens'[r].family = FamilyOf(r)
    BY <1>5, RefreshInsertEffect, InsertEffect
  <2>2. \A q \in Request : pc'[q] \in Rotating => pc[q] \in Rotating
    BY <1>5, RefreshInsertEffect
  <2>3. UNCHANGED presented /\ FamilyOf(r) # f
    BY <1>2, <1>5, RefreshInsertEffect
  <2>4. \A q \in Request : pc'[q] \in Rotating => FamilyOf(q)' # f
    BY <1>2, <2>1, <2>2, <2>3, FamilyOfStays, RotatingIsRefresh
  <2> QED
    BY <1>1, <1>3, <2>1, <2>3, <2>4
<1>6. CASE RefreshFind(r) /\ pc'[r] = "insert"
  <2>1. UNCHANGED <<tokens, presented>>
    BY <1>6, RefreshStartEffect
  <2>2. FamilyOf(r) # f
    BY <1>1, <1>6, RefreshStartEffect DEF FamilyOf
  <2>3. \A q \in Request : pc'[q] \in Rotating => pc[q] \in Rotating \/ q = r
    BY <1>6, RefreshStartEffect
  <2>4. \A q \in Request : pc'[q] \in Rotating => FamilyOf(q)' # f
    BY <1>2, <2>1, <2>2, <2>3 DEF FamilyOf
  <2> QED
    BY <1>3, <2>1, <2>4 DEF Exists
<1>7. CASE RefreshSave(r)
  <2>1. /\ \A t \in Exists : /\ (t \in Exists)'
                             /\ tokens'[t].family = tokens[t].family
                             /\ tokens[t].revoked => tokens'[t].revoked
        /\ \A t \in Request \ Exists : ~(t \in Exists)'
    BY <1>7, RefreshSaveEffect DEF SameFamilies, Exists
  <2>2. \A q \in Request : pc'[q] \in Rotating => pc[q] \in Rotating
    BY <1>7, RefreshSaveEffect DEF Goto, SessionInv, TypeOK
  <2>3. UNCHANGED presented
    BY <1>7, RefreshSaveEffect
  <2>4. \A q \in Request : pc'[q] \in Rotating => FamilyOf(q)' # f
    BY <1>2, <2>1, <2>2, <2>3, FamilyOfStays, RotatingIsRefresh
  <2> QED
    BY <1>3, <2>1, <2>4
<1>8. CASE OrderlyStep(r)
  BY <1>8, OrderlySteps, DeadOrderly
<1> QED
  BY <1>4, <1>5, <1>6, <1>7, <1>8 DEF Step, OrderlyStep

LEMMA LinkTyped ==
    ASSUME SessionInv, NEW t \in Exists
    PROVE  tokens[t].replacedBy \in Request \cup {None}
<1>1. tokens[t] \in Token
  BY DEF SessionInv, TypeOK, Exists
<1> QED
  BY <1>1

(* A login opens a family of its own, of one token.                         *)
LEMMA ChainLogin ==
    ASSUME SessionInv, ChainInv, NEW r \in Request, Login(r), tokens'[r] # None
    PROVE  ChainInv'
<1>1. /\ \A t \in Exists : (t \in Exists)' /\ tokens'[t] = tokens[t]
      /\ \A t \in Request : (t \in Exists)' => t \in Exists \/ t = r
      /\ r \notin Exists /\ tokens'[r].family = r /\ tokens'[r].replacedBy = None
  BY LoginEffect, InsertEffect
<1>2. /\ \A q \in Request : pc'[q] = IF q = r THEN "answer" ELSE pc[q]
      /\ pc[r] = "login" /\ UNCHANGED <<op, presented, forked>>
  BY LoginEffect
<1>3. \A q \in Request : op[q] # "login" =>
        FamilyOf(q)' = FamilyOf(q) /\ presented[q] \in Exists
  BY <1>1, <1>2, FamilyOfStays
<1>4. \A q \in Request : pc'[q] \in Rotating =>
        pc[q] = pc'[q] /\ op[q] # "login" /\ FamilyOf(q) \in Exists
  BY <1>2, <1>3, RotatingIsRefresh DEF FamilyOf, SessionInv, Control, FamilyOK
<1>5. \A t \in Exists : tokens[t].family # r
  BY <1>1 DEF SessionInv, Control, FamilyOK
<1>6. LinkOK'
  BY <1>1, <1>2, LinkTyped DEF ChainInv, LinkOK, Exists
<1>7. AloneOK'
  <2>1. \A f \in Exists : Live(f)' \subseteq Live(f)
    BY <1>1 DEF Live, Family, Exists
  <2> QED
    BY <1>1, <1>2, <1>3, <1>4, <2>1 DEF ChainInv, AloneOK
<1>8. LiveOK'
  BY <1>1, <1>2, <1>5 DEF ChainInv, LiveOK, Exists
<1>9. ChainUnlessForked'
  <2>1. \A q \in Request : PredecessorsOf(q)' = PredecessorsOf(q)
    BY <1>1, NoneAssumption DEF PredecessorsOf, Exists
  <2>2. op[r] # "refresh"
    BY <1>2 DEF SessionInv, Control, PresentedOK
  <2> QED
    BY <1>2, <1>3, <2>1, <2>2 DEF ChainInv, ChainUnlessForked, Rotated
<1> QED
  BY <1>6, <1>7, <1>8, <1>9 DEF ChainInv

(* A rotation starts: in a family that has not forked, none is under way,   *)
(* so the presented token is the only live one.                             *)
LEMMA ChainRefreshStart ==
    ASSUME SessionInv, ChainInv, NEW r \in Request, RefreshFind(r), pc'[r] = "insert"
    PROVE  ChainInv'
<1> DEFINE f == FamilyOf(r)
<1>1. /\ pc[r] = "find" /\ op[r] = "refresh"
      /\ presented[r] \in Exists /\ ~tokens[presented[r]].revoked
      /\ \A q \in Request : pc'[q] = IF q = r THEN "insert" ELSE pc[q]
      /\ UNCHANGED <<tokens, expired, op, presented, revokedBy>>
  BY RefreshStartEffect
<1>2. forked \subseteq forked' /\ (f \notin forked' => RotatingIn(f) = {})
  BY RefreshStartEffect
<1>3. \A q \in Request : FamilyOf(q)' = FamilyOf(q)
  BY <1>1 DEF FamilyOf
<1>4. LinkOK'
  BY <1>1, LinkTyped DEF ChainInv, LinkOK, Exists
<1>5. ASSUME f \notin forked' PROVE Live(f) = {presented[r]}
  <2>1. presented[r] \in Live(f)
    BY <1>1 DEF Live, Family, FamilyOf
  <2>2. ASSUME NEW x \in Live(f), x # presented[r] PROVE FALSE
    <3>1. x \in Exists /\ tokens[x].family = f /\ ~tokens[x].revoked /\ f \notin forked
      BY <1>2, <1>5, <2>2 DEF Live, Family
    <3>2. PICK q \in Request : pc[q] = "save" /\ {x, presented[r]} = {q, presented[q]}
      BY <1>1, <2>2, <3>1 DEF ChainInv, LiveOK, FamilyOf
    <3>3. FamilyOf(q) = f
      BY <3>1, <3>2 DEF FamilyOf, SessionInv, Control, SuccessorOK
    <3> QED
      BY <1>2, <1>5, <3>2, <3>3 DEF RotatingIn
  <2> QED
    BY <2>1, <2>2
<1>6. AloneOK'
  <2> SUFFICES ASSUME NEW p \in Request, pc'[p] \in Rotating, FamilyOf(p) \notin forked'
               PROVE  /\ tokens[presented[p]].replacedBy = None
                      /\ Live(FamilyOf(p)) \subseteq {presented[p], p}
                      /\ \A q \in Request :
                           pc'[q] \in Rotating /\ FamilyOf(q) = FamilyOf(p) => q = p
    BY <1>1, <1>3 DEF AloneOK, Live, Family, Exists
  <2>1. CASE FamilyOf(p) = f
    <3>1. \A q \in Request : pc'[q] \in Rotating /\ FamilyOf(q) = f => q = r
      BY <1>1, <1>2, <2>1 DEF RotatingIn
    <3>2. tokens[presented[r]].replacedBy = None
      BY <1>1 DEF ChainInv, LinkOK
    <3> QED
      BY <1>5, <2>1, <3>1, <3>2
  <2>2. CASE FamilyOf(p) # f
    BY <1>1, <1>2, <2>2 DEF ChainInv, AloneOK
  <2> QED
    BY <2>1, <2>2
<1>7. LiveOK'
  <2>1. \A q \in Request : pc[q] = "save" => pc'[q] = "save"
    BY <1>1
  <2> QED
    BY <1>1, <1>2, <2>1 DEF ChainInv, LiveOK, Exists
<1>8. ChainUnlessForked'
  BY <1>1, <1>2, <1>3 DEF ChainInv, ChainUnlessForked, Rotated, PredecessorsOf, Exists
<1> QED
  BY <1>4, <1>6, <1>7, <1>8 DEF ChainInv

(* The successor is inserted: now it and the presented token may be live.   *)
LEMMA ChainRefreshInsert ==
    ASSUME SessionInv, ChainInv, NEW r \in Request, RefreshInsert(r)
    PROVE  ChainInv'
<1> DEFINE f == FamilyOf(r)
<1>1. /\ pc[r] = "insert" /\ op[r] = "refresh"
      /\ presented[r] \in Exists /\ f \in Request
      /\ \A q \in Request : pc'[q] = IF q = r THEN "save" ELSE pc[q]
      /\ UNCHANGED <<expired, op, presented, revokedBy, forked>>
  BY RefreshInsertEffect
<1>2. /\ \A t \in Exists : (t \in Exists)' /\ tokens'[t] = tokens[t]
      /\ \A t \in Request : (t \in Exists)' => t \in Exists \/ t = r
      /\ r \notin Exists /\ (r \in Exists)' /\ tokens'[r].family = f
      /\ tokens'[r].replacedBy = None
  BY RefreshInsertEffect, InsertEffect
<1>3. \A q \in Request : op[q] # "login" =>
        FamilyOf(q)' = FamilyOf(q) /\ presented[q] \in Exists
  BY <1>1, <1>2, FamilyOfStays
<1>4. \A q \in Request : pc'[q] \in Rotating => pc[q] \in Rotating /\ op[q] # "login"
  BY <1>1, RotatingIsRefresh
<1>5. LinkOK'
  BY <1>1, <1>2, LinkTyped DEF ChainInv, LinkOK, Exists
<1>6. AloneOK'
  <2> SUFFICES ASSUME NEW p \in Request, pc'[p] \in Rotating, FamilyOf(p)' \notin forked'
               PROVE  /\ tokens'[presented'[p]].replacedBy = None
                      /\ \A x \in Request :
                           /\ (x \in Exists)' /\ ~tokens'[x].revoked
                           /\ tokens'[x].family = FamilyOf(p)'
                           => x \in {presented'[p], p}
                      /\ \A q \in Request :
                           pc'[q] \in Rotating /\ FamilyOf(q)' = FamilyOf(p)' => q = p
    BY DEF AloneOK, Live, Family, Exists
  <2>1. /\ pc[p] \in Rotating /\ FamilyOf(p)' = FamilyOf(p) /\ presented[p] \in Exists
        /\ FamilyOf(p) \notin forked
    BY <1>1, <1>3, <1>4
  <2>2. /\ tokens[presented[p]].replacedBy = None
        /\ Live(FamilyOf(p)) \subseteq {presented[p], p}
        /\ \A q \in Request : pc[q] \in Rotating /\ FamilyOf(q) = FamilyOf(p) => q = p
    BY <2>1 DEF ChainInv, AloneOK
  <2>3. FamilyOf(p) = f => p = r
    BY <1>1, <2>2
  <2>4. ASSUME NEW x \in Request, (x \in Exists)', ~tokens'[x].revoked,
               tokens'[x].family = FamilyOf(p)'
        PROVE  x \in {presented'[p], p}
    <3>1. CASE x = r
      BY <1>2, <2>1, <2>3, <2>4, <3>1
    <3>2. CASE x # r
      <4>1. x \in Live(FamilyOf(p))
        BY <1>2, <2>1, <2>4, <3>2 DEF Live, Family
      <4> QED
        BY <1>1, <2>2, <4>1
    <3> QED
      BY <3>1, <3>2
  <2>6. \A q \in Request : pc'[q] \in Rotating /\ FamilyOf(q)' = FamilyOf(p)' => q = p
    BY <1>3, <1>4, <2>1, <2>2
  <2> QED
    BY <1>1, <1>2, <2>1, <2>2, <2>4, <2>6
<1>7. LiveOK'
  <2> SUFFICES ASSUME NEW x \in Request, NEW y \in Request, x # y,
                      (x \in Exists)', (y \in Exists)',
                      tokens'[y].family = tokens'[x].family,
                      tokens'[x].family \notin forked',
                      ~tokens'[x].revoked, ~tokens'[y].revoked
               PROVE  \E q \in Request :
                        pc'[q] = "save" /\ {x, y} = {q, presented'[q]}
    BY DEF LiveOK, Exists
  <2>1. CASE x \in Exists /\ y \in Exists
    BY <1>1, <1>2, <2>1 DEF ChainInv, LiveOK
  <2>2. ASSUME NEW z \in Exists, tokens[z].family = f, f \notin forked,
               ~tokens[z].revoked
        PROVE  z = presented[r]
    BY <1>1, <1>2, <2>2 DEF ChainInv, AloneOK, Live, Family
  <2>3. CASE x = r \/ y = r
    BY <1>1, <1>2, <2>2, <2>3
  <2> QED
    BY <1>2, <2>1, <2>3
<1>8. ChainUnlessForked'
  <2>1. \A q \in Request : PredecessorsOf(q)' = PredecessorsOf(q)
    BY <1>2, NoneAssumption DEF PredecessorsOf, Exists
  <2> QED
    BY <1>1, <1>3, <2>1 DEF ChainInv, ChainUnlessForked, Rotated
<1> QED
  BY <1>5, <1>6, <1>7, <1>8 DEF ChainInv

(* A rotation ends: the presented token is revoked and linked to its        *)
(* successor, which stays alone.                                            *)
LEMMA ChainRefreshSave ==
    ASSUME SessionInv, ChainInv, NEW r \in Request, RefreshSave(r)
    PROVE  ChainInv'
<1> DEFINE t == presented[r]
           f == FamilyOf(r)
<1>1. /\ pc[r] = "save" /\ t \in Exists /\ t # r
      /\ r \in Exists /\ tokens[r].family = f
      /\ \A x \in Exists : x # t => tokens'[x] = tokens[x]
      /\ tokens'[t].revoked /\ tokens'[t].replacedBy = r
      /\ UNCHANGED <<expired, op, presented, revokedBy, forked>>
  BY RefreshSaveEffect
<1>2. \A x \in Request : /\ (x \in Exists)' <=> x \in Exists
                         /\ x \in Exists => tokens'[x].family = tokens[x].family
  BY RefreshSaveEffect DEF SameFamilies
<1>3. \A q \in Request : pc'[q] = IF q = r THEN "answer" ELSE pc[q]
  BY RefreshSaveEffect DEF Goto, SessionInv, TypeOK
<1>4. op[r] = "refresh"
  BY <1>1, RotatingIsRefresh
<1>5. \A q \in Request : op[q] # "login" =>
        FamilyOf(q)' = FamilyOf(q) /\ presented[q] \in Exists
  BY <1>1, <1>2, FamilyOfStays DEF Exists
<1>6. f \notin forked =>
        /\ tokens[t].replacedBy = None
        /\ \A q \in Request : pc[q] \in Rotating /\ FamilyOf(q) = f => q = r
  BY <1>1 DEF ChainInv, AloneOK
<1>7. LinkOK'
  <2>1. ASSUME NEW x \in Exists, x # t, tokens[x].replacedBy # None
        PROVE  LET q == tokens[x].replacedBy
               IN /\ tokens'[x].revoked
                  /\ op'[q] = "refresh" /\ presented'[q] = x
                  /\ pc'[q] \in {"answer", "ok", "failed"}
    BY <1>1, <1>3, <2>1, LinkTyped DEF ChainInv, LinkOK
  <2> QED
    BY <1>1, <1>2, <1>3, <1>4, <2>1 DEF LinkOK, Exists
<1>8. AloneOK'
  <2> SUFFICES ASSUME NEW p \in Request, pc'[p] \in Rotating, FamilyOf(p)' \notin forked'
               PROVE  /\ tokens'[presented'[p]].replacedBy = None
                      /\ \A x \in Request :
                           /\ (x \in Exists)' /\ ~tokens'[x].revoked
                           /\ tokens'[x].family = FamilyOf(p)'
                           => x \in {presented'[p], p}
                      /\ \A q \in Request :
                           pc'[q] \in Rotating /\ FamilyOf(q)' = FamilyOf(p)' => q = p
    BY DEF AloneOK, Live, Family, Exists
  <2>1. /\ p # r /\ pc[p] \in Rotating /\ FamilyOf(p)' = FamilyOf(p)
        /\ presented[p] \in Exists /\ FamilyOf(p) \notin forked
    BY <1>1, <1>3, <1>5, RotatingIsRefresh
  <2>2. /\ tokens[presented[p]].replacedBy = None
        /\ Live(FamilyOf(p)) \subseteq {presented[p], p}
        /\ \A q \in Request : pc[q] \in Rotating /\ FamilyOf(q) = FamilyOf(p) => q = p
    BY <2>1 DEF ChainInv, AloneOK
  <2>3. presented[p] # t
    BY <1>1, <2>1, <2>2 DEF FamilyOf
  <2>4. ASSUME NEW x \in Request, (x \in Exists)', ~tokens'[x].revoked,
               tokens'[x].family = FamilyOf(p)'
        PROVE  x \in {presented'[p], p}
    <3>1. x \in Live(FamilyOf(p))
      BY <1>1, <1>2, <2>1, <2>4 DEF Live, Family
    <3> QED
      BY <1>1, <2>2, <3>1
  <2>5. \A q \in Request : pc'[q] \in Rotating /\ FamilyOf(q)' = FamilyOf(p)' => q = p
    BY <1>3, <1>5, <2>1, <2>2, RotatingIsRefresh
  <2> QED
    BY <1>1, <2>1, <2>2, <2>3, <2>4, <2>5
<1>9. LiveOK'
  <2> SUFFICES ASSUME NEW x \in Request, NEW y \in Request, x # y,
                      (x \in Exists)', (y \in Exists)',
                      tokens'[y].family = tokens'[x].family,
                      tokens'[x].family \notin forked',
                      ~tokens'[x].revoked, ~tokens'[y].revoked
               PROVE  \E q \in Request :
                        pc'[q] = "save" /\ {x, y} = {q, presented'[q]}
    BY DEF LiveOK, Exists
  <2>1. /\ x \in Exists /\ y \in Exists /\ x # t /\ y # t
        /\ tokens'[x] = tokens[x] /\ tokens'[y] = tokens[y]
    BY <1>1, <1>2
  <2>2. PICK q \in Request : pc[q] = "save" /\ {x, y} = {q, presented[q]}
    BY <1>1, <2>1 DEF ChainInv, LiveOK
  <2>3. q # r
    BY <2>1, <2>2
  <2> QED
    BY <1>1, <1>3, <2>2, <2>3
<1>10. ChainUnlessForked'
  <2> SUFFICES ASSUME NEW p \in Request, Rotated(p)', FamilyOf(p)' \notin forked'
               PROVE  PredecessorsOf(p)' = {presented'[p]}
    BY DEF ChainUnlessForked
  <2>1. PredecessorsOf(p)' = {x \in Exists : tokens'[x].replacedBy = p}
    BY <1>2 DEF PredecessorsOf, Exists
  <2>2. CASE p = r
    <3>1. ASSUME NEW x \in Exists, x # t PROVE tokens[x].replacedBy # r
      BY <1>1, NoneAssumption DEF ChainInv, LinkOK
    <3> QED
      BY <1>1, <2>1, <2>2, <3>1
  <2>3. CASE p # r
    <3>1. Rotated(p) /\ FamilyOf(p) \notin forked /\ presented'[p] = presented[p]
      BY <1>1, <1>3, <1>5, <2>3 DEF Rotated
    <3>2. PredecessorsOf(p) = {presented[p]}
      BY <3>1 DEF ChainInv, ChainUnlessForked
    <3>3. t # presented[p]
      <4>1. SUFFICES ASSUME t = presented[p] PROVE FALSE
        OBVIOUS
      <4>2. FamilyOf(p) = f
        BY <4>1 DEF FamilyOf
      <4>3. tokens[t].replacedBy = p
        BY <3>2, <4>1 DEF PredecessorsOf
      <4> QED
        BY <1>6, <3>1, <4>2, <4>3, NoneAssumption
    <3> QED
      BY <1>1, <2>1, <2>3, <3>1, <3>2, <3>3 DEF PredecessorsOf
  <2> QED
    BY <2>2, <2>3
<1> QED
  BY <1>7, <1>8, <1>9, <1>10 DEF ChainInv

LEMMA IInvInit == Init => IInv
<1> SUFFICES ASSUME Init PROVE IInv
  OBVIOUS
<1>1. Exists = {}
  BY DEF Init, Exists
<1>2. ChainInv
  BY <1>1 DEF Init, ChainInv, LinkOK, AloneOK, LiveOK, ChainUnlessForked, Rotated
<1> QED
  BY <1>2, SessionInvInit DEF IInv

LEMMA IInvNext == IInv /\ [Next]_vars => IInv'
<1> SUFFICES ASSUME IInv, [Next]_vars PROVE IInv'
  OBVIOUS
<1>1. SessionInv /\ ChainInv /\ SessionInv'
  BY SessionInvNext DEF IInv
<1>2. ASSUME NEW r \in Request, Step(r) PROVE ChainInv'
  <2>1. CASE OrderlyStep(r)
    BY <1>1, <2>1, OrderlySteps, ChainOrderly
  <2>2. CASE Login(r) /\ tokens'[r] # None
    BY <1>1, <2>2, ChainLogin
  <2>3. CASE RefreshFind(r) /\ pc'[r] = "insert"
    BY <1>1, <2>3, ChainRefreshStart
  <2>4. CASE RefreshInsert(r)
    BY <1>1, <2>4, ChainRefreshInsert
  <2>5. CASE RefreshSave(r)
    BY <1>1, <2>5, ChainRefreshSave
  <2> QED
    BY <1>2, <2>1, <2>2, <2>3, <2>4, <2>5 DEF Step, OrderlyStep
<1>3. CASE UNCHANGED vars
  <2>1. Orderly
    BY <1>3 DEF Orderly, OrderlyRow, OrderlyRequest, vars, Exists
  <2> QED
    BY <1>1, <2>1, ChainOrderly DEF IInv
<1> QED
  BY <1>1, <1>2, <1>3 DEF Next, IInv

-----------------------------------------------------------------------------
(* Every reachable state is typed.                                          *)
THEOREM TypeCorrect == Spec => []TypeOK
<1>1. SessionInv => TypeOK
  BY DEF SessionInv
<1> QED
  BY <1>1, SessionInvInit, SessionInvNext, PTL DEF Spec

(* A rotation never takes a session's last token from it: with any number   *)
(* of requests, crashes and lost answers, a session nobody ended keeps a    *)
(* token that is not revoked.                                               *)
THEOREM SessionsSurvive == Spec => []SessionSurvives
<1>1. SessionInv => SessionSurvives
  BY DEF SessionInv
<1> QED
  BY <1>1, SessionInvInit, SessionInvNext, PTL DEF Spec

(* Where rotations neither overlap nor break off, at most one token of a    *)
(* session can still be refreshed.                                          *)
THEOREM OneLive == Spec => []OneLiveToken
<1>1. ASSUME IInv PROVE OneLiveToken
  <2> SUFFICES ASSUME NEW f \in Request \ forked,
                      \A r \in RotatingIn(f) : pc[r] # "save"
               PROVE  Cardinality(Live(f)) <= 1
    BY DEF OneLiveToken
  <2>1. ASSUME NEW x \in Live(f), NEW y \in Live(f), x # y PROVE FALSE
    <3>1. /\ x \in Exists /\ y \in Exists /\ tokens[x].family = f
          /\ tokens[y].family = f /\ ~tokens[x].revoked /\ ~tokens[y].revoked
      BY DEF Live, Family
    <3>2. PICK r \in Request : pc[r] = "save" /\ {x, y} = {r, presented[r]}
      BY <1>1, <2>1, <3>1 DEF IInv, ChainInv, LiveOK
    <3>3. FamilyOf(r) = f
      BY <3>1, <3>2 DEF FamilyOf
    <3> QED
      BY <3>2, <3>3 DEF RotatingIn
  <2>2. CASE Live(f) = {}
    BY <2>2, FS_EmptySet
  <2>3. CASE Live(f) # {}
    <3>1. \E x : Live(f) = {x}
      BY <2>1, <2>3
    <3>2. Cardinality(Live(f)) = 1
      BY <3>1, FS_Singleton
    <3> QED
      BY <3>2
  <2> QED
    BY <2>2, <2>3
<1> QED
  BY <1>1, IInvInit, IInvNext, PTL DEF Spec

(* Where rotations do not overlap, a finished rotation is recorded in       *)
(* exactly the token it replaced.                                           *)
THEOREM ChainKept == Spec => []ChainUnlessForked
<1>1. IInv => ChainUnlessForked
  BY DEF IInv, ChainInv
<1> QED
  BY <1>1, IInvInit, IInvNext, PTL DEF Spec

(* A session whose tokens are all revoked, with no rotation under way, has  *)
(* ended for good.                                                          *)
THEOREM DeadSessionsStayDead == Spec => DeadStaysDead
<1>1. SessionInv /\ [Next]_vars => [\A f \in Request : Dead(f) => Dead(f)']_vars
  BY DeadNext DEF Next
<1> QED
  BY <1>1, SessionInvInit, SessionInvNext, PTL DEF Spec, DeadStaysDead
=============================================================================
