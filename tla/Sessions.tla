-------------------------------- MODULE Sessions --------------------------------
(****************************************************************************)
(* Sign-in sessions: AuthService.login, refresh and logout over the table   *)
(* "refresh_tokens".                                                        *)
(*                                                                          *)
(* Every HTTP request is a process and each of its database calls an        *)
(* action, so that other requests run in between.  A request inserts at     *)
(* most one token, so tokens are named after the request that inserted      *)
(* them: tokens[r] is the row request r inserted, or None.  A family is     *)
(* named after the login that opened it.                                    *)
(*                                                                          *)
(* save() re-reads the row and writes the columns that differ.  is_revoked  *)
(* is only ever set, and replaced_by_id always differs, so the re-read      *)
(* cannot change what is written and a save is one step here.               *)
(****************************************************************************)
EXTENDS Naturals, FiniteSets

CONSTANTS
    Request,
    None      \* NULL or "no row"

Op == {"login", "refresh", "logout"}
Token == [family : Request, revoked : BOOLEAN, replacedBy : Request \cup {None}]

ASSUME NoneAssumption == None \notin Request /\ None \notin Token

Rotating == {"insert", "save"}
Running == {"find", "revokeFamily", "logoutSave", "login", "answer"} \cup Rotating
Ended == {"ok", "rejected", "failed"}

VARIABLES
    tokens,    \* table refresh_tokens
    expired,   \* tokens whose expires_at has passed
    pc, op,
    presented, \* the token in the body of a refresh or logout
    revokedBy, \* history: families that a logout or a reuse wrote to
    forked     \* history: families two rotations overlapped in, or one was
               \* cut off in between its two writes

vars == <<tokens, expired, pc, op, presented, revokedBy, forked>>

Exists == {t \in Request : tokens[t] # None}
Family(f) == {t \in Exists : tokens[t].family = f}
Live(f) == {t \in Family(f) : ~tokens[t].revoked}
FamilyOf(r) == tokens[presented[r]].family
RotatingIn(f) == {r \in Request : pc[r] \in Rotating /\ FamilyOf(r) = f}

(* A client has the tokens of the answers that reached it, rotated ones     *)
(* included: another tab, or a retry, may present those again.              *)
Known == {t \in Exists : pc[t] = "ok"}

Goto(r, label) == pc' = [pc EXCEPT ![r] = label]

Init ==
    /\ tokens = [r \in Request |-> None]
    /\ expired = {}
    /\ pc = [r \in Request |-> "idle"]
    /\ op = [r \in Request |-> "login"]
    /\ presented = [r \in Request |-> None]
    /\ revokedBy = {}
    /\ forked = {}

-----------------------------------------------------------------------------
ArriveLogin(r) ==
    /\ pc[r] = "idle"
    /\ Goto(r, "login")
    /\ UNCHANGED <<tokens, expired, op, presented, revokedBy, forked>>

Arrive(r) ==
    /\ pc[r] = "idle"
    /\ \E o \in {"refresh", "logout"}, t \in Known :
         /\ op' = [op EXCEPT ![r] = o]
         /\ presented' = [presented EXCEPT ![r] = t]
    /\ Goto(r, "find")
    /\ UNCHANGED <<tokens, expired, revokedBy, forked>>

(* Mutant: login passes on no family id.                                    *)
NewToken_noFamily(family) ==
    [family |-> None, revoked |-> FALSE, replacedBy |-> None]

NewToken(family) == [family |-> family, revoked |-> FALSE, replacedBy |-> None]

(* Credentials may be wrong or the account inactive.                        *)
Login(r) ==
    /\ pc[r] = "login"
    /\ \/ /\ tokens' = [tokens EXCEPT ![r] = NewToken(r)]
          /\ Goto(r, "answer")
       \/ Goto(r, "rejected") /\ UNCHANGED tokens
    /\ UNCHANGED <<expired, op, presented, revokedBy, forked>>

-----------------------------------------------------------------------------
(* refresh                                                                  *)

(* Mutant: a revoked token is rotated like any other.                       *)
RefreshFind_anyToken(r) ==
    /\ pc[r] = "find"
    /\ op[r] = "refresh"
    /\ presented[r] \notin expired
    /\ Goto(r, "insert")
    /\ forked' = forked \cup {f \in {FamilyOf(r)} : RotatingIn(f) # {}}
    /\ UNCHANGED <<tokens, expired, op, presented, revokedBy>>

(* Mutant: the old token is saved as revoked before the new one is issued.  *)
RefreshFind_revokesFirst(r) ==
    /\ pc[r] = "find"
    /\ op[r] = "refresh"
    /\ presented[r] \notin expired /\ ~tokens[presented[r]].revoked
    /\ tokens' = [tokens EXCEPT ![presented[r]].revoked = TRUE]
    /\ Goto(r, "insert")
    /\ UNCHANGED <<expired, op, presented, revokedBy, forked>>

RefreshFind(r) ==
    LET t == presented[r]
    IN /\ pc[r] = "find"
       /\ op[r] = "refresh"
       /\ \/ /\ tokens[t].revoked
             /\ Goto(r, "revokeFamily")
             /\ UNCHANGED forked
          \/ /\ ~tokens[t].revoked
             /\ Goto(r, "rejected") \* expired, or the account is inactive
             /\ UNCHANGED forked
          \/ /\ ~tokens[t].revoked
             /\ t \notin expired
             /\ Goto(r, "insert")
             /\ forked' = forked \cup
                    {f \in {FamilyOf(r)} : RotatingIn(f) # {}}
       /\ UNCHANGED <<tokens, expired, op, presented, revokedBy>>

(* UPDATE ... WHERE family = and not is_revoked, in one statement.          *)
RevokeFamily(r) ==
    /\ pc[r] = "revokeFamily"
    /\ tokens' = [t \in Request |->
           IF t \in Live(FamilyOf(r)) THEN [tokens[t] EXCEPT !.revoked = TRUE]
           ELSE tokens[t]]
    /\ revokedBy' = revokedBy \cup {FamilyOf(r)}
    /\ Goto(r, "rejected")
    /\ UNCHANGED <<expired, op, presented, forked>>

RefreshInsert(r) ==
    /\ pc[r] = "insert"
    /\ tokens' = [tokens EXCEPT ![r] = NewToken(FamilyOf(r))]
    /\ Goto(r, "save")
    /\ UNCHANGED <<expired, op, presented, revokedBy, forked>>

(* Mutant: the rotated token is linked but not revoked.                     *)
Replaced_linkOnly(row, r) == [row EXCEPT !.replacedBy = r]

(* Mutant: the rotated token is revoked but not linked.                     *)
Replaced_revokeOnly(row, r) == [row EXCEPT !.revoked = TRUE]

Replaced(row, r) == [row EXCEPT !.revoked = TRUE, !.replacedBy = r]

RefreshSave(r) ==
    /\ pc[r] = "save"
    /\ tokens' = [tokens EXCEPT ![presented[r]] = Replaced(@, r)]
    /\ Goto(r, "answer")
    /\ UNCHANGED <<expired, op, presented, revokedBy, forked>>

-----------------------------------------------------------------------------
(* logout                                                                   *)

LogoutFind(r) ==
    /\ pc[r] = "find"
    /\ op[r] = "logout"
    /\ Goto(r, IF tokens[presented[r]].revoked THEN "ok" ELSE "logoutSave")
    /\ UNCHANGED <<tokens, expired, op, presented, revokedBy, forked>>

LogoutSave(r) ==
    /\ pc[r] = "logoutSave"
    /\ tokens' = [tokens EXCEPT ![presented[r]].revoked = TRUE]
    /\ revokedBy' = revokedBy \cup {FamilyOf(r)}
    /\ Goto(r, "ok")
    /\ UNCHANGED <<expired, op, presented, forked>>

-----------------------------------------------------------------------------
Answer(r) ==
    /\ pc[r] = "answer"
    /\ Goto(r, "ok")
    /\ UNCHANGED <<tokens, expired, op, presented, revokedBy, forked>>

(* The process stops, a query fails, or the answer is lost.                 *)
Crash(r) ==
    /\ pc[r] \in Running
    /\ Goto(r, "failed")
    /\ forked' = forked \cup
           {f \in Request : pc[r] = "save" /\ f = FamilyOf(r)}
    /\ UNCHANGED <<tokens, expired, op, presented, revokedBy>>

Expire(t) ==
    /\ t \in Exists \ expired
    /\ expired' = expired \cup {t}
    /\ UNCHANGED <<tokens, pc, op, presented, revokedBy, forked>>

Step(r) ==
    \/ ArriveLogin(r) \/ Arrive(r) \/ Login(r)
    \/ RefreshFind(r) \/ RevokeFamily(r) \/ RefreshInsert(r) \/ RefreshSave(r)
    \/ LogoutFind(r) \/ LogoutSave(r)
    \/ Answer(r) \/ Crash(r) \/ Expire(r)

Next == \E r \in Request : Step(r)

Spec == Init /\ [][Next]_vars

-----------------------------------------------------------------------------
TypeOK ==
    /\ tokens \in [Request -> Token \cup {None}]
    /\ expired \subseteq Exists
    /\ pc \in [Request -> {"idle"} \cup Running \cup Ended]
    /\ op \in [Request -> Op]
    /\ presented \in [Request -> Request \cup {None}]
    /\ \A r \in Request :
         op[r] # "login" => presented[r] \in Exists
    /\ \A r \in Request :
         pc[r] \in Rotating \cup {"find", "revokeFamily", "logoutSave"} =>
             op[r] # "login"
    /\ revokedBy \subseteq Request
    /\ forked \subseteq Request

(* The new token is inserted before the old one is revoked "to avoid a      *)
(* window where neither token is valid" (auth.service.ts:107-108): wherever *)
(* a rotation is cut off, and however rotations overlap, a session nobody   *)
(* ended keeps a token that is not revoked.                                 *)
SessionSurvives ==
    \A f \in Exists : tokens[f].family = f /\ f \notin revokedBy => Live(f) # {}

(* Where rotations neither overlap nor break off, a session has at most one *)
(* token that can still be refreshed.                                       *)
OneLiveToken ==
    \A f \in Request \ forked :
        (\A r \in RotatingIn(f) : pc[r] # "save") => Cardinality(Live(f)) <= 1

(* A session all of whose tokens are revoked, with no rotation under way,   *)
(* has ended for good: no token presented later revives it.                 *)
Dead(f) == Family(f) # {} /\ Live(f) = {} /\ RotatingIn(f) = {}
DeadStaysDead == [][\A f \in Request : Dead(f) => Dead(f)']_vars

(* Where rotations do not overlap, the tokens of a session form one chain:  *)
(* a finished rotation is recorded in exactly one predecessor of its family.*)
Rotated(r) == op[r] = "refresh" /\ pc[r] \in {"answer", "ok"}
PredecessorsOf(r) == {t \in Exists : tokens[t].replacedBy = r}
ChainUnlessForked ==
    \A r \in Request : Rotated(r) /\ FamilyOf(r) \notin forked =>
        PredecessorsOf(r) = {presented[r]}

-----------------------------------------------------------------------------
(* What a comment says and the code does not do                             *)

(* logout revokes the token, "ending the session" (auth.service.ts:117):    *)
(* when a logout has revoked the token it was given, its session has no     *)
(* other.  A rotation that found the token before may have issued one.      *)
LogoutEndsSession ==
    [][\A r \in Request :
         pc[r] = "logoutSave" /\ pc'[r] = "ok" => Live(FamilyOf(r))' = {}]_vars

=============================================================================
