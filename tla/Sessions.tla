------------------------------ MODULE Sessions ------------------------------
(***************************************************************************)
(* Token pairs and the accounts they speak for.                            *)
(*                                                                         *)
(* A login grants an access token, checked by signature, time and a Redis  *)
(* denylist, and a refresh token, a row that a refresh revokes and         *)
(* replaces.  Handlers run on one event loop: each is interrupted where it *)
(* awaits Redis and nowhere else, so what follows the denylist check, with *)
(* its read of the user's row, is one step.  Passwords, lockout and TOTP   *)
(* are in Login; one organization, no sites.                               *)
(***************************************************************************)
EXTENDS Integers, Sequences, Accounts

CONSTANTS
  Founders,  \* the accounts that exist at first
  MaxPairs   \* bound on the token pairs granted

VARIABLES
  user,   \* users: role and is_active
  pairs,  \* the token pairs granted, oldest first
  calls     \* the requests in progress

sessions == <<user, pairs, calls>>

Roles == {"superadmin", "site_admin", "guard"}
Admins == {"superadmin", "site_admin"}

(* absent: no row yet *)
UserRow == [role: Roles \cup {"absent"}, active: BOOLEAN]

(* revoked: refresh_token_hashes.revoked; denied: token:deny:{jti}; age: of *)
(* the access token, "last" in the second that exp names, which jose still  *)
(* accepts.  Observations: login, the pair the family began with; out, a    *)
(* logout of the owner has been answered since; quit, one with this token.  *)
Pair == [owner: Users, revoked: BOOLEAN, denied: BOOLEAN,
         age: {"live", "last", "expired"},
         login: Nat, out: BOOLEAN, quit: BOOLEAN]

(* GrantState: the row was found active; the tokens are not granted yet.    *)
GrantState == [pc: {"granting"}, user: Users]

(* A request with the access token of a pair; what it asks for is chosen    *)
(* where it is used.  late (an observation): it came after a logout with    *)
(* this very token had been answered, and the denylist was asked before the *)
(* last second.                                                             *)
CallState == [pc: {"check", "act", "revoke"}, pair: Nat, late: BOOLEAN]

ASSUME SessionsAssumption == Founders \subseteq Users /\ MaxPairs \in Nat

SessionsTypeOK ==
  /\ user \in [Users -> UserRow]
  /\ \A u \in Users : user[u].role = "absent" => ~user[u].active
  /\ pairs \in Seq(Pair)
  /\ calls \in [Handlers -> {Idle} \cup GrantState \cup CallState]
  /\ \A i \in DOMAIN pairs : pairs[i].login \in DOMAIN pairs
  /\ \A h \in Handlers : calls[h] \in CallState => calls[h].pair \in DOMAIN pairs

SessionsInit ==
  /\ user = [u \in Users |-> [role |-> IF u \in Founders THEN "superadmin" ELSE "absent",
                              active |-> u \in Founders]]
  /\ pairs = <<>>
  /\ calls = [h \in Handlers |-> Idle]

At(h, pc) == calls[h] # Idle /\ calls[h].pc = pc

Done(h) == calls' = [calls EXCEPT ![h] = Idle]

IsAdmin(u) == user[u].active /\ user[u].role \in Admins

(***************************************************************************)
(* Pairs (routers/auth.py, auth/tokens.py)                                 *)
(***************************************************************************)

(* The pair a login or a refresh grants, and its row.                       *)
Granted(u, login) ==
  [owner |-> u, revoked |-> FALSE, denied |-> FALSE, age |-> "live",
   login |-> login, out |-> FALSE, quit |-> FALSE]

(* All the checks of login have passed, on the row as it is now; what is    *)
(* left awaits Redis to clear the counters.                                 *)
LoginRead(h, u) ==
  /\ calls[h] = Idle
  /\ user[u].active
  /\ calls' = [calls EXCEPT ![h] = [pc |-> "granting", user |-> u]]
  /\ UNCHANGED <<user, pairs>>

(* The row is not read again: a deactivation in between is not seen.        *)
LoginGrant(h) ==
  /\ At(h, "granting")
  /\ Len(pairs) < MaxPairs
  /\ pairs' = Append(pairs, Granted(calls[h].user, Len(pairs) + 1))
  /\ Done(h)
  /\ UNCHANGED user

BugRefreshRevoked(i) ==
  /\ Len(pairs) < MaxPairs
  /\ user[pairs[i].owner].active
  /\ pairs' = Append([pairs EXCEPT ![i].revoked = TRUE],
                     Granted(pairs[i].owner, pairs[i].login))
  /\ UNCHANGED <<user, calls>>

(* Without an await.  The token is spent whether or not a pair is granted.  *)
Refresh(i) ==
  /\ ~pairs[i].revoked /\ Len(pairs) < MaxPairs
  /\ LET spent == [pairs EXCEPT ![i].revoked = TRUE] IN
     pairs' = IF user[pairs[i].owner].active
              THEN Append(spent, Granted(pairs[i].owner, pairs[i].login))
              ELSE spent
  /\ UNCHANGED <<user, calls>>

(***************************************************************************)
(* Requests with an access token (deps.py)                                 *)
(***************************************************************************)

(* decode_token, then the denylist is asked.                                *)
Present(h, i) ==
  /\ calls[h] = Idle
  /\ pairs[i].age # "expired"
  /\ calls' = [calls EXCEPT ![h] =
       [pc |-> "check", pair |-> i,
        late |-> pairs[i].quit /\ pairs[i].age = "live"]]
  /\ UNCHANGED <<user, pairs>>

BugCheckDeny(h) ==
  /\ At(h, "check")
  /\ calls' = [calls EXCEPT ![h].pc = "act",
                        ![h].late = @ /\ pairs[calls[h].pair].age = "live"]
  /\ UNCHANGED <<user, pairs>>

(* EXISTS token:deny:{jti}                                                  *)
CheckDeny(h) ==
  /\ At(h, "check")
  /\ LET call == calls[h]  token == pairs[call.pair] IN
     calls' = [calls EXCEPT ![h] =
               IF token.denied THEN Idle
               ELSE [pc |-> "act", pair |-> call.pair,
                     late |-> call.late /\ token.age = "live"]]
  /\ UNCHANGED <<user, pairs>>

Caller(h) == pairs[calls[h].pair].owner

(* get_current_user from the read of the row on.                            *)
Acts(h) == At(h, "act") /\ user[Caller(h)].active

(* A 401 for an inactive caller, or a call that changes nothing.            *)
Answer(h) ==
  /\ At(h, "act")
  /\ Done(h)
  /\ UNCHANGED <<user, pairs>>

(* SETEX of the denylist key for the seconds that are left, if any.         *)
LogoutDeny(h) ==
  /\ Acts(h)
  /\ pairs' = [pairs EXCEPT ![calls[h].pair].denied = @ \/ pairs[calls[h].pair].age = "live"]
  /\ calls' = [calls EXCEPT ![h].pc = "revoke"]
  /\ UNCHANGED user

(* Every refresh token of the user, of this login or of another.            *)
LogoutRevoke(h) ==
  /\ At(h, "revoke")
  /\ pairs' = [i \in DOMAIN pairs |->
       IF pairs[i].owner # Caller(h) THEN pairs[i]
       ELSE [pairs[i] EXCEPT !.revoked = TRUE, !.out = TRUE,
                             !.quit = @ \/ (i = calls[h].pair /\ pairs[i].denied)]]
  /\ Done(h)
  /\ UNCHANGED user

(***************************************************************************)
(* Accounts (routers/users.py)                                             *)
(***************************************************************************)

(* _assert_can_manage_role *)
MayAssign(caller, role) ==
  user[caller].role = "superadmin" \/ (user[caller].role = "site_admin" /\ role = "guard")

CreateUser(h, u, role) ==
  /\ Acts(h)
  /\ user' = IF IsAdmin(Caller(h)) /\ MayAssign(Caller(h), role) /\ user[u].role = "absent"
             THEN [user EXCEPT ![u] = [role |-> role, active |-> TRUE]] ELSE user
  /\ Done(h)
  /\ UNCHANGED pairs

(* The role is checked when the request names another one; is_active is not *)
(* checked, nor whether the account is the caller's own.                    *)
PatchUser(h, u, row) ==
  /\ Acts(h)
  /\ user' = IF /\ IsAdmin(Caller(h)) /\ user[u].role # "absent"
                /\ row.role # user[u].role => MayAssign(Caller(h), row.role)
             THEN [user EXCEPT ![u] = row] ELSE user
  /\ Done(h)
  /\ UNCHANGED pairs

BugDeactivateUser(h, u) ==
  /\ At(h, "act")
  /\ user' = IF /\ user[Caller(h)].role \in Admins
                /\ u # Caller(h) /\ user[u].role # "absent"
             THEN [user EXCEPT ![u].active = FALSE] ELSE user
  /\ Done(h)
  /\ UNCHANGED pairs

(* DELETE of an account: the row stays, and so do the tokens.               *)
DeactivateUser(h, u) ==
  /\ Acts(h)
  /\ user' = IF /\ IsAdmin(Caller(h))
                /\ u # Caller(h) /\ user[u].role # "absent"
             THEN [user EXCEPT ![u].active = FALSE] ELSE user
  /\ Done(h)
  /\ UNCHANGED pairs

(***************************************************************************)
(* Time and failure                                                        *)
(***************************************************************************)

(* The access token is accepted throughout the second exp names; its key on *)
(* the denylist, set for whole seconds, ends somewhere in that second.      *)
GrowOld(i) ==
  /\ pairs[i].age # "expired"
  /\ pairs' = [pairs EXCEPT ![i].age = IF @ = "live" THEN "last" ELSE "expired",
                            ![i].denied = @ /\ pairs[i].age = "live"]
  /\ UNCHANGED <<user, calls>>

DenyLapses(i) ==
  /\ pairs[i].age = "last" /\ pairs[i].denied
  /\ pairs' = [pairs EXCEPT ![i].denied = FALSE]
  /\ UNCHANGED <<user, calls>>

(* The request dies where it awaits.                                        *)
CallDies(h) ==
  /\ calls[h] # Idle
  /\ Done(h)
  /\ UNCHANGED <<user, pairs>>

SessionsNext ==
  \/ \E h \in Handlers :
       \/ \E u \in Users : LoginRead(h, u)
       \/ LoginGrant(h)
       \/ \E i \in DOMAIN pairs : Present(h, i)
       \/ CheckDeny(h) \/ Answer(h)
       \/ LogoutDeny(h) \/ LogoutRevoke(h)
       \/ \E u \in Users :
            \/ \E role \in Roles : CreateUser(h, u, role)
            \/ \E row \in [role: Roles, active: BOOLEAN] : PatchUser(h, u, row)
            \/ DeactivateUser(h, u)
       \/ CallDies(h)
  \/ \E i \in DOMAIN pairs : Refresh(i) \/ GrowOld(i) \/ DenyLapses(i)

SessionsSpec == SessionsInit /\ [][SessionsNext]_sessions

(***************************************************************************)
(* Properties                                                              *)
(***************************************************************************)

(* refresh_token.py:12, "Single-use refresh token registry": of the pairs   *)
(* that descend from one login at most one can still be refreshed, however  *)
(* the refreshes and logouts of it interleave.                              *)
OneLivePerLogin ==
  \A i, j \in DOMAIN pairs :
    pairs[i].login = pairs[j].login /\ ~pairs[i].revoked /\ ~pairs[j].revoked
      => i = j

(* auth.py:161, "Revoke all active refresh tokens for this user": no pair   *)
(* of a login that a logout has ended can be refreshed, neither the pairs   *)
(* there were nor one a refresh put in the place of one of them.            *)
LoggedOutStaysOut ==
  \A i, j \in DOMAIN pairs :
    pairs[i].login = pairs[j].login /\ pairs[i].out => pairs[j].revoked

(* The refresh tokens that descend from a login: one at most is live, and   *)
(* none once a logout has ended it.                                         *)
TokensFollowTheirLogin == SessionsTypeOK /\ OneLivePerLogin /\ LoggedOutStaysOut

(* auth.py:153, "immediate revocation, not just 15-min expiry": a request   *)
(* that comes with an access token after the logout with it was answered is *)
(* not served, but in the last second of the token, when the denylist no    *)
(* longer names it.                                                         *)
LogoutIsImmediate ==
  \A h \in Handlers : calls[h] \in CallState /\ calls[h].pc # "check" => ~calls[h].late

(* An account that is not active is granted a pair only by a login that had *)
(* read its row before; a refresh looks at the row it grants for.           *)
InactiveIsGrantedNothing ==
  [][\A i \in DOMAIN pairs' \ DOMAIN pairs :
       \/ user[pairs'[i].owner].active
       \/ \E h \in Handlers : At(h, "granting") /\ calls[h].user = pairs'[i].owner]_sessions

(* users.py:269, "Cannot deactivate yourself": two administrators who       *)
(* deactivate each other at once do not lock everybody out, because the     *)
(* caller's row is read after the last await.  Only a PATCH of one's own    *)
(* account leaves none.                                                     *)
SomeAdminRemains ==
  [][(\E u \in Users : IsAdmin(u)) /\ ~(\E u \in Users : IsAdmin(u))' =>
       \E h \in Handlers, row \in [role: Roles, active: BOOLEAN] :
         PatchUser(h, Caller(h), row)]_sessions

(* What an account may do is what its row says when it counts: at the grant *)
(* of tokens and at the deactivation of another.                            *)
AccountsAreMinded == InactiveIsGrantedNothing /\ SomeAdminRemains
=============================================================================
