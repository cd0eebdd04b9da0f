------------------------------- MODULE Login -------------------------------
(***************************************************************************)
(* Login with progressive lockout, and the second factor of an account.    *)
(*                                                                         *)
(* All handlers run on one event loop: a handler is interrupted only where *)
(* it awaits, which is at every Redis call, and it keeps the user row it   *)
(* read before the first of them.  The counter, the lock and the pending   *)
(* TOTP secret are three Redis keys with a time to live each; the account  *)
(* is a row.  A Redis call may raise, or the process die: the handler then *)
(* stops where it is (Abort).                                              *)
(***************************************************************************)
EXTENDS Integers, FiniteSets, Sequences, Accounts

CONSTANTS
  Secrets,     \* TOTP secrets, a pool of random_base32 values
  NoSecret,
  Thresholds,  \* failures from which each lock applies, mildest first
  MaxFails     \* bound on the failures of an account in one window

VARIABLES
  account,   \* users: mfa_secret, totp_enabled (is_active is in Sessions)
  failures,  \* auth:fail:{user}, 0 when there is no key
  windowed,  \* whether auth:fail:{user} has its time to live
  lock,      \* auth:lock:{user}: which threshold set it, 0 when no key
  setup,     \* totp:setup:{user}
  req,       \* the requests in progress
  (* observations *)
  excused,   \* keys of the user that are not as the counter says, for a cause
  raced      \* a disabling came between a confirmation's read and its commit

vars == <<account, failures, windowed, lock, setup, req, excused, raced>>
counters == <<failures, windowed, lock, excused>>

Levels == 1 .. Len(Thresholds)

Account == [secret: Secrets \cup {NoSecret}, totp: BOOLEAN]

Pcs == {"check", "count", "window", "lock", "clear"}

(* n: the counter after this request's INCR.  late (an observation): a lock *)
(* was in force when the request came, and nothing has lifted it since.     *)
LoginState == [pc: Pcs, user: Users, ok: BOOLEAN, n: Nat, late: BOOLEAN]

(* on, same: the row the request read had TOTP on, and had this very secret; *)
(* code: the secret the six digits were made from.                          *)
ConfirmState == [pc: {"fetch", "commit", "forget"}, user: Users, on: BOOLEAN,
                 same: BOOLEAN, code: Secrets]

ASSUME LoginAssumption ==
  /\ NoSecret \notin Secrets
  /\ Thresholds \in Seq(Nat \ {0})
  /\ \A i, j \in Levels : i < j => Thresholds[i] < Thresholds[j]
  /\ MaxFails \in Nat

TypeOK ==
  /\ account \in [Users -> Account]
  /\ failures \in [Users -> Nat]
  /\ windowed \in [Users -> BOOLEAN]
  /\ lock \in [Users -> 0 .. Len(Thresholds)]
  /\ setup \in [Users -> Secrets \cup {NoSecret}]
  /\ req \in [Handlers -> {Idle} \cup LoginState \cup ConfirmState]
  /\ excused \in [Users -> SUBSET {"window", "lock"}]
  /\ raced \in [Users -> BOOLEAN]

Init ==
  /\ account = [u \in Users |-> [secret |-> NoSecret, totp |-> FALSE]]
  /\ failures = [u \in Users |-> 0]
  /\ windowed = [u \in Users |-> FALSE]
  /\ lock = [u \in Users |-> 0]
  /\ setup = [u \in Users |-> NoSecret]
  /\ req = [h \in Handlers |-> Idle]
  /\ excused = [u \in Users |-> {}]
  /\ raced = [u \in Users |-> FALSE]

(* _THRESHOLDS: the most severe lock a count calls for *)
LevelOf(n) == Cardinality({i \in Levels : n >= Thresholds[i]})

Busy(h, pc) == req[h] # Idle /\ req[h].pc = pc

Goto(h, pc) == req' = [req EXCEPT ![h].pc = pc]

(* Once u's lock is gone, no request of u is late any more. *)
Forgiven(u) == [h \in Handlers |->
  IF req[h] \in LoginState /\ req[h].user = u
  THEN [req[h] EXCEPT !.late = FALSE] ELSE req[h]]

(***************************************************************************)
(* Login (routers/auth.py, auth/lockout.py)                                *)
(***************************************************************************)

(* The checks of login after the lock, on the row read before it.  right:   *)
(* the password is the user's and the user active; code: as in ConfirmState. *)
Accepts(row, right, code) ==
  /\ right
  /\ row.totp /\ row.secret # NoSecret => code = row.secret

(* Failures of u that are on their way to the counter, for the bound.        *)
Pending(u) == Cardinality({h \in Handlers :
  /\ req[h] \in LoginState /\ req[h].user = u /\ ~req[h].ok
  /\ req[h].pc \in {"check", "count"}})

(* The row is read and the password hashed, then is_locked awaits.          *)
LoginStart(h, u, right, code) ==
  LET ok == Accepts(account[u], right, code) IN
  /\ req[h] = Idle
  /\ ok \/ failures[u] + Pending(u) < MaxFails
  /\ req' = [req EXCEPT ![h] = [pc |-> "check", user |-> u, ok |-> ok, n |-> 0,
                                late |-> lock[u] # 0]]
  /\ UNCHANGED <<account, counters, setup, raced>>

BugCheckLock(h) ==
  /\ Busy(h, "check")
  /\ Goto(h, IF req[h].ok THEN "clear" ELSE "count")
  /\ UNCHANGED <<account, counters, setup, raced>>

(* is_locked: an EXISTS.  A locked account answers like a wrong password.   *)
CheckLock(h) ==
  /\ Busy(h, "check")
  /\ IF lock[req[h].user] # 0 THEN req' = [req EXCEPT ![h] = Idle]
     ELSE Goto(h, IF req[h].ok THEN "clear" ELSE "count")
  /\ UNCHANGED <<account, counters, setup, raced>>

BugLeaveAt(r, n) ==
  IF LevelOf(n - 1) > 0 THEN [r EXCEPT !.pc = "lock", !.n = n] ELSE Idle

(* on_login_failure from its loop on: a lock if the count calls for one.    *)
LeaveAt(r, n) ==
  IF LevelOf(n) > 0 THEN [r EXCEPT !.pc = "lock", !.n = n] ELSE Idle

(* INCR; only the first failure goes on to EXPIRE.                          *)
CountFailure(h) ==
  LET u == req[h].user  n == failures[u] + 1 IN
  /\ Busy(h, "count")
  /\ failures' = [failures EXCEPT ![u] = n]
  /\ req' = [req EXCEPT ![h] = IF n = 1 THEN [@ EXCEPT !.pc = "window", !.n = n]
                               ELSE LeaveAt(@, n)]
  /\ UNCHANGED <<account, windowed, lock, excused, setup, raced>>

(* EXPIRE, which does nothing when a login has deleted the counter since.   *)
SetWindow(h) ==
  LET u == req[h].user IN
  /\ Busy(h, "window")
  /\ windowed' = [windowed EXCEPT ![u] = failures[u] > 0]
  /\ excused' = [excused EXCEPT ![u] = @ \ {"window"}]
  /\ req' = [req EXCEPT ![h] = LeaveAt(@, @.n)]
  /\ UNCHANGED <<account, failures, lock, setup, raced>>

(* SETEX of the lock, whatever lock is there.  A slower request may put a   *)
(* milder lock in the place of the one the counter calls for.               *)
SetLock(h) ==
  LET u == req[h].user  l == LevelOf(req[h].n) IN
  /\ Busy(h, "lock")
  /\ lock' = [lock EXCEPT ![u] = l]
  /\ excused' = [excused EXCEPT ![u] =
                   IF l >= LevelOf(failures[u]) THEN @ \ {"lock"}
                   ELSE IF l < lock[u] THEN @ \cup {"lock"} ELSE @]
  /\ req' = [req EXCEPT ![h] = Idle]
  /\ UNCHANGED <<account, failures, windowed, setup, raced>>

(* on_login_success deletes both keys; the pair of tokens follows (Sessions). *)
ClearCounters(h) ==
  LET u == req[h].user IN
  /\ Busy(h, "clear")
  /\ failures' = [failures EXCEPT ![u] = 0]
  /\ windowed' = [windowed EXCEPT ![u] = FALSE]
  /\ lock' = [lock EXCEPT ![u] = 0]
  /\ excused' = [excused EXCEPT ![u] = {}]
  /\ req' = [Forgiven(u) EXCEPT ![h] = Idle]
  /\ UNCHANGED <<account, setup, raced>>

(***************************************************************************)
(* The second factor (routers/mfa.py)                                      *)
(***************************************************************************)

(* A new secret, pending for ten minutes.                                   *)
MfaSetup(u, s) ==
  /\ s \notin {account[u].secret, setup[u]}
  /\ \A h \in Handlers : req[h] \in ConfirmState => req[h].code # s
  /\ setup' = [setup EXCEPT ![u] = s]
  /\ UNCHANGED <<account, counters, req, raced>>

ConfirmStart(h, u, code) ==
  /\ req[h] = Idle
  /\ req' = [req EXCEPT ![h] = [pc |-> "fetch", user |-> u, code |-> code,
                                on |-> account[u].totp,
                                same |-> account[u].secret = code]]
  /\ UNCHANGED <<account, counters, setup, raced>>

ConfirmFetch(h) ==
  /\ Busy(h, "fetch")
  /\ req' = [req EXCEPT ![h] = IF setup[@.user] = @.code
                               THEN [@ EXCEPT !.pc = "commit"] ELSE Idle]
  /\ UNCHANGED <<account, counters, setup, raced>>

(* The UPDATE names only the columns that differ from the row the request   *)
(* holds: totp_enabled if that row said it was off, mfa_secret if the secret *)
(* is another.                                                              *)
ConfirmCommit(h) ==
  LET u == req[h].user IN
  /\ Busy(h, "commit")
  /\ account' = [account EXCEPT
       ![u].secret = IF req[h].same THEN @ ELSE req[h].code,
       ![u].totp = IF req[h].on THEN @ ELSE TRUE]
  /\ Goto(h, "forget")
  /\ UNCHANGED <<counters, setup, raced>>

ConfirmForget(h) ==
  /\ Busy(h, "forget")
  /\ setup' = [setup EXCEPT ![req[h].user] = NoSecret]
  /\ req' = [req EXCEPT ![h] = Idle]
  /\ UNCHANGED <<account, counters, raced>>

BugMfaDisable(u) ==
  /\ account[u].totp /\ account[u].secret # NoSecret
  /\ account' = [account EXCEPT ![u].secret = NoSecret]
  /\ UNCHANGED <<counters, setup, req, raced>>

(* Without an await: read, checked and written in one go.                   *)
MfaDisable(u) ==
  /\ account[u].totp /\ account[u].secret # NoSecret
  /\ account' = [account EXCEPT ![u].secret = NoSecret, ![u].totp = FALSE]
  /\ raced' = [raced EXCEPT ![u] = @ \/ \E h \in Handlers :
       /\ req[h] \in ConfirmState /\ req[h].user = u
       /\ req[h].on \/ req[h].same
       /\ req[h].pc \in {"fetch", "commit"}]
  /\ UNCHANGED <<counters, setup, req>>

(***************************************************************************)
(* Time and failure                                                        *)
(***************************************************************************)

(* The time to live of the lock, shorter than the counter's.                *)
LockLapses(u) ==
  /\ lock[u] # 0
  /\ lock' = [lock EXCEPT ![u] = 0]
  /\ excused' = [excused EXCEPT ![u] = @ \cup {"lock"}]
  /\ req' = Forgiven(u)
  /\ UNCHANGED <<account, failures, windowed, setup, raced>>

WindowLapses(u) ==
  /\ windowed[u]
  /\ failures' = [failures EXCEPT ![u] = 0]
  /\ windowed' = [windowed EXCEPT ![u] = FALSE]
  /\ excused' = [excused EXCEPT ![u] = {}]
  /\ UNCHANGED <<account, lock, setup, req, raced>>

SetupLapses(u) ==
  /\ setup[u] # NoSecret
  /\ setup' = [setup EXCEPT ![u] = NoSecret]
  /\ UNCHANGED <<account, counters, req, raced>>

(* The request dies where it awaits.                                        *)
Abort(h) ==
  /\ req[h] # Idle
  /\ req' = [req EXCEPT ![h] = Idle]
  /\ excused' = IF req[h] \in LoginState
                THEN [excused EXCEPT ![req[h].user] = @
                       \cup (IF req[h].pc = "window" THEN {"window"} ELSE {})
                       \cup (IF LevelOf(req[h].n) > 0 THEN {"lock"} ELSE {})]
                ELSE excused
  /\ UNCHANGED <<account, failures, windowed, lock, setup, raced>>

(* What a request does next by itself.                                      *)
Proceed(h) ==
  \/ CheckLock(h) \/ CountFailure(h) \/ SetWindow(h) \/ SetLock(h)
  \/ ClearCounters(h)
  \/ ConfirmFetch(h) \/ ConfirmCommit(h) \/ ConfirmForget(h)

Next ==
  \/ \E h \in Handlers :
       \/ \E u \in Users, right \in BOOLEAN, code \in Secrets :
            LoginStart(h, u, right, code)
       \/ \E u \in Users, code \in Secrets : ConfirmStart(h, u, code)
       \/ Proceed(h)
       \/ Abort(h)
  \/ \E u \in Users :
       \/ \E s \in Secrets : MfaSetup(u, s)
       \/ MfaDisable(u)
       \/ LockLapses(u) \/ WindowLapses(u) \/ SetupLapses(u)

Spec == Init /\ [][Next]_vars

(***************************************************************************)
(* Properties                                                              *)
(***************************************************************************)

(* lockout.py:3, "5 failures -> 5-min lock, 10 -> 30-min, 20 -> 24-h": the  *)
(* lock is at least what the counter calls for, or a request is on its way  *)
(* to set it, or it has run out, its request died, or a slower request with *)
(* a smaller count has put its own in its place.                            *)
LockMatchesCount ==
  \A u \in Users :
    \/ lock[u] >= LevelOf(failures[u])
    \/ "lock" \in excused[u]
    \/ \E h \in Handlers : /\ req[h] \in LoginState /\ req[h].user = u
                            /\ LevelOf(req[h].n) >= LevelOf(failures[u])

(* lockout.py:29, "24-h window for fail counter": a counter without a time  *)
(* to live is on its way to one, unless the request that began it died      *)
(* between INCR and EXPIRE.  Then nothing but a login ends it.              *)
CounterIsWindowed ==
  \A u \in Users : failures[u] > 0 /\ ~windowed[u] =>
    \/ "window" \in excused[u]
    \/ \E h \in Handlers : Busy(h, "window") /\ req[h].user = u

(* The three keys of a user fit each other, whatever requests overlap.      *)
LockoutHolds == TypeOK /\ LockMatchesCount /\ CounterIsWindowed

(* A login that comes while a lock is in force does not succeed, unless the *)
(* lock is lifted before it is looked at, by time or by another login that  *)
(* was past the check when the lock was set.                                *)
NoLoginPastLock ==
  \A h \in Handlers : Busy(h, "clear") => ~req[h].late

(* mfa.py:48, "enable MFA on the account": an account with a secret has it  *)
(* enabled and the other way round, unless a disabling came between the     *)
(* read and the commit of a confirmation: the columns the confirmation does *)
(* not write then stay as the disabling left them.                          *)
SecretMeansEnabled ==
  \A u \in Users : raced[u] \/ (account[u].totp <=> account[u].secret # NoSecret)
=============================================================================
