-------------------------- MODULE Accounts_proofs --------------------------
(***************************************************************************)
(* What Login and Sessions promise, for any accounts and requests.         *)
(*                                                                         *)
(* Login: of the three keys and the row none is read and written in one    *)
(* step, so what a request has in hand must be tied to them: Inv adds      *)
(* LoginsAreSound and ConfirmsAreFresh.                                    *)
(*                                                                         *)
(* Sessions: SessionsInv adds two facts to the properties.  The pairs of   *)
(* one login have one owner, so a logout reaches all of them; and while an *)
(* access token lives a logout with it stands on the denylist.             *)
(***************************************************************************)
EXTENDS Login, Sessions, FiniteSetTheorems, TLAPS

(* What a login request carries at each step: a count only after its INCR,  *)
(* one that calls for a lock before SETEX; and it is late only before the   *)
(* lock it came under is looked at.                                         *)
LoginsAreSound ==
  \A h \in Handlers : req[h] \in LoginState =>
    /\ req[h].pc \in {"check", "count", "clear"} => req[h].n = 0
    /\ req[h].pc = "lock" => LevelOf(req[h].n) > 0
    /\ req[h].late => req[h].pc = "check" /\ lock[req[h].user] # 0

(* The columns a confirmation will not write are as it has read them, if no *)
(* disabling came in between.                                               *)
ConfirmsAreFresh ==
  \A h \in Handlers :
    req[h] \in ConfirmState /\ req[h].pc \in {"fetch", "commit"} /\ ~raced[req[h].user] =>
      /\ req[h].on => account[req[h].user].totp
      /\ req[h].same => account[req[h].user].secret # NoSecret

Inv ==
  /\ TypeOK /\ LoginsAreSound /\ ConfirmsAreFresh
  /\ LockMatchesCount /\ CounterIsWindowed /\ SecretMeansEnabled

USE LoginAssumption

(***************************************************************************)
(* Levels and requests                                                     *)
(***************************************************************************)

(* A count calls for no lock or for one of the list.                        *)
LEMMA LevelType ==
  ASSUME NEW n \in Nat
  PROVE  LevelOf(n) \in 0 .. Len(Thresholds)
<1> DEFINE reached == {i \in Levels : n >= Thresholds[i]}
<1>1. Len(Thresholds) \in Nat
  OBVIOUS
<1>2. IsFiniteSet(Levels) /\ Cardinality(Levels) = Len(Thresholds)
  <2>1. 1 \in Int /\ Len(Thresholds) \in Int
    BY <1>1
  <2>2. /\ IsFiniteSet(1 .. Len(Thresholds))
        /\ Cardinality(1 .. Len(Thresholds)) =
             IF 1 > Len(Thresholds) THEN 0 ELSE Len(Thresholds) - 1 + 1
    BY <2>1, FS_Interval
  <2>3. Len(Thresholds) = IF 1 > Len(Thresholds) THEN 0 ELSE Len(Thresholds) - 1 + 1
    BY <1>1
  <2>4. QED
    BY <2>2, <2>3 DEF Levels
<1>3. IsFiniteSet(reached) /\ Cardinality(reached) <= Len(Thresholds)
  BY <1>2, FS_Subset
<1>4. Cardinality(reached) \in Nat
  BY <1>3, FS_CardinalityType
<1>5. QED
  BY <1>1, <1>3, <1>4 DEF LevelOf

(* No failure calls for no lock.                                            *)
LEMMA NoFailureNoLock == LevelOf(0) = 0
<1>1. \A i \in Levels : Thresholds[i] \in Nat \ {0}
  BY DEF Levels
<1>2. {i \in Levels : 0 >= Thresholds[i]} = {}
  BY <1>1
<1>3. QED
  BY <1>2, FS_EmptySet DEF LevelOf

(* A request is idle, a login or a confirmation, as its pc says.            *)
LEMMA Kinds ==
  ASSUME Inv, NEW h \in Handlers
  PROVE  /\ req[h] \in {Idle} \cup LoginState \cup ConfirmState
         /\ Idle \notin LoginState /\ Idle \notin ConfirmState
         /\ \A r \in LoginState : r \notin ConfirmState
         /\ \A pc \in Pcs : Busy(h, pc) => req[h] \in LoginState /\ req[h].pc = pc
         /\ \A pc \in {"fetch", "commit", "forget"} : Busy(h, pc) =>
              req[h] \in ConfirmState /\ req[h].pc = pc
<1>1. req[h] \in {Idle} \cup LoginState \cup ConfirmState
  BY DEF Inv, TypeOK
<1>2. /\ \A r \in LoginState : r.pc \in Pcs
      /\ \A r \in ConfirmState : r.pc \in {"fetch", "commit", "forget"}
      /\ Idle.pc = "idle"
  BY DEF LoginState, ConfirmState, Idle
<1>3. QED
  BY <1>1, <1>2 DEF Busy, Pcs

(* The fields of a login, and of one that has moved on.                     *)
LEMMA LoginParts ==
  ASSUME NEW r \in LoginState
  PROVE  r.pc \in Pcs /\ r.user \in Users /\ r.ok \in BOOLEAN /\ r.n \in Nat /\ r.late \in BOOLEAN
  BY DEF LoginState

(* A request that moves on changes its step only.                           *)
LEMMA Moved ==
  ASSUME NEW r \in LoginState, NEW pc \in Pcs, NEW q, q = [r EXCEPT !.pc = pc]
  PROVE  q \in LoginState /\ q.pc = pc /\ q.user = r.user /\ q.n = r.n /\ q.late = r.late
  BY DEF LoginState

(* What a confirmation holds.                                               *)
LEMMA ConfirmParts ==
  ASSUME NEW r \in ConfirmState
  PROVE  /\ r.user \in Users /\ r.on \in BOOLEAN /\ r.same \in BOOLEAN /\ r.code \in Secrets
         /\ r.pc \in {"fetch", "commit", "forget"}
  BY DEF ConfirmState

(* A confirmation that moves on changes its step only.                      *)
LEMMA ConfirmMoved ==
  ASSUME NEW r \in ConfirmState, NEW pc \in {"fetch", "commit", "forget"},
         NEW q, q = [r EXCEPT !.pc = pc]
  PROVE  /\ q \in ConfirmState /\ q.pc = pc /\ q.user = r.user /\ q.on = r.on
         /\ q.same = r.same /\ q.code = r.code
  BY DEF ConfirmState

(***************************************************************************)
(* Steps that leave counter, lock and row alone                            *)
(***************************************************************************)

(* A request is replaced that had no lock or window to set.                 *)
LEMMA RequestStep ==
  ASSUME Inv, NEW h \in Handlers, NEW r \in {Idle} \cup LoginState \cup ConfirmState,
         req' = [req EXCEPT ![h] = r], UNCHANGED <<account, counters, raced>>,
         setup' \in [Users -> Secrets \cup {NoSecret}],
         req[h] \in LoginState => req[h].pc # "window" /\ LevelOf(req[h].n) = 0,
         r \in LoginState =>
           /\ r.pc \in {"check", "count", "clear"} /\ r.n = 0
           /\ r.late => r.pc = "check" /\ lock[r.user] # 0,
         r \in ConfirmState /\ r.pc \in {"fetch", "commit"} /\ ~raced[r.user] =>
           /\ r.on => account[r.user].totp
           /\ r.same => account[r.user].secret # NoSecret
  PROVE  Inv'
<1>1. /\ req'[h] = r /\ \A g \in Handlers : g # h => req'[g] = req[g]
      /\ req' \in [Handlers -> {Idle} \cup LoginState \cup ConfirmState]
  BY DEF Inv, TypeOK
<1>2. /\ UNCHANGED <<failures, windowed, lock, excused>>
      /\ failures \in [Users -> Nat] /\ lock \in [Users -> 0 .. Len(Thresholds)]
      /\ Len(Thresholds) \in Nat
  BY DEF counters, Inv, TypeOK
<1>3. TypeOK'
  BY <1>1, <1>2 DEF Inv, TypeOK
<1>4. LoginsAreSound'
  BY <1>1, <1>2 DEF Inv, LoginsAreSound
<1>5. ConfirmsAreFresh'
  BY <1>1, <1>2 DEF Inv, ConfirmsAreFresh
<1>6. LockMatchesCount'
  <2> SUFFICES ASSUME NEW u \in Users,
                      ~(lock[u] >= LevelOf(failures[u])), "lock" \notin excused[u]
               PROVE  \E g \in Handlers : /\ req'[g] \in LoginState /\ req'[g].user = u
                                          /\ LevelOf(req'[g].n) >= LevelOf(failures[u])
    BY <1>2 DEF LockMatchesCount
  <2>1. PICK g \in Handlers : /\ req[g] \in LoginState /\ req[g].user = u
                              /\ LevelOf(req[g].n) >= LevelOf(failures[u])
    BY DEF Inv, LockMatchesCount
  <2>a. failures[u] \in Nat /\ lock[u] \in 0 .. Len(Thresholds)
    BY <1>2
  <2>b. LevelOf(failures[u]) \in 0 .. Len(Thresholds)
    BY <2>a, LevelType
  <2>2. LevelOf(failures[u]) > 0
    BY <1>2, <2>a, <2>b
  <2>3. g # h
    <3> SUFFICES ASSUME g = h PROVE FALSE
      OBVIOUS
    <3>1. LevelOf(req[h].n) = 0
      BY <2>1
    <3>2. QED
      BY <2>1, <2>2, <2>b, <3>1, <1>2
  <2>4. QED
    BY <1>1, <2>1, <2>3
<1>7. CounterIsWindowed'
  BY <1>1, <1>2, Kinds DEF Inv, CounterIsWindowed, Busy, Pcs
<1>8. SecretMeansEnabled'
  BY DEF Inv, SecretMeansEnabled
<1>9. QED
  BY <1>3, <1>4, <1>5, <1>6, <1>7, <1>8 DEF Inv

(* At first no request is in progress, and no key set.                      *)
LEMMA InitInv == Init => Inv
<1> SUFFICES ASSUME Init PROVE Inv
  OBVIOUS
<1>1. Len(Thresholds) \in Nat
  OBVIOUS
<1>2. \A h \in Handlers : req[h] = Idle /\ Idle \notin LoginState /\ Idle \notin ConfirmState
  <2>1. Idle.pc = "idle"
    BY DEF Idle
  <2>2. \A r \in LoginState \cup ConfirmState : r.pc # "idle"
    BY DEF LoginState, ConfirmState, Pcs
  <2>3. QED
    BY <2>1, <2>2 DEF Init
<1>3. TypeOK
  BY <1>1 DEF Init, TypeOK, Account
<1>4. LockMatchesCount
  BY NoFailureNoLock DEF Init, LockMatchesCount
<1>5. LoginsAreSound /\ ConfirmsAreFresh
  BY <1>2 DEF LoginsAreSound, ConfirmsAreFresh
<1>6. CounterIsWindowed /\ SecretMeansEnabled
  BY DEF Init, CounterIsWindowed, SecretMeansEnabled
<1>7. QED
  BY <1>3, <1>4, <1>5, <1>6 DEF Inv

(* A login that begins is late if there is a lock now.                      *)
LEMMA LoginStartStep ==
  ASSUME Inv, NEW h \in Handlers, NEW u \in Users, NEW right \in BOOLEAN,
         NEW code \in Secrets, LoginStart(h, u, right, code)
  PROVE  Inv'
<1> DEFINE ok == Accepts(account[u], right, code)
           late == lock[u] # 0
           r == [pc |-> "check", user |-> u, ok |-> ok, n |-> 0, late |-> late]
<1>1. ok \in BOOLEAN /\ late \in BOOLEAN
  BY DEF Accepts
<1>2. req[h] = Idle /\ req' = [req EXCEPT ![h] = r] /\ UNCHANGED <<account, counters, setup, raced>>
  BY DEF LoginStart
<1>3. late => lock[u] # 0
  OBVIOUS
<1> HIDE DEF ok, late
<1>4. r \in LoginState /\ r.pc = "check" /\ r.n = 0 /\ r.late = late /\ r.user = u
  BY <1>1 DEF LoginState, Pcs
<1> HIDE DEF r
<1>5. setup' \in [Users -> Secrets \cup {NoSecret}]
  BY <1>2 DEF Inv, TypeOK
<1>6. r \notin ConfirmState /\ req[h] \notin LoginState
  BY <1>2, <1>4, Kinds
<1>7. QED
  BY <1>2, <1>3, <1>4, <1>5, <1>6, RequestStep

(* A late login is turned away here.                                        *)
LEMMA CheckLockStep ==
  ASSUME Inv, NEW h \in Handlers, CheckLock(h)
  PROVE  Inv'
<1> DEFINE r == IF lock[req[h].user] # 0 THEN Idle
                ELSE [req[h] EXCEPT !.pc = IF req[h].ok THEN "clear" ELSE "count"]
<1>1. req[h] \in LoginState /\ req[h].pc = "check"
  BY Kinds DEF CheckLock, Pcs
<1>2. req[h].n = 0 /\ (req[h].late => lock[req[h].user] # 0)
  BY <1>1 DEF Inv, LoginsAreSound
<1>3. req' = [req EXCEPT ![h] = r] /\ UNCHANGED <<account, counters, setup, raced>>
  BY DEF CheckLock, Goto
<1>4. r # Idle => lock[req[h].user] = 0 /\ r \in LoginState /\ r.pc \in {"clear", "count"}
                  /\ r.n = 0 /\ r.late = req[h].late
  <2>1. CASE lock[req[h].user] # 0
    BY <2>1
  <2>2. CASE lock[req[h].user] = 0
    <3>1. r = [req[h] EXCEPT !.pc = IF req[h].ok THEN "clear" ELSE "count"]
      BY <2>2
    <3> HIDE DEF r
    <3>2. (IF req[h].ok THEN "clear" ELSE "count") \in Pcs
      BY DEF Pcs
    <3>3. QED
      BY <1>1, <1>2, <2>2, <3>1, <3>2, Moved
  <2>3. QED
    BY <2>1, <2>2
<1> HIDE DEF r
<1>5. setup' \in [Users -> Secrets \cup {NoSecret}]
  BY <1>3 DEF Inv, TypeOK
<1>6. r \in {Idle} \cup LoginState /\ r \notin ConfirmState
  BY <1>4, Kinds
<1>7. r \in LoginState => r # Idle
  BY Kinds
<1>8. QED
  BY <1>1, <1>2, <1>3, <1>4, <1>5, <1>6, <1>7, NoFailureNoLock, RequestStep

(* A confirmation begins with the row as it is.                             *)
LEMMA ConfirmStartStep ==
  ASSUME Inv, NEW h \in Handlers, NEW u \in Users, NEW code \in Secrets,
         ConfirmStart(h, u, code)
  PROVE  Inv'
<1> DEFINE on == account[u].totp
           same == account[u].secret = code
           r == [pc |-> "fetch", user |-> u, code |-> code, on |-> on, same |-> same]
<1>1. on \in BOOLEAN /\ same \in BOOLEAN
  BY DEF Inv, TypeOK, Account
<1>2. req[h] = Idle /\ req' = [req EXCEPT ![h] = r] /\ UNCHANGED <<account, counters, setup, raced>>
  BY DEF ConfirmStart
<1>3. (on => account[u].totp) /\ (same => account[u].secret # NoSecret)
  OBVIOUS
<1> HIDE DEF on, same
<1>4. r \in ConfirmState /\ r.user = u /\ r.on = on /\ r.same = same
  BY <1>1 DEF ConfirmState
<1> HIDE DEF r
<1>5. setup' \in [Users -> Secrets \cup {NoSecret}]
  BY <1>2 DEF Inv, TypeOK
<1>6. r \notin LoginState /\ req[h] \notin LoginState
  BY <1>2, <1>4, Kinds
<1>7. QED
  BY <1>2, <1>3, <1>4, <1>5, <1>6, RequestStep

(* A confirmation goes on with what it has read.                            *)
LEMMA ConfirmFetchStep ==
  ASSUME Inv, NEW h \in Handlers, ConfirmFetch(h)
  PROVE  Inv'
<1> DEFINE r == IF setup[req[h].user] = req[h].code
                THEN [req[h] EXCEPT !.pc = "commit"] ELSE Idle
<1>1. req[h] \in ConfirmState /\ req[h].pc = "fetch"
  BY Kinds DEF ConfirmFetch
<1>2. req' = [req EXCEPT ![h] = r] /\ UNCHANGED <<account, counters, setup, raced>>
  BY DEF ConfirmFetch, Inv, TypeOK
<1>3. r # Idle => /\ r \in ConfirmState /\ r.user = req[h].user
                  /\ r.on = req[h].on /\ r.same = req[h].same
  BY <1>1, ConfirmMoved
<1>4. r \in {Idle} \cup ConfirmState
  BY <1>3
<1> HIDE DEF r
<1>5. setup' \in [Users -> Secrets \cup {NoSecret}]
  BY <1>2 DEF Inv, TypeOK
<1>6. r \notin LoginState /\ req[h] \notin LoginState /\ (r \in ConfirmState => r # Idle)
  BY <1>1, <1>4, Kinds
<1>7. ~raced[req[h].user] => /\ req[h].on => account[req[h].user].totp
                             /\ req[h].same => account[req[h].user].secret # NoSecret
  BY <1>1 DEF Inv, ConfirmsAreFresh
<1>8. QED
  BY <1>2, <1>3, <1>4, <1>5, <1>6, <1>7, RequestStep

(* A confirmation ends, and forgets the secret that was pending.            *)
LEMMA ConfirmForgetStep ==
  ASSUME Inv, NEW h \in Handlers, ConfirmForget(h)
  PROVE  Inv'
<1>1. req[h] \in ConfirmState
  BY Kinds DEF ConfirmForget
<1>2. req' = [req EXCEPT ![h] = Idle] /\ UNCHANGED <<account, counters, raced>>
  BY DEF ConfirmForget
<1>3. setup' \in [Users -> Secrets \cup {NoSecret}]
  BY DEF ConfirmForget, Inv, TypeOK
<1>4. Idle \notin LoginState /\ Idle \notin ConfirmState /\ req[h] \notin LoginState
  BY <1>1, Kinds
<1>5. QED
  BY <1>2, <1>3, <1>4, RequestStep

(* Steps on the pending secret alone.                                       *)
LEMMA SetupStep ==
  ASSUME Inv, UNCHANGED <<account, counters, req, raced>>,
         setup' \in [Users -> Secrets \cup {NoSecret}]
  PROVE  Inv'
<1>1. UNCHANGED <<account, failures, windowed, lock, excused, req, raced>>
  BY DEF counters
<1>2. TypeOK'
  BY <1>1 DEF Inv, TypeOK
<1>3. LoginsAreSound' /\ ConfirmsAreFresh' /\ SecretMeansEnabled'
  BY <1>1 DEF Inv, LoginsAreSound, ConfirmsAreFresh, SecretMeansEnabled
<1>4. LockMatchesCount' /\ CounterIsWindowed'
  BY <1>1 DEF Inv, LockMatchesCount, CounterIsWindowed, Busy
<1>5. QED
  BY <1>2, <1>3, <1>4 DEF Inv

(***************************************************************************)
(* Steps on the row                                                        *)
(***************************************************************************)

(* Steps that leave the keys and the logins alone keep what is said of them. *)
LEMMA KeysStay ==
  ASSUME Inv, UNCHANGED counters,
         req' \in [Handlers -> {Idle} \cup LoginState \cup ConfirmState],
         \A g \in Handlers : req[g] \in LoginState => req'[g] = req[g],
         \A g \in Handlers : req'[g] \in LoginState => req'[g] = req[g]
  PROVE  LoginsAreSound' /\ LockMatchesCount' /\ CounterIsWindowed'
<1>1. UNCHANGED <<failures, windowed, lock, excused>>
  BY DEF counters
<1>2. LoginsAreSound'
  BY <1>1 DEF Inv, LoginsAreSound
<1>3. LockMatchesCount'
  BY <1>1 DEF Inv, LockMatchesCount
<1>4. CounterIsWindowed'
  BY <1>1, Kinds DEF Inv, CounterIsWindowed, Busy, Pcs
<1>5. QED
  BY <1>2, <1>3, <1>4

(* The columns that are written are set; the others were.                   *)
LEMMA ConfirmCommitStep ==
  ASSUME Inv, NEW h \in Handlers, ConfirmCommit(h)
  PROVE  Inv'
<1> DEFINE u == req[h].user
           row == [account[u] EXCEPT
                     !.secret = IF req[h].same THEN account[u].secret ELSE req[h].code,
                     !.totp = IF req[h].on THEN account[u].totp ELSE TRUE]
           r == [req[h] EXCEPT !.pc = "forget"]
<1>1. req[h] \in ConfirmState /\ req[h].pc = "commit"
  BY Kinds DEF ConfirmCommit
<1>2. req[h].user \in Users /\ req[h].code \in Secrets
  BY <1>1, ConfirmParts
<1>3. /\ r \in ConfirmState /\ r.pc = "forget" /\ r \notin LoginState /\ req[h] \notin LoginState
  BY <1>1, ConfirmMoved, Kinds
<1>4. /\ UNCHANGED <<counters, setup, raced>>
      /\ req' = [req EXCEPT ![h] = r]
      /\ account' = [account EXCEPT ![u] = row]
  BY <1>2 DEF ConfirmCommit, Goto, Inv, TypeOK, Account
<1>5. /\ row \in Account
      /\ row.secret = IF req[h].same THEN account[u].secret ELSE req[h].code
      /\ row.totp = IF req[h].on THEN account[u].totp ELSE TRUE
  BY <1>2, LoginAssumption DEF Inv, TypeOK, Account
<1>6. ~raced[u] => /\ req[h].on => account[u].totp
                   /\ req[h].same => account[u].secret # NoSecret
  BY <1>1 DEF Inv, ConfirmsAreFresh
<1>7. ~raced[u] => row.totp /\ row.secret # NoSecret
  BY <1>2, <1>5, <1>6
<1> HIDE DEF r, row
<1>8. /\ req'[h] = r /\ \A g \in Handlers : g # h => req'[g] = req[g]
      /\ req' \in [Handlers -> {Idle} \cup LoginState \cup ConfirmState]
      /\ account'[u] = row /\ \A w \in Users : w # u => account'[w] = account[w]
  BY <1>2, <1>3, <1>4 DEF Inv, TypeOK
<1>9. TypeOK'
  BY <1>4, <1>5, <1>8 DEF counters, Inv, TypeOK
<1>10. LoginsAreSound' /\ LockMatchesCount' /\ CounterIsWindowed'
  BY <1>3, <1>4, <1>8, KeysStay
<1>11. ConfirmsAreFresh'
  <2> SUFFICES ASSUME NEW g \in Handlers, req'[g] \in ConfirmState,
                      req'[g].pc \in {"fetch", "commit"}, ~raced[req'[g].user]
               PROVE  /\ req'[g].on => account'[req'[g].user].totp
                      /\ req'[g].same => account'[req'[g].user].secret # NoSecret
    BY <1>4 DEF ConfirmsAreFresh
  <2>1. req'[g] = req[g]
    BY <1>3, <1>8
  <2>2. /\ req'[g].on => account[req'[g].user].totp
        /\ req'[g].same => account[req'[g].user].secret # NoSecret
    BY <2>1 DEF Inv, ConfirmsAreFresh
  <2>3. req'[g].user \in Users
    BY ConfirmParts
  <2>4. QED
    BY <1>7, <1>8, <2>2, <2>3
<1>12. SecretMeansEnabled'
  BY <1>4, <1>7, <1>8 DEF Inv, SecretMeansEnabled
<1>13. QED
  BY <1>9, <1>10, <1>11, <1>12 DEF Inv

(* Both columns are cleared; a confirmation this makes stale is marked.     *)
LEMMA MfaDisableStep ==
  ASSUME Inv, NEW u \in Users, MfaDisable(u)
  PROVE  Inv'
<1> DEFINE row == [account[u] EXCEPT !.secret = NoSecret, !.totp = FALSE]
           stale == \E h \in Handlers :
                      /\ req[h] \in ConfirmState /\ req[h].user = u
                      /\ req[h].on \/ req[h].same
                      /\ req[h].pc \in {"fetch", "commit"}
           now == raced[u] \/ stale
<1>1. /\ UNCHANGED <<counters, setup, req>>
      /\ account' = [account EXCEPT ![u] = row]
      /\ raced' = [raced EXCEPT ![u] = now]
  BY DEF MfaDisable, Inv, TypeOK, Account
<1>2. row \in Account /\ row.secret = NoSecret /\ row.totp = FALSE
  BY DEF Inv, TypeOK, Account
<1>3. now \in BOOLEAN
  BY DEF Inv, TypeOK
<1>4. \A g \in Handlers : req[g] \in ConfirmState /\ req[g].user = u
        /\ req[g].pc \in {"fetch", "commit"} /\ ~now => ~req[g].on /\ ~req[g].same
  OBVIOUS
<1>5. raced[u] => now
  OBVIOUS
<1> HIDE DEF row, stale, now
<1>6. /\ account'[u] = row /\ \A w \in Users : w # u => account'[w] = account[w]
      /\ raced'[u] = now /\ \A w \in Users : w # u => raced'[w] = raced[w]
  BY <1>1 DEF Inv, TypeOK
<1>7. TypeOK'
  BY <1>1, <1>2, <1>3 DEF counters, Inv, TypeOK
<1>8. LoginsAreSound' /\ LockMatchesCount' /\ CounterIsWindowed'
  BY <1>1, KeysStay DEF Inv, TypeOK
<1>9. ConfirmsAreFresh'
  <2> SUFFICES ASSUME NEW g \in Handlers, req[g] \in ConfirmState,
                      req[g].pc \in {"fetch", "commit"}, ~raced'[req[g].user]
               PROVE  /\ req[g].on => account'[req[g].user].totp
                      /\ req[g].same => account'[req[g].user].secret # NoSecret
    BY <1>1 DEF ConfirmsAreFresh
  <2>1. req[g].user \in Users
    BY ConfirmParts
  <2>2. CASE req[g].user = u
    BY <1>4, <1>6, <2>2
  <2>3. CASE req[g].user # u
    BY <1>6, <2>1, <2>3 DEF Inv, ConfirmsAreFresh
  <2>4. QED
    BY <2>2, <2>3
<1>10. SecretMeansEnabled'
  BY <1>2, <1>6 DEF Inv, SecretMeansEnabled
<1>11. QED
  BY <1>7, <1>8, <1>9, <1>10 DEF Inv

(***************************************************************************)
(* Steps on counter and lock                                               *)
(***************************************************************************)

(* The row and its confirmations stay as they are, whatever becomes of the   *)
(* logins and the keys.                                                     *)
LEMMA RowStays ==
  ASSUME Inv, UNCHANGED <<account, setup, raced>>,
         failures' \in [Users -> Nat], windowed' \in [Users -> BOOLEAN],
         lock' \in [Users -> 0 .. Len(Thresholds)],
         excused' \in [Users -> SUBSET {"window", "lock"}],
         req' \in [Handlers -> {Idle} \cup LoginState \cup ConfirmState],
         \A g \in Handlers : req'[g] \in ConfirmState => req'[g] = req[g]
  PROVE  TypeOK' /\ ConfirmsAreFresh' /\ SecretMeansEnabled'
<1>1. TypeOK'
  BY DEF Inv, TypeOK
<1>2. ConfirmsAreFresh'
  BY DEF Inv, ConfirmsAreFresh
<1>3. SecretMeansEnabled'
  BY DEF Inv, SecretMeansEnabled
<1>4. QED
  BY <1>1, <1>2, <1>3

(* After INCR and EXPIRE a request goes on to SETEX, or ends if its count    *)
(* calls for no lock.                                                       *)
LEMMA Leaving ==
  ASSUME NEW r \in LoginState, NEW n \in Nat, NEW q, q = LeaveAt(r, n)
  PROVE  /\ LevelOf(n) > 0 \/ (LevelOf(n) = 0 /\ q = Idle)
         /\ LevelOf(n) > 0 => /\ q \in LoginState /\ q.pc = "lock" /\ q.user = r.user
                              /\ q.n = n /\ q.late = r.late
<1>1. LevelOf(n) \in 0 .. Len(Thresholds) /\ Len(Thresholds) \in Nat
  BY LevelType
<1>2. "lock" \in Pcs
  BY DEF Pcs
<1>3. LevelOf(n) > 0 \/ LevelOf(n) = 0
  BY <1>1
<1>4. LevelOf(n) > 0 => q = [r EXCEPT !.pc = "lock", !.n = n]
  BY DEF LeaveAt
<1>5. LevelOf(n) = 0 => q = Idle
  BY DEF LeaveAt
<1>6. LevelOf(n) > 0 => /\ q \in LoginState /\ q.pc = "lock" /\ q.user = r.user
                       /\ q.n = n /\ q.late = r.late
  BY <1>2, <1>4 DEF LoginState
<1>7. QED
  BY <1>3, <1>5, <1>6

(* The first failure goes on to EXPIRE, one that calls for a lock to SETEX.  *)
LEMMA CountFailureStep ==
  ASSUME Inv, NEW h \in Handlers, CountFailure(h)
  PROVE  Inv'
<1> DEFINE u == req[h].user
           n == failures[u] + 1
           q == IF n = 1 THEN [req[h] EXCEPT !.pc = "window", !.n = n] ELSE LeaveAt(req[h], n)
<1>1. req[h] \in LoginState /\ req[h].pc = "count"
  BY Kinds DEF CountFailure, Pcs
<1>2. u \in Users /\ req[h].n = 0 /\ ~req[h].late
  BY <1>1, LoginParts DEF Inv, LoginsAreSound
<1>3. failures[u] \in Nat /\ n \in Nat \ {0} /\ (n # 1 => failures[u] > 0)
  BY <1>2 DEF Inv, TypeOK
<1>4. LevelOf(n) \in 0 .. Len(Thresholds) /\ Len(Thresholds) \in Nat
  <2> HIDE DEF n
  <2>1. QED
    BY <1>3, LevelType
<1>5. "window" \in Pcs
  BY DEF Pcs
<1>6. /\ q # Idle => /\ q \in LoginState /\ q.user = u /\ q.n = n /\ ~q.late
                     /\ q.pc = "window" \/ (q.pc = "lock" /\ LevelOf(n) > 0)
      /\ q = Idle => LevelOf(n) = 0
      /\ n = 1 => q # Idle /\ q.pc = "window"
  <2>1. CASE n = 1
    <3>1. q = [req[h] EXCEPT !.pc = "window", !.n = n]
      BY <2>1
    <3>2. q \in LoginState /\ q.pc = "window" /\ q.user = u /\ q.n = n /\ ~q.late
      <4> HIDE DEF n, q
      <4>1. n \in Nat
        BY <1>3
      <4>2. QED
        BY <1>1, <1>2, <1>5, <3>1, <4>1 DEF LoginState
    <3>3. q # Idle
      BY <3>2, Kinds
    <3>4. QED
      BY <3>2, <3>3
  <2>2. CASE n # 1
    <3>1. q = LeaveAt(req[h], n)
      BY <2>2
    <3> HIDE DEF q
    <3>2. QED
      BY <1>1, <1>2, <1>3, <2>2, <3>1, Leaving, Kinds
  <2>3. QED
    BY <2>1, <2>2
<1>7. /\ UNCHANGED <<account, windowed, lock, excused, setup, raced>>
      /\ req' = [req EXCEPT ![h] = q]
      /\ failures' = [failures EXCEPT ![u] = n]
  BY DEF CountFailure, Inv, TypeOK
<1> HIDE DEF q, n
<1>8. /\ req'[h] = q /\ \A g \in Handlers : g # h => req'[g] = req[g]
      /\ req' \in [Handlers -> {Idle} \cup LoginState \cup ConfirmState]
      /\ failures'[u] = n /\ \A w \in Users : w # u => failures'[w] = failures[w]
  BY <1>2, <1>6, <1>7 DEF Inv, TypeOK
<1>9. \A g \in Handlers : req'[g] \in ConfirmState => req'[g] = req[g]
  BY <1>6, <1>8, Kinds
<1>10. TypeOK' /\ ConfirmsAreFresh' /\ SecretMeansEnabled'
  <2>1. failures' \in [Users -> Nat]
    BY <1>2, <1>3, <1>7 DEF Inv, TypeOK
  <2>2. /\ windowed' \in [Users -> BOOLEAN] /\ lock' \in [Users -> 0 .. Len(Thresholds)]
        /\ excused' \in [Users -> SUBSET {"window", "lock"}]
    BY <1>7 DEF Inv, TypeOK
  <2>3. QED
    BY <1>7, <1>8, <1>9, <2>1, <2>2, RowStays
<1>11. LoginsAreSound'
  <2> SUFFICES ASSUME NEW g \in Handlers, req'[g] \in LoginState
               PROVE  /\ req'[g].pc \in {"check", "count", "clear"} => req'[g].n = 0
                      /\ req'[g].pc = "lock" => LevelOf(req'[g].n) > 0
                      /\ req'[g].late => req'[g].pc = "check" /\ lock[req'[g].user] # 0
    BY <1>7 DEF LoginsAreSound
  <2>1. CASE g = h
    BY <1>6, <1>8, <2>1, Kinds
  <2>2. CASE g # h
    BY <1>8, <2>2 DEF Inv, LoginsAreSound
  <2>3. QED
    BY <2>1, <2>2
<1>12. LockMatchesCount'
  <2> SUFFICES ASSUME NEW w \in Users, ~(lock[w] >= LevelOf(failures'[w])), "lock" \notin excused[w]
               PROVE  \E g \in Handlers : /\ req'[g] \in LoginState /\ req'[g].user = w
                                          /\ LevelOf(req'[g].n) >= LevelOf(failures'[w])
    BY <1>7 DEF LockMatchesCount
  <2>1. CASE w = u
    <3>1. lock[u] \in 0 .. Len(Thresholds)
      BY <1>2 DEF Inv, TypeOK
    <3>2. LevelOf(n) # 0
      BY <1>4, <1>8, <2>1, <3>1
    <3>3. q \in LoginState /\ q.user = u /\ q.n = n
      BY <1>6, <3>2
    <3>4. QED
      BY <1>4, <1>8, <2>1, <3>3
  <2>2. CASE w # u
    <3>1. PICK g \in Handlers : /\ req[g] \in LoginState /\ req[g].user = w
                                /\ LevelOf(req[g].n) >= LevelOf(failures[w])
      BY <1>8, <2>2 DEF Inv, LockMatchesCount
    <3>2. g # h
      BY <2>2, <3>1
    <3>3. QED
      BY <1>8, <2>2, <3>1, <3>2
  <2>3. QED
    BY <2>1, <2>2
<1>13. CounterIsWindowed'
  <2> SUFFICES ASSUME NEW w \in Users, failures'[w] > 0, ~windowed[w], "window" \notin excused[w]
               PROVE  \E g \in Handlers : req'[g] # Idle /\ req'[g].pc = "window" /\ req'[g].user = w
    BY <1>7 DEF CounterIsWindowed, Busy
  <2>1. CASE w = u /\ n = 1
    BY <1>6, <1>8, <2>1
  <2>2. CASE ~(w = u /\ n = 1)
    <3>1. failures[w] > 0
      BY <1>3, <1>8, <2>2
    <3>2. PICK g \in Handlers : req[g] # Idle /\ req[g].pc = "window" /\ req[g].user = w
      BY <3>1 DEF Inv, CounterIsWindowed, Busy
    <3>3. g # h
      BY <1>1, <3>2
    <3>4. QED
      BY <1>8, <3>2, <3>3
  <2>3. QED
    BY <2>1, <2>2
<1>14. QED
  BY <1>10, <1>11, <1>12, <1>13 DEF Inv

(* The counter has its time to live, or is gone.                            *)
LEMMA SetWindowStep ==
  ASSUME Inv, NEW h \in Handlers, SetWindow(h)
  PROVE  Inv'
<1> DEFINE u == req[h].user
           n == req[h].n
           q == LeaveAt(req[h], n)
           b == failures[u] > 0
           e == excused[u] \ {"window"}
<1>1. req[h] \in LoginState /\ req[h].pc = "window"
  BY Kinds DEF SetWindow, Pcs
<1>2. u \in Users /\ n \in Nat /\ ~req[h].late
  BY <1>1, LoginParts DEF Inv, LoginsAreSound
<1>3. /\ UNCHANGED <<account, failures, lock, setup, raced>>
      /\ req' = [req EXCEPT ![h] = q]
      /\ windowed' = [windowed EXCEPT ![u] = b]
      /\ excused' = [excused EXCEPT ![u] = e]
  BY DEF SetWindow, Inv, TypeOK
<1>4. b \in BOOLEAN /\ e \subseteq excused[u] /\ ("lock" \in excused[u] => "lock" \in e)
  OBVIOUS
<1>5. failures[u] > 0 => b
  OBVIOUS
<1> HIDE DEF q, b, e
<1>6. /\ LevelOf(n) > 0 \/ (LevelOf(n) = 0 /\ q = Idle)
      /\ LevelOf(n) > 0 => /\ q \in LoginState /\ q.pc = "lock" /\ q.user = u
                           /\ q.n = n /\ ~q.late
  BY <1>1, <1>2, Leaving DEF q
<1>7. q \in {Idle} \cup LoginState
  BY <1>6
<1>8. /\ req'[h] = q /\ \A g \in Handlers : g # h => req'[g] = req[g]
      /\ req' \in [Handlers -> {Idle} \cup LoginState \cup ConfirmState]
      /\ windowed'[u] = b /\ \A w \in Users : w # u => windowed'[w] = windowed[w]
      /\ excused'[u] = e /\ \A w \in Users : w # u => excused'[w] = excused[w]
  BY <1>2, <1>3, <1>7 DEF Inv, TypeOK
<1>9. \A g \in Handlers : req'[g] \in ConfirmState => req'[g] = req[g]
  BY <1>7, <1>8, Kinds
<1>10. TypeOK' /\ ConfirmsAreFresh' /\ SecretMeansEnabled'
  <2>1. excused[u] \in SUBSET {"window", "lock"}
    BY <1>2 DEF Inv, TypeOK
  <2>2. e \in SUBSET {"window", "lock"}
    BY <1>4, <2>1
  <2>3. /\ windowed' \in [Users -> BOOLEAN] /\ lock' \in [Users -> 0 .. Len(Thresholds)]
        /\ excused' \in [Users -> SUBSET {"window", "lock"}] /\ failures' \in [Users -> Nat]
    BY <1>3, <1>4, <2>2 DEF Inv, TypeOK
  <2>4. QED
    BY <1>3, <1>8, <1>9, <2>3, RowStays
<1>11. LoginsAreSound'
  <2> SUFFICES ASSUME NEW g \in Handlers, req'[g] \in LoginState
               PROVE  /\ req'[g].pc \in {"check", "count", "clear"} => req'[g].n = 0
                      /\ req'[g].pc = "lock" => LevelOf(req'[g].n) > 0
                      /\ req'[g].late => req'[g].pc = "check" /\ lock[req'[g].user] # 0
    BY <1>3 DEF LoginsAreSound
  <2>1. CASE g = h
    BY <1>6, <1>8, <2>1, Kinds
  <2>2. CASE g # h
    BY <1>8, <2>2 DEF Inv, LoginsAreSound
  <2>3. QED
    BY <2>1, <2>2
<1>12. LockMatchesCount'
  <2> SUFFICES ASSUME NEW w \in Users, ~(lock[w] >= LevelOf(failures[w])), "lock" \notin excused'[w]
               PROVE  \E g \in Handlers : /\ req'[g] \in LoginState /\ req'[g].user = w
                                          /\ LevelOf(req'[g].n) >= LevelOf(failures[w])
    BY <1>3 DEF LockMatchesCount
  <2>1. PICK g \in Handlers : /\ req[g] \in LoginState /\ req[g].user = w
                              /\ LevelOf(req[g].n) >= LevelOf(failures[w])
    BY <1>4, <1>8 DEF Inv, LockMatchesCount
  <2>2. CASE g # h
    BY <1>8, <2>1, <2>2
  <2>3. CASE g = h
    <3>1. LevelOf(failures[w]) \in 0 .. Len(Thresholds) /\ lock[w] \in 0 .. Len(Thresholds)
      BY LevelType DEF Inv, TypeOK
    <3>2. LevelOf(n) # 0
      BY <2>1, <2>3, <3>1
    <3>3. q \in LoginState /\ q.user = u /\ q.n = n
      BY <1>6, <3>2
    <3>4. QED
      BY <1>8, <2>1, <2>3, <3>3
  <2>4. QED
    BY <2>2, <2>3
<1>13. CounterIsWindowed'
  <2> SUFFICES ASSUME NEW w \in Users, failures[w] > 0, ~windowed'[w], "window" \notin excused'[w]
               PROVE  \E g \in Handlers : req'[g] # Idle /\ req'[g].pc = "window" /\ req'[g].user = w
    BY <1>3 DEF CounterIsWindowed, Busy
  <2>1. w # u
    BY <1>5, <1>8
  <2>2. PICK g \in Handlers : req[g] # Idle /\ req[g].pc = "window" /\ req[g].user = w
    BY <1>8, <2>1 DEF Inv, CounterIsWindowed, Busy
  <2>3. g # h
    BY <2>1, <2>2
  <2>4. QED
    BY <1>8, <2>2, <2>3
<1>14. QED
  BY <1>10, <1>11, <1>12, <1>13 DEF Inv

(* The lock is what this request counted.  If the counter calls for more,    *)
(* another request has that count, or the lock was better before.           *)
LEMMA SetLockStep ==
  ASSUME Inv, NEW h \in Handlers, SetLock(h)
  PROVE  Inv'
<1> DEFINE u == req[h].user
           l == LevelOf(req[h].n)
           e == IF l >= LevelOf(failures[u]) THEN excused[u] \ {"lock"}
                ELSE IF l < lock[u] THEN excused[u] \cup {"lock"} ELSE excused[u]
<1>1. req[h] \in LoginState /\ req[h].pc = "lock"
  BY Kinds DEF SetLock, Pcs
<1>2. u \in Users /\ req[h].n \in Nat /\ l > 0
  BY <1>1, LoginParts DEF Inv, LoginsAreSound
<1>3. l \in 0 .. Len(Thresholds) /\ Len(Thresholds) \in Nat
  <2>1. PICK m \in Nat : m = req[h].n
    BY <1>2
  <2>2. LevelOf(m) \in 0 .. Len(Thresholds)
    BY LevelType
  <2>3. QED
    BY <2>1, <2>2
<1>4. /\ UNCHANGED <<account, failures, windowed, setup, raced>>
      /\ req' = [req EXCEPT ![h] = Idle]
      /\ lock' = [lock EXCEPT ![u] = l]
      /\ excused' = [excused EXCEPT ![u] = e]
  BY DEF SetLock, Inv, TypeOK
<1>5. excused[u] \in SUBSET {"window", "lock"}
  BY <1>2 DEF Inv, TypeOK
<1>6. /\ e \in SUBSET {"window", "lock"}
      /\ "window" \in excused[u] => "window" \in e
      /\ ~(l >= LevelOf(failures[u])) /\ "lock" \notin e => "lock" \notin excused[u] /\ ~(l < lock[u])
  BY <1>5
<1> HIDE DEF l, e
<1>7. /\ req'[h] = Idle /\ \A g \in Handlers : g # h => req'[g] = req[g]
      /\ req' \in [Handlers -> {Idle} \cup LoginState \cup ConfirmState]
      /\ lock'[u] = l /\ \A w \in Users : w # u => lock'[w] = lock[w]
      /\ excused'[u] = e /\ \A w \in Users : w # u => excused'[w] = excused[w]
  BY <1>2, <1>4 DEF Inv, TypeOK
<1>8. \A g \in Handlers : req'[g] \in ConfirmState => req'[g] = req[g]
  BY <1>7, Kinds
<1>9. TypeOK' /\ ConfirmsAreFresh' /\ SecretMeansEnabled'
  <2>1. /\ windowed' \in [Users -> BOOLEAN] /\ lock' \in [Users -> 0 .. Len(Thresholds)]
        /\ excused' \in [Users -> SUBSET {"window", "lock"}] /\ failures' \in [Users -> Nat]
    BY <1>3, <1>4, <1>6 DEF Inv, TypeOK
  <2>2. QED
    BY <1>4, <1>7, <1>8, <2>1, RowStays
<1>10. LoginsAreSound'
  <2> SUFFICES ASSUME NEW g \in Handlers, req'[g] \in LoginState
               PROVE  /\ req'[g].pc \in {"check", "count", "clear"} => req'[g].n = 0
                      /\ req'[g].pc = "lock" => LevelOf(req'[g].n) > 0
                      /\ req'[g].late => req'[g].pc = "check" /\ lock'[req'[g].user] # 0
    BY DEF LoginsAreSound
  <2>1. g # h /\ req'[g] = req[g] /\ req'[g].user \in Users
    BY <1>7, Kinds, LoginParts
  <2>2. l # 0
    BY <1>2, <1>3
  <2>3. QED
    BY <1>7, <2>1, <2>2 DEF Inv, LoginsAreSound
<1>11. LockMatchesCount'
  <2> SUFFICES ASSUME NEW w \in Users, ~(lock'[w] >= LevelOf(failures[w])), "lock" \notin excused'[w]
               PROVE  \E g \in Handlers : /\ req'[g] \in LoginState /\ req'[g].user = w
                                          /\ LevelOf(req'[g].n) >= LevelOf(failures[w])
    BY <1>4 DEF LockMatchesCount
  <2>1. CASE w = u
    <3>1. lock[u] \in 0 .. Len(Thresholds) /\ LevelOf(failures[u]) \in 0 .. Len(Thresholds)
      BY <1>2, LevelType DEF Inv, TypeOK
    <3>2. "lock" \notin excused[u] /\ ~(l < lock[u]) /\ ~(l >= LevelOf(failures[u]))
      BY <1>6, <1>7, <2>1
    <3>3. ~(lock[u] >= LevelOf(failures[u]))
      BY <1>3, <3>1, <3>2
    <3>4. PICK g \in Handlers : /\ req[g] \in LoginState /\ req[g].user = u
                                /\ LevelOf(req[g].n) >= LevelOf(failures[u])
      BY <1>2, <3>2, <3>3 DEF Inv, LockMatchesCount
    <3>5. g # h
      BY <3>2, <3>4 DEF l
    <3>6. QED
      BY <1>7, <2>1, <3>4, <3>5
  <2>2. CASE w # u
    <3>1. PICK g \in Handlers : /\ req[g] \in LoginState /\ req[g].user = w
                                /\ LevelOf(req[g].n) >= LevelOf(failures[w])
      BY <1>7, <2>2 DEF Inv, LockMatchesCount
    <3>2. QED
      BY <1>7, <2>2, <3>1
  <2>3. QED
    BY <2>1, <2>2
<1>12. CounterIsWindowed'
  <2> SUFFICES ASSUME NEW w \in Users, failures[w] > 0, ~windowed[w], "window" \notin excused'[w]
               PROVE  \E g \in Handlers : req'[g] # Idle /\ req'[g].pc = "window" /\ req'[g].user = w
    BY <1>4 DEF CounterIsWindowed, Busy
  <2>1. "window" \notin excused[w]
    BY <1>6, <1>7
  <2>2. PICK g \in Handlers : req[g] # Idle /\ req[g].pc = "window" /\ req[g].user = w
    BY <2>1 DEF Inv, CounterIsWindowed, Busy
  <2>3. g # h
    BY <1>1, <2>2
  <2>4. QED
    BY <1>7, <2>2, <2>3
<1>13. QED
  BY <1>9, <1>10, <1>11, <1>12 DEF Inv

(* Requests of u are not late any more; nothing else about any changes.      *)
LEMMA ForgivenParts ==
  ASSUME Inv, NEW u \in Users, NEW h \in Handlers, NEW r, r = Forgiven(u)[h]
  PROVE  /\ r \in {Idle} \cup LoginState \cup ConfirmState
         /\ req[h] \notin LoginState => r = req[h]
         /\ req[h] \in LoginState =>
              /\ r \in LoginState /\ r.pc = req[h].pc /\ r.user = req[h].user /\ r.n = req[h].n
              /\ r.late => req[h].late /\ r.user # u
<1>1. req[h] \in {Idle} \cup LoginState \cup ConfirmState
  BY DEF Inv, TypeOK
<1>2. r = IF req[h] \in LoginState /\ req[h].user = u THEN [req[h] EXCEPT !.late = FALSE] ELSE req[h]
  BY DEF Forgiven
<1>3. QED
  BY <1>1, <1>2 DEF LoginState

(* Requests forgiven, one of them ended perhaps, are of their types still.   *)
LEMMA ForgivenType ==
  ASSUME Inv, NEW u \in Users
  PROVE  Forgiven(u) \in [Handlers -> {Idle} \cup LoginState \cup ConfirmState]
<1>1. \A h \in Handlers : Forgiven(u)[h] \in {Idle} \cup LoginState \cup ConfirmState
  BY ForgivenParts
<1>2. Forgiven(u) = [h \in Handlers |-> Forgiven(u)[h]]
  BY DEF Forgiven
<1>3. QED
  BY <1>1, <1>2

(* A login deletes the counter and the lock together.                       *)
LEMMA ClearCountersStep ==
  ASSUME Inv, NEW h \in Handlers, ClearCounters(h)
  PROVE  Inv'
<1> DEFINE u == req[h].user
           f == Forgiven(u)
<1>1. req[h] \in LoginState /\ u \in Users
  BY Kinds, LoginParts DEF ClearCounters, Pcs
<1>2. /\ UNCHANGED <<account, setup, raced>>
      /\ failures' = [failures EXCEPT ![u] = 0]
      /\ windowed' = [windowed EXCEPT ![u] = FALSE]
      /\ lock' = [lock EXCEPT ![u] = 0]
      /\ excused' = [excused EXCEPT ![u] = {}]
      /\ req' = [f EXCEPT ![h] = Idle]
  BY DEF ClearCounters
<1>3. f \in [Handlers -> {Idle} \cup LoginState \cup ConfirmState]
  BY <1>1, ForgivenType
<1>4. \A g \in Handlers :
        /\ req[g] \notin LoginState => f[g] = req[g]
        /\ req[g] \in LoginState =>
             /\ f[g] \in LoginState /\ f[g].pc = req[g].pc /\ f[g].user = req[g].user
             /\ f[g].n = req[g].n
             /\ f[g].late => req[g].late /\ f[g].user # u
  BY <1>1, ForgivenParts
<1> HIDE DEF f
<1>5. /\ req'[h] = Idle /\ \A g \in Handlers : g # h => req'[g] = f[g]
      /\ req' \in [Handlers -> {Idle} \cup LoginState \cup ConfirmState]
      /\ failures'[u] = 0 /\ lock'[u] = 0
      /\ \A w \in Users : w # u => /\ failures'[w] = failures[w] /\ windowed'[w] = windowed[w]
                                   /\ lock'[w] = lock[w] /\ excused'[w] = excused[w]
  BY <1>1, <1>2, <1>3 DEF Inv, TypeOK
<1>6. \A g \in Handlers : req'[g] \in ConfirmState => req'[g] = req[g]
  BY <1>4, <1>5, Kinds
<1>7. TypeOK' /\ ConfirmsAreFresh' /\ SecretMeansEnabled'
  <2>1. /\ windowed' \in [Users -> BOOLEAN] /\ lock' \in [Users -> 0 .. Len(Thresholds)]
        /\ excused' \in [Users -> SUBSET {"window", "lock"}] /\ failures' \in [Users -> Nat]
    <3>1. 0 \in 0 .. Len(Thresholds)
      OBVIOUS
    <3>2. lock' \in [Users -> 0 .. Len(Thresholds)]
      BY <1>2, <3>1 DEF Inv, TypeOK
    <3>3. windowed' \in [Users -> BOOLEAN] /\ failures' \in [Users -> Nat]
      BY <1>2 DEF Inv, TypeOK
    <3>4. excused' \in [Users -> SUBSET {"window", "lock"}]
      BY <1>2 DEF Inv, TypeOK
    <3>5. QED
      BY <3>2, <3>3, <3>4
  <2>2. QED
    BY <1>2, <1>5, <1>6, <2>1, RowStays
<1>8. LoginsAreSound'
  <2> SUFFICES ASSUME NEW g \in Handlers, req'[g] \in LoginState
               PROVE  /\ req'[g].pc \in {"check", "count", "clear"} => req'[g].n = 0
                      /\ req'[g].pc = "lock" => LevelOf(req'[g].n) > 0
                      /\ req'[g].late => req'[g].pc = "check" /\ lock'[req'[g].user] # 0
    BY DEF LoginsAreSound
  <2>1. g # h /\ req'[g] = f[g]
    BY <1>5, Kinds
  <2>2. req[g] \in LoginState /\ req[g].user \in Users
    BY <1>4, <2>1, LoginParts
  <2>3. QED
    BY <1>4, <1>5, <2>1, <2>2 DEF Inv, LoginsAreSound
<1>9. LockMatchesCount'
  <2> SUFFICES ASSUME NEW w \in Users, ~(lock'[w] >= LevelOf(failures'[w])), "lock" \notin excused'[w]
               PROVE  \E g \in Handlers : /\ req'[g] \in LoginState /\ req'[g].user = w
                                          /\ LevelOf(req'[g].n) >= LevelOf(failures'[w])
    BY DEF LockMatchesCount
  <2>1. w # u
    BY <1>5, NoFailureNoLock
  <2>2. PICK g \in Handlers : /\ req[g] \in LoginState /\ req[g].user = w
                              /\ LevelOf(req[g].n) >= LevelOf(failures[w])
    BY <1>5, <2>1 DEF Inv, LockMatchesCount
  <2>3. QED
    BY <1>4, <1>5, <2>1, <2>2
<1>10. CounterIsWindowed'
  <2> SUFFICES ASSUME NEW w \in Users, failures'[w] > 0, ~windowed'[w], "window" \notin excused'[w]
               PROVE  \E g \in Handlers : req'[g] # Idle /\ req'[g].pc = "window" /\ req'[g].user = w
    BY DEF CounterIsWindowed, Busy
  <2>1. w # u
    BY <1>5
  <2>2. PICK g \in Handlers : Busy(g, "window") /\ req[g].user = w
    BY <1>5, <2>1 DEF Inv, CounterIsWindowed
  <2>3. req[g] \in LoginState /\ req[g].pc = "window" /\ g # h
    BY <2>1, <2>2, Kinds DEF Pcs
  <2>4. QED
    BY <1>4, <1>5, <2>2, <2>3, Kinds
<1>11. QED
  BY <1>7, <1>8, <1>9, <1>10 DEF Inv

(* A lock runs out and leaves its counter.                                  *)
LEMMA LockLapsesStep ==
  ASSUME Inv, NEW u \in Users, LockLapses(u)
  PROVE  Inv'
<1> DEFINE f == Forgiven(u)
           e == excused[u] \cup {"lock"}
<1>1. /\ UNCHANGED <<account, failures, windowed, setup, raced>>
      /\ lock' = [lock EXCEPT ![u] = 0]
      /\ excused' = [excused EXCEPT ![u] = e]
      /\ req' = f
  BY DEF LockLapses, Inv, TypeOK
<1>2. f \in [Handlers -> {Idle} \cup LoginState \cup ConfirmState]
  BY ForgivenType
<1>3. \A g \in Handlers :
        /\ req[g] \notin LoginState => f[g] = req[g]
        /\ req[g] \in LoginState =>
             /\ f[g] \in LoginState /\ f[g].pc = req[g].pc /\ f[g].user = req[g].user
             /\ f[g].n = req[g].n
             /\ f[g].late => req[g].late /\ f[g].user # u
  BY ForgivenParts
<1>4. excused[u] \in SUBSET {"window", "lock"}
  BY DEF Inv, TypeOK
<1>5. /\ e \in SUBSET {"window", "lock"} /\ "lock" \in e
      /\ "window" \in excused[u] => "window" \in e
  BY <1>4
<1> HIDE DEF f, e
<1>6. /\ lock'[u] = 0 /\ \A w \in Users : w # u => lock'[w] = lock[w]
      /\ excused'[u] = e /\ \A w \in Users : w # u => excused'[w] = excused[w]
  BY <1>1 DEF Inv, TypeOK
<1>7. \A g \in Handlers : req'[g] \in ConfirmState => req'[g] = req[g]
  BY <1>1, <1>3, Kinds
<1>8. TypeOK' /\ ConfirmsAreFresh' /\ SecretMeansEnabled'
  <2>1. /\ windowed' \in [Users -> BOOLEAN] /\ lock' \in [Users -> 0 .. Len(Thresholds)]
        /\ excused' \in [Users -> SUBSET {"window", "lock"}] /\ failures' \in [Users -> Nat]
    BY <1>1, <1>5 DEF Inv, TypeOK
  <2>2. QED
    BY <1>1, <1>2, <1>7, <2>1, RowStays
<1>9. LoginsAreSound'
  <2> SUFFICES ASSUME NEW g \in Handlers, f[g] \in LoginState
               PROVE  /\ f[g].pc \in {"check", "count", "clear"} => f[g].n = 0
                      /\ f[g].pc = "lock" => LevelOf(f[g].n) > 0
                      /\ f[g].late => f[g].pc = "check" /\ lock'[f[g].user] # 0
    BY <1>1 DEF LoginsAreSound
  <2>1. req[g] \in LoginState /\ req[g].user \in Users
    BY <1>3, LoginParts
  <2>2. QED
    BY <1>3, <1>6, <2>1 DEF Inv, LoginsAreSound
<1>10. LockMatchesCount'
  <2> SUFFICES ASSUME NEW w \in Users, ~(lock'[w] >= LevelOf(failures[w])), "lock" \notin excused'[w]
               PROVE  \E g \in Handlers : /\ f[g] \in LoginState /\ f[g].user = w
                                          /\ LevelOf(f[g].n) >= LevelOf(failures[w])
    BY <1>1 DEF LockMatchesCount
  <2>1. w # u
    BY <1>5, <1>6
  <2>2. PICK g \in Handlers : /\ req[g] \in LoginState /\ req[g].user = w
                              /\ LevelOf(req[g].n) >= LevelOf(failures[w])
    BY <1>6, <2>1 DEF Inv, LockMatchesCount
  <2>3. QED
    BY <1>3, <2>2
<1>11. CounterIsWindowed'
  <2> SUFFICES ASSUME NEW w \in Users, failures[w] > 0, ~windowed[w], "window" \notin excused'[w]
               PROVE  \E g \in Handlers : f[g] # Idle /\ f[g].pc = "window" /\ f[g].user = w
    BY <1>1 DEF CounterIsWindowed, Busy
  <2>1. "window" \notin excused[w]
    BY <1>5, <1>6
  <2>2. PICK g \in Handlers : Busy(g, "window") /\ req[g].user = w
    BY <2>1 DEF Inv, CounterIsWindowed
  <2>3. req[g] \in LoginState /\ req[g].pc = "window"
    BY <2>2, Kinds DEF Pcs
  <2>4. QED
    BY <1>3, <2>2, <2>3, Kinds
<1>12. QED
  BY <1>8, <1>9, <1>10, <1>11 DEF Inv

(* The counter is gone with its window, and every lock is enough.            *)
LEMMA WindowLapsesStep ==
  ASSUME Inv, NEW u \in Users, WindowLapses(u)
  PROVE  Inv'
<1>1. /\ UNCHANGED <<account, lock, setup, req, raced>>
      /\ failures' = [failures EXCEPT ![u] = 0]
      /\ windowed' = [windowed EXCEPT ![u] = FALSE]
      /\ excused' = [excused EXCEPT ![u] = {}]
  BY DEF WindowLapses
<1>2. /\ failures'[u] = 0
      /\ \A w \in Users : w # u => /\ failures'[w] = failures[w] /\ windowed'[w] = windowed[w]
                                   /\ excused'[w] = excused[w]
  BY <1>1 DEF Inv, TypeOK
<1>3. TypeOK' /\ ConfirmsAreFresh' /\ SecretMeansEnabled'
  BY <1>1, RowStays DEF Inv, TypeOK
<1>4. LoginsAreSound'
  BY <1>1 DEF Inv, LoginsAreSound
<1>5. LockMatchesCount'
  <2> SUFFICES ASSUME NEW w \in Users, ~(lock[w] >= LevelOf(failures'[w])), "lock" \notin excused'[w]
               PROVE  \E g \in Handlers : /\ req[g] \in LoginState /\ req[g].user = w
                                          /\ LevelOf(req[g].n) >= LevelOf(failures'[w])
    BY <1>1 DEF LockMatchesCount
  <2>1. lock[w] \in Nat
    BY DEF Inv, TypeOK
  <2>2. w # u
    BY <1>2, <2>1, NoFailureNoLock
  <2>3. QED
    BY <1>2, <2>2 DEF Inv, LockMatchesCount
<1>6. CounterIsWindowed'
  BY <1>1, <1>2 DEF Inv, CounterIsWindowed, Busy
<1>7. QED
  BY <1>3, <1>4, <1>5, <1>6 DEF Inv

(* A login that dies on its way to EXPIRE or SETEX excuses what it leaves.   *)
LEMMA AbortStep ==
  ASSUME Inv, NEW h \in Handlers, Abort(h)
  PROVE  Inv'
<1> DEFINE u == req[h].user
           e == (excused[u] \cup (IF req[h].pc = "window" THEN {"window"} ELSE {}))
                  \cup (IF LevelOf(req[h].n) > 0 THEN {"lock"} ELSE {})
<1>1. /\ UNCHANGED <<account, failures, windowed, lock, setup, raced>>
      /\ req' = [req EXCEPT ![h] = Idle]
      /\ req[h] \in LoginState => excused' = [excused EXCEPT ![u] = e]
      /\ req[h] \notin LoginState => excused' = excused
  BY DEF Abort, Inv, TypeOK
<1>2. req[h] \in LoginState => u \in Users
  BY LoginParts
<1>3. u \in Users => excused[u] \in SUBSET {"window", "lock"}
  BY DEF Inv, TypeOK
<1>4. /\ u \in Users => e \in SUBSET {"window", "lock"}
      /\ excused[u] \subseteq e
      /\ req[h].pc = "window" => "window" \in e
      /\ LevelOf(req[h].n) > 0 => "lock" \in e
  BY <1>3
<1> HIDE DEF e
<1>5. /\ req'[h] = Idle /\ \A g \in Handlers : g # h => req'[g] = req[g]
      /\ req' \in [Handlers -> {Idle} \cup LoginState \cup ConfirmState]
  BY <1>1 DEF Inv, TypeOK
<1>6. /\ \A w \in Users : excused[w] \subseteq excused'[w]
      /\ req[h] \in LoginState => excused'[u] = e
      /\ excused' \in [Users -> SUBSET {"window", "lock"}]
  <2>1. CASE req[h] \in LoginState
    <3>1. excused' = [excused EXCEPT ![u] = e] /\ u \in Users /\ e \in SUBSET {"window", "lock"}
      BY <1>1, <1>2, <1>4, <2>1
    <3>2. excused \in [Users -> SUBSET {"window", "lock"}]
      BY DEF Inv, TypeOK
    <3>3. excused' \in [Users -> SUBSET {"window", "lock"}] /\ excused'[u] = e
      BY <3>1, <3>2
    <3>4. \A w \in Users : excused[w] \subseteq excused'[w]
      BY <1>4, <3>1, <3>2
    <3>5. QED
      BY <3>3, <3>4
  <2>2. CASE req[h] \notin LoginState
    BY <1>1, <2>2 DEF Inv, TypeOK
  <2>3. QED
    BY <2>1, <2>2
<1>7. \A g \in Handlers : req'[g] \in LoginState \/ req'[g] \in ConfirmState => req'[g] = req[g]
  BY <1>5, Kinds
<1>8. TypeOK' /\ ConfirmsAreFresh' /\ SecretMeansEnabled'
  BY <1>1, <1>5, <1>6, <1>7, RowStays DEF Inv, TypeOK
<1>9. LoginsAreSound'
  BY <1>1, <1>7 DEF Inv, LoginsAreSound
<1>10. LockMatchesCount'
  <2> SUFFICES ASSUME NEW w \in Users, ~(lock[w] >= LevelOf(failures[w])), "lock" \notin excused'[w]
               PROVE  \E g \in Handlers : /\ req'[g] \in LoginState /\ req'[g].user = w
                                          /\ LevelOf(req'[g].n) >= LevelOf(failures[w])
    BY <1>1 DEF LockMatchesCount
  <2>1. PICK g \in Handlers : /\ req[g] \in LoginState /\ req[g].user = w
                              /\ LevelOf(req[g].n) >= LevelOf(failures[w])
    BY <1>6 DEF Inv, LockMatchesCount
  <2>2. /\ LevelOf(failures[w]) \in 0 .. Len(Thresholds) /\ lock[w] \in 0 .. Len(Thresholds)
        /\ LevelOf(req[g].n) \in 0 .. Len(Thresholds)
    BY <2>1, LevelType, LoginParts DEF Inv, TypeOK
  <2>3. LevelOf(req[g].n) > 0
    BY <2>1, <2>2
  <2>4. g # h
    BY <1>4, <1>6, <2>1, <2>3
  <2>5. QED
    BY <1>5, <2>1, <2>4
<1>11. CounterIsWindowed'
  <2> SUFFICES ASSUME NEW w \in Users, failures[w] > 0, ~windowed[w], "window" \notin excused'[w]
               PROVE  \E g \in Handlers : req'[g] # Idle /\ req'[g].pc = "window" /\ req'[g].user = w
    BY <1>1 DEF CounterIsWindowed, Busy
  <2>1. PICK g \in Handlers : Busy(g, "window") /\ req[g].user = w
    BY <1>6 DEF Inv, CounterIsWindowed
  <2>2. req[g] \in LoginState /\ req[g].pc = "window" /\ req[g] # Idle
    BY <2>1, Kinds DEF Pcs
  <2>3. g # h
    BY <1>4, <1>6, <2>1, <2>2
  <2>4. QED
    BY <1>5, <2>1, <2>2, <2>3
<1>12. QED
  BY <1>8, <1>9, <1>10, <1>11 DEF Inv

(***************************************************************************)
(* Results                                                                 *)
(***************************************************************************)

(* A step of any kind keeps the invariant.                                  *)
LEMMA NextInv == Inv /\ [Next]_vars => Inv'
<1> SUFFICES ASSUME Inv, [Next]_vars PROVE Inv'
  OBVIOUS
<1>1. ASSUME NEW h \in Handlers, NEW u \in Users, NEW right \in BOOLEAN, NEW code \in Secrets,
             LoginStart(h, u, right, code)
      PROVE  Inv'
  BY <1>1, LoginStartStep
<1>2. ASSUME NEW h \in Handlers, NEW u \in Users, NEW code \in Secrets, ConfirmStart(h, u, code)
      PROVE  Inv'
  BY <1>2, ConfirmStartStep
<1>3. ASSUME NEW h \in Handlers, Proceed(h)
      PROVE  Inv'
  BY <1>3, CheckLockStep, CountFailureStep, SetWindowStep, SetLockStep, ClearCountersStep,
     ConfirmFetchStep, ConfirmCommitStep, ConfirmForgetStep DEF Proceed
<1>4. ASSUME NEW h \in Handlers, Abort(h)
      PROVE  Inv'
  BY <1>4, AbortStep
<1>5. ASSUME NEW u \in Users, NEW s \in Secrets, MfaSetup(u, s)
      PROVE  Inv'
  <2>1. setup' \in [Users -> Secrets \cup {NoSecret}]
    BY <1>5 DEF MfaSetup, Inv, TypeOK
  <2>2. UNCHANGED <<account, counters, req, raced>>
    BY <1>5 DEF MfaSetup
  <2>3. QED
    BY <2>1, <2>2, SetupStep
<1>6. ASSUME NEW u \in Users, MfaDisable(u)
      PROVE  Inv'
  BY <1>6, MfaDisableStep
<1>7. ASSUME NEW u \in Users, LockLapses(u)
      PROVE  Inv'
  BY <1>7, LockLapsesStep
<1>8. ASSUME NEW u \in Users, WindowLapses(u)
      PROVE  Inv'
  BY <1>8, WindowLapsesStep
<1>9. ASSUME NEW u \in Users, SetupLapses(u)
      PROVE  Inv'
  <2>1. setup' \in [Users -> Secrets \cup {NoSecret}]
    BY <1>9 DEF SetupLapses, Inv, TypeOK
  <2>2. UNCHANGED <<account, counters, req, raced>>
    BY <1>9 DEF SetupLapses
  <2>3. QED
    BY <2>1, <2>2, SetupStep
<1>10. CASE UNCHANGED vars
  <2>1. UNCHANGED <<account, counters, req, raced, setup>>
    BY <1>10 DEF vars, counters
  <2>2. setup' \in [Users -> Secrets \cup {NoSecret}]
    BY <2>1 DEF Inv, TypeOK
  <2>3. QED
    BY <2>1, <2>2, SetupStep
<1>11. QED
  BY <1>1, <1>2, <1>3, <1>4, <1>5, <1>6, <1>7, <1>8, <1>9, <1>10 DEF Next

(* Inv holds in every state of every behaviour.                             *)
THEOREM SpecInv == Spec => []Inv
  BY InitInv, NextInv, PTL DEF Spec

(* lockout.py's three keys: whatever logins overlap, lapse or die, a lock is *)
(* as severe as the counter calls for and a counter has its time to live,   *)
(* unless one of the named causes has come between.                         *)
THEOREM KeysFitEachOther == Spec => []LockoutHolds
<1>1. Inv => LockoutHolds
  BY DEF Inv, LockoutHolds
<1>2. QED
  BY <1>1, SpecInv, PTL

(* is_locked in auth.py's login: a login that came under a lock that still   *)
(* holds never gets as far as deleting the keys and handing out tokens.     *)
THEOREM NobodyPassesALock == Spec => []NoLoginPastLock
<1>1. Inv => NoLoginPastLock
  <2> SUFFICES ASSUME Inv, NEW h \in Handlers, Busy(h, "clear") PROVE ~req[h].late
    BY DEF NoLoginPastLock
  <2>1. req[h] \in LoginState /\ req[h].pc = "clear"
    BY Kinds DEF Pcs
  <2>2. QED
    BY <2>1 DEF Inv, LoginsAreSound
<1>2. QED
  BY <1>1, SpecInv, PTL

(* mfa.py: secret and flag of an account change together, unless a disabling *)
(* comes between the read and the commit of a confirmation.                 *)
THEOREM SecretAndFlagAgree == Spec => []SecretMeansEnabled
<1>1. Inv => SecretMeansEnabled
  BY DEF Inv
<1>2. QED
  BY <1>1, SpecInv, PTL

HIDE LoginAssumption

(***************************************************************************)
(* Sessions                                                                *)
(***************************************************************************)

(* Pairs that descend from one login are of one account.                    *)
OneOwner ==
  \A i, j \in DOMAIN pairs : pairs[i].login = pairs[j].login => pairs[i].owner = pairs[j].owner

(* The denylist names a token that was logged out for as long as it lives,  *)
(* and a request counts as late only if it came after such a logout.        *)
QuitIsDenied ==
  /\ \A i \in DOMAIN pairs : pairs[i].quit /\ pairs[i].age = "live" => pairs[i].denied
  /\ \A h \in Handlers : calls[h] \in CallState /\ calls[h].late =>
       calls[h].pc = "check" /\ pairs[calls[h].pair].quit

SessionsInv == SessionsTypeOK /\ OneOwner /\ OneLivePerLogin /\ LoggedOutStaysOut /\ QuitIsDenied

USE SessionsAssumption

(***************************************************************************)
(* Sequences of pairs                                                      *)
(***************************************************************************)

(* Pairs that are changed in place are still a sequence of pairs.           *)
LEMMA InPlace ==
  ASSUME pairs \in Seq(Pair), NEW q, DOMAIN q = DOMAIN pairs,
         q = [i \in DOMAIN pairs |-> q[i]],
         \A i \in DOMAIN pairs : q[i] \in Pair
  PROVE  q \in Seq(Pair)
<1>1. DOMAIN pairs = 1 .. Len(pairs) /\ Len(pairs) \in Nat
  OBVIOUS
<1>2. q \in [1 .. Len(pairs) -> Pair]
  BY <1>1
<1>3. QED
  BY <1>1, <1>2

(* The pair a login or refresh grants is the last one, the others stay.     *)
LEMMA Appended ==
  ASSUME NEW s \in Seq(Pair), NEW p \in Pair
  PROVE  /\ Append(s, p) \in Seq(Pair)
         /\ Len(s) \in Nat /\ DOMAIN s = 1 .. Len(s)
         /\ DOMAIN Append(s, p) = 1 .. Len(s) + 1
         /\ Append(s, p)[Len(s) + 1] = p
         /\ \A i \in DOMAIN s : Append(s, p)[i] = s[i]
  OBVIOUS

(* A pair that is left as it is, or is spent.                               *)
SameButRevoked(p, q) ==
  /\ q.owner = p.owner /\ q.login = p.login /\ q.out = p.out
  /\ q.quit = p.quit /\ q.age = p.age /\ q.denied = p.denied
  /\ p.revoked => q.revoked

(* A pair with a new entry on the denylist.                                 *)
LEMMA PairDenied ==
  ASSUME NEW p \in Pair, NEW b \in BOOLEAN, NEW q, q = [p EXCEPT !.denied = b]
  PROVE  /\ q \in Pair /\ q.owner = p.owner /\ q.login = p.login /\ q.out = p.out
         /\ q.quit = p.quit /\ q.revoked = p.revoked /\ q.age = p.age /\ q.denied = b
  BY DEF Pair

(* A granted pair is of its account and login, live and not logged out.     *)
LEMMA GrantedIsPair ==
  ASSUME NEW u \in Users, NEW n \in Nat
  PROVE  /\ Granted(u, n) \in Pair /\ Granted(u, n).owner = u /\ Granted(u, n).login = n
         /\ ~Granted(u, n).revoked /\ ~Granted(u, n).out /\ ~Granted(u, n).quit
  BY DEF Granted, Pair

(***************************************************************************)
(* Steps on the requests                                                   *)
(***************************************************************************)

(* A step that changes one request, to none or to a sound one, and no pair. *)
LEMMA CallStep ==
  ASSUME SessionsInv, NEW h \in Handlers, NEW r \in {Idle} \cup GrantState \cup CallState,
         r \in CallState => r.pair \in DOMAIN pairs,
         r \in CallState /\ r.late => r.pc = "check" /\ pairs[r.pair].quit,
         calls' = [calls EXCEPT ![h] = r], UNCHANGED pairs,
         user' \in [Users -> UserRow],
         \A u \in Users : user'[u].role = "absent" => ~user'[u].active
  PROVE  SessionsInv'
<1>1. SessionsTypeOK'
  BY DEF SessionsInv, SessionsTypeOK
<1>2. QuitIsDenied'
  BY DEF SessionsInv, SessionsTypeOK, QuitIsDenied
<1>3. QED
  BY <1>1, <1>2 DEF SessionsInv, OneOwner, OneLivePerLogin, LoggedOutStaysOut

(* No request in progress looks idle.                                       *)
LEMMA IdleIsNoCall == Idle \notin CallState /\ Idle \notin GrantState
  BY DEF Idle, CallState, GrantState

(* A request that ends keeps SessionsInv, whatever it has made of the accounts.     *)
LEMMA DoneStep ==
  ASSUME SessionsInv, NEW h \in Handlers, Done(h), UNCHANGED pairs,
         user' \in [Users -> UserRow],
         \A u \in Users : user'[u].role = "absent" => ~user'[u].active
  PROVE  SessionsInv'
  BY CallStep, IdleIsNoCall DEF Done

(* The parts of a sound request.                                            *)
LEMMA RequestTypes ==
  ASSUME SessionsInv, NEW h \in Handlers
  PROVE  /\ At(h, "granting") => calls[h] \in GrantState /\ calls[h].user \in Users
         /\ \A pc \in {"check", "act", "revoke"} : At(h, pc) =>
              /\ calls[h] \in CallState /\ calls[h].pair \in DOMAIN pairs
              /\ calls[h].pair \in Nat /\ calls[h].late \in BOOLEAN
              /\ pairs[calls[h].pair] \in Pair /\ Caller(h) \in Users
<1>1. calls[h] \in {Idle} \cup GrantState \cup CallState
  BY DEF SessionsInv, SessionsTypeOK
<1>2. At(h, "granting") => calls[h] \in GrantState /\ calls[h].user \in Users
  BY <1>1 DEF At, GrantState, CallState
<1>3. ASSUME NEW pc \in {"check", "act", "revoke"}, At(h, pc)
      PROVE  calls[h] \in CallState
  BY <1>1, <1>3 DEF At, GrantState
<1>4. ASSUME calls[h] \in CallState
      PROVE  /\ calls[h].pair \in DOMAIN pairs
             /\ calls[h].pair \in Nat /\ calls[h].late \in BOOLEAN
             /\ pairs[calls[h].pair] \in Pair /\ Caller(h) \in Users
  <2>1. calls[h].pair \in DOMAIN pairs /\ calls[h].pair \in Nat /\ calls[h].late \in BOOLEAN
    BY <1>4 DEF SessionsInv, SessionsTypeOK, CallState
  <2>2. pairs[calls[h].pair] \in Pair
    BY <2>1 DEF SessionsInv, SessionsTypeOK
  <2>3. QED
    BY <2>1, <2>2 DEF Caller, Pair
<1>5. QED
  BY <1>2, <1>3, <1>4

(***************************************************************************)
(* Steps on the pairs                                                      *)
(***************************************************************************)

(* What in-place changes of pairs may do: revoke, and log out all pairs of  *)
(* an owner, and change denylist and age as long as who was logged out and  *)
(* lives stays denied.                                                      *)
LEMMA PairsChanged ==
  ASSUME SessionsInv, UNCHANGED <<user, calls>>, pairs' \in Seq(Pair), DOMAIN pairs' = DOMAIN pairs,
         \A i \in DOMAIN pairs :
           /\ pairs'[i].owner = pairs[i].owner /\ pairs'[i].login = pairs[i].login
           /\ pairs'[i].out = pairs[i].out /\ pairs'[i].quit = pairs[i].quit
           /\ pairs[i].revoked => pairs'[i].revoked
           /\ pairs'[i].quit /\ pairs'[i].age = "live" => pairs'[i].denied
  PROVE  SessionsInv'
<1>1. SessionsTypeOK'
  BY DEF SessionsInv, SessionsTypeOK
<1>2. OneOwner' /\ OneLivePerLogin' /\ LoggedOutStaysOut'
  BY DEF SessionsInv, OneOwner, OneLivePerLogin, LoggedOutStaysOut
<1>3. QuitIsDenied'
  BY DEF SessionsInv, QuitIsDenied, SessionsTypeOK
<1>4. QED
  BY <1>1, <1>2, <1>3 DEF SessionsInv

(* A new pair of an existing login all of whose pairs are spent, or of a    *)
(* login of its own.                                                        *)
LEMMA PairAdded ==
  ASSUME SessionsInv, NEW s \in Seq(Pair), NEW u \in Users, NEW n \in 1 .. Len(s) + 1,
         UNCHANGED user, pairs' = Append(s, Granted(u, n)),
         DOMAIN s = DOMAIN pairs,
         calls' \in [Handlers -> {Idle} \cup GrantState \cup CallState],
         \A h \in Handlers : calls'[h] = calls[h] \/ calls'[h] = Idle,
         \A i \in DOMAIN s :
           /\ SameButRevoked(pairs[i], s[i])
           /\ s[i].login = n => s[i].revoked /\ ~s[i].out /\ s[i].owner = u
  PROVE  SessionsInv'
<1> DEFINE p == Granted(u, n)
<1>1. /\ p \in Pair /\ p.owner = u /\ p.login = n
      /\ ~p.revoked /\ ~p.out /\ ~p.quit
  BY GrantedIsPair
<1> HIDE DEF p
<1>2. pairs' = Append(s, p)
  BY DEF p
<1>3. /\ pairs' \in Seq(Pair) /\ DOMAIN pairs' = 1 .. Len(s) + 1
      /\ pairs'[Len(s) + 1] = p /\ Len(s) \in Nat /\ DOMAIN s = 1 .. Len(s)
      /\ \A i \in DOMAIN s : pairs'[i] = s[i]
  BY <1>1, <1>2, Appended
<1>4. \A i \in DOMAIN s :
        /\ pairs'[i].owner = pairs[i].owner /\ pairs'[i].login = pairs[i].login
        /\ pairs'[i].out = pairs[i].out /\ pairs'[i].quit = pairs[i].quit
        /\ pairs'[i].age = pairs[i].age /\ pairs'[i].denied = pairs[i].denied
        /\ pairs[i].revoked => pairs'[i].revoked
        /\ pairs'[i].login = n => pairs'[i].revoked /\ ~pairs'[i].out /\ pairs'[i].owner = u
  BY <1>3 DEF SameButRevoked
<1>5. \A i \in DOMAIN pairs' : i \in DOMAIN s \/ i = Len(s) + 1
  BY <1>3
<1>6. SessionsTypeOK'
  <2>1. \A i \in DOMAIN pairs' : pairs'[i].login \in DOMAIN pairs'
    <3>1. \A i \in DOMAIN s : pairs[i].login \in DOMAIN s
      BY DEF SessionsInv, SessionsTypeOK
    <3>2. QED
      BY <1>1, <1>3, <1>4, <1>5, <3>1
  <2>2. \A h \in Handlers : calls'[h] \in CallState => calls'[h].pair \in DOMAIN pairs'
    BY <1>3, IdleIsNoCall DEF SessionsInv, SessionsTypeOK
  <2>3. QED
    BY <1>3, <2>1, <2>2 DEF SessionsInv, SessionsTypeOK
<1>7. OneOwner'
  BY <1>1, <1>3, <1>4, <1>5 DEF SessionsInv, OneOwner
<1>8. OneLivePerLogin'
  BY <1>1, <1>3, <1>4, <1>5 DEF SessionsInv, OneLivePerLogin
<1>9. LoggedOutStaysOut'
  BY <1>1, <1>3, <1>4, <1>5 DEF SessionsInv, LoggedOutStaysOut
<1>10. QuitIsDenied'
  <2>1. \A i \in DOMAIN pairs' : pairs'[i].quit /\ pairs'[i].age = "live" => pairs'[i].denied
    BY <1>1, <1>3, <1>4, <1>5 DEF SessionsInv, QuitIsDenied
  <2>2. ASSUME NEW h \in Handlers, calls'[h] \in CallState, calls'[h].late
        PROVE  calls'[h].pc = "check" /\ pairs'[calls'[h].pair].quit
    <3>1. calls'[h] = calls[h]
      BY <2>2, IdleIsNoCall
    <3>2. calls[h].pair \in DOMAIN s
      BY <2>2, <3>1 DEF SessionsInv, SessionsTypeOK
    <3>3. QED
      BY <1>4, <2>2, <3>1, <3>2 DEF SessionsInv, QuitIsDenied
  <2>3. QED
    BY <2>1, <2>2 DEF QuitIsDenied
<1>11. QED
  BY <1>6, <1>7, <1>8, <1>9, <1>10 DEF SessionsInv

(***************************************************************************)
(* The actions                                                             *)
(***************************************************************************)

(* No pair, no request: SessionsInv holds at first.                                 *)
LEMMA SessionsInitInv == SessionsInit => SessionsInv
<1>1. ASSUME SessionsInit PROVE SessionsTypeOK
  <2>1. user \in [Users -> UserRow] /\ \A u \in Users : user[u].role = "absent" => ~user[u].active
    <3>1. ASSUME NEW u \in Users
          PROVE  user[u] \in UserRow /\ (user[u].role = "absent" => ~user[u].active)
      <4> DEFINE b == u \in Founders
      <4>1. user[u] = [role |-> IF b THEN "superadmin" ELSE "absent", active |-> b]
        BY <1>1 DEF SessionsInit
      <4>2. b \in BOOLEAN
        OBVIOUS
      <4> HIDE DEF b
      <4>3. QED
        BY <4>1, <4>2 DEF UserRow, Roles
    <3>2. QED
      BY <1>1, <3>1 DEF SessionsInit
  <2>2. pairs = <<>> /\ pairs \in Seq(Pair) /\ DOMAIN pairs = {}
    BY <1>1 DEF SessionsInit
  <2>3. /\ calls \in [Handlers -> {Idle} \cup GrantState \cup CallState]
        /\ \A h \in Handlers : calls[h] \notin CallState
    BY <1>1, IdleIsNoCall DEF SessionsInit
  <2>4. QED
    BY <2>1, <2>2, <2>3 DEF SessionsTypeOK
<1>2. ASSUME SessionsInit PROVE OneOwner /\ OneLivePerLogin /\ LoggedOutStaysOut /\ QuitIsDenied
  BY <1>2, IdleIsNoCall DEF SessionsInit, OneOwner, OneLivePerLogin, LoggedOutStaysOut, QuitIsDenied
<1>3. QED
  BY <1>1, <1>2 DEF SessionsInv

(* A login that has read its row touches no pair.                           *)
LEMMA LoginReadInv ==
  ASSUME SessionsInv, NEW h \in Handlers, NEW u \in Users, LoginRead(h, u) PROVE SessionsInv'
<1> DEFINE r == [pc |-> "granting", user |-> u]
<1>1. r \in GrantState /\ r \notin CallState
  BY DEF GrantState, CallState
<1>2. calls' = [calls EXCEPT ![h] = r]
  BY DEF LoginRead
<1> HIDE DEF r
<1>3. QED
  BY <1>1, <1>2, CallStep DEF LoginRead, SessionsInv, SessionsTypeOK

(* The pair of a login is the first of a family of its own.                 *)
LEMMA LoginGrantInv ==
  ASSUME SessionsInv, NEW h \in Handlers, LoginGrant(h) PROVE SessionsInv'
<1> DEFINE n == Len(pairs) + 1
           u == calls[h].user
<1>1. u \in Users
  BY RequestTypes DEF LoginGrant
<1>2. pairs \in Seq(Pair) /\ n \in 1 .. Len(pairs) + 1
  BY DEF SessionsInv, SessionsTypeOK
<1>3. \A i \in DOMAIN pairs : pairs[i].login # n
  BY <1>2 DEF SessionsInv, SessionsTypeOK
<1>4. pairs' = Append(pairs, Granted(u, n)) /\ UNCHANGED user
  BY DEF LoginGrant
<1>5. /\ calls' \in [Handlers -> {Idle} \cup GrantState \cup CallState]
      /\ \A g \in Handlers : calls'[g] = calls[g] \/ calls'[g] = Idle
  BY DEF LoginGrant, Done, SessionsInv, SessionsTypeOK
<1> HIDE DEF n, u
<1>6. \A i \in DOMAIN pairs :
        /\ SameButRevoked(pairs[i], pairs[i])
        /\ pairs[i].login = n => pairs[i].revoked /\ ~pairs[i].out /\ pairs[i].owner = u
  BY <1>3 DEF SameButRevoked
<1>7. QED
  BY <1>1, <1>2, <1>4, <1>5, <1>6, PairAdded

(* The refreshed pair was the live one of its login, so all are spent now.  *)
LEMMA RefreshInv ==
  ASSUME SessionsInv, NEW k \in DOMAIN pairs, Refresh(k) PROVE SessionsInv'
<1> DEFINE spent == [pairs EXCEPT ![k].revoked = TRUE]
<1>1. pairs \in Seq(Pair) /\ Len(pairs) \in Nat /\ DOMAIN pairs = 1 .. Len(pairs)
      /\ \A i \in DOMAIN pairs : pairs[i] \in Pair
  BY DEF SessionsInv, SessionsTypeOK
<1>2. /\ DOMAIN spent = DOMAIN pairs
      /\ spent = [i \in DOMAIN pairs |-> spent[i]]
      /\ spent[k] = [pairs[k] EXCEPT !.revoked = TRUE]
      /\ \A i \in DOMAIN pairs : i # k => spent[i] = pairs[i]
  BY <1>1
<1> HIDE DEF spent
<1>3. /\ spent[k].revoked /\ spent[k].owner = pairs[k].owner
      /\ spent[k].login = pairs[k].login /\ spent[k].out = pairs[k].out
      /\ spent[k].quit = pairs[k].quit /\ spent[k].age = pairs[k].age
      /\ spent[k].denied = pairs[k].denied /\ spent[k] \in Pair
  BY <1>1, <1>2 DEF Pair
<1>4. spent \in Seq(Pair)
  BY <1>1, <1>2, <1>3, InPlace
<1>5. CASE user[pairs[k].owner].active
  <2>1. pairs[k].owner \in Users /\ pairs[k].login \in DOMAIN pairs
    BY <1>1 DEF SessionsInv, SessionsTypeOK, Pair
  <2>2. pairs[k].login \in 1 .. Len(spent) + 1
    BY <1>1, <1>2, <1>4, <2>1
  <2>3. pairs' = Append(spent, Granted(pairs[k].owner, pairs[k].login))
    BY <1>5 DEF Refresh, spent
  <2>4. ASSUME NEW i \in DOMAIN spent
        PROVE  /\ SameButRevoked(pairs[i], spent[i])
               /\ spent[i].login = pairs[k].login =>
                    spent[i].revoked /\ ~spent[i].out /\ spent[i].owner = pairs[k].owner
    <3>1. SameButRevoked(pairs[i], spent[i])
      BY <1>2, <1>3 DEF SameButRevoked
    <3>3. ASSUME spent[i].login = pairs[k].login
          PROVE  spent[i].revoked /\ ~spent[i].out /\ spent[i].owner = pairs[k].owner
      <4>1. pairs[i].login = pairs[k].login /\ i \in DOMAIN pairs /\ spent[i].out = pairs[i].out
            /\ spent[i].owner = pairs[i].owner
        BY <1>2, <1>3, <3>3
      <4>2. pairs[i].owner = pairs[k].owner
        BY <4>1 DEF SessionsInv, OneOwner
      <4>3. ~pairs[i].out
        BY <4>1 DEF SessionsInv, LoggedOutStaysOut, Refresh
      <4>4. spent[i].revoked
        BY <1>2, <1>3, <4>1 DEF SessionsInv, OneLivePerLogin, Refresh
      <4>5. QED
        BY <4>1, <4>2, <4>3, <4>4
    <3>4. QED
      BY <3>1, <3>3
  <2>5. /\ calls' \in [Handlers -> {Idle} \cup GrantState \cup CallState]
        /\ \A h \in Handlers : calls'[h] = calls[h]
    BY DEF Refresh, SessionsInv, SessionsTypeOK
  <2>6. QED
    <3>1. UNCHANGED user /\ DOMAIN spent = DOMAIN pairs
      BY <1>2 DEF Refresh
    <3>2. QED
      BY <1>4, <2>1, <2>2, <2>3, <2>4, <2>5, <3>1, PairAdded, SMTT(40)
<1>6. CASE ~user[pairs[k].owner].active
  <2>1. pairs' = spent
    BY <1>6 DEF Refresh, spent
  <2>2. \A i \in DOMAIN pairs :
          /\ spent[i].owner = pairs[i].owner /\ spent[i].login = pairs[i].login
          /\ spent[i].out = pairs[i].out /\ spent[i].quit = pairs[i].quit
          /\ pairs[i].revoked => spent[i].revoked
          /\ spent[i].age = pairs[i].age /\ spent[i].denied = pairs[i].denied
    BY <1>2, <1>3
  <2>3. \A i \in DOMAIN pairs : spent[i].quit /\ spent[i].age = "live" => spent[i].denied
    BY <2>2 DEF SessionsInv, QuitIsDenied
  <2>4. QED
    <3>1. UNCHANGED <<user, calls>> /\ pairs' \in Seq(Pair) /\ DOMAIN pairs' = DOMAIN pairs
      BY <1>2, <1>4, <2>1 DEF Refresh
    <3>2. \A i \in DOMAIN pairs :
            /\ pairs'[i].owner = pairs[i].owner /\ pairs'[i].login = pairs[i].login
            /\ pairs'[i].out = pairs[i].out /\ pairs'[i].quit = pairs[i].quit
            /\ pairs[i].revoked => pairs'[i].revoked
            /\ pairs'[i].quit /\ pairs'[i].age = "live" => pairs'[i].denied
      BY <1>2, <2>1, <2>2, <2>3
    <3>3. QED
      BY <3>1, <3>2, PairsChanged
<1>7. QED
  BY <1>5, <1>6

(* The user table that SessionsInv holds of.                                        *)
LEMMA UserTypes ==
  ASSUME SessionsInv
  PROVE  /\ user \in [Users -> UserRow]
         /\ \A u \in Users : user[u].role = "absent" => ~user[u].active
  BY DEF SessionsInv, SessionsTypeOK

(* A request is late at first only if a logout with its token was answered. *)
LEMMA PresentInv ==
  ASSUME SessionsInv, NEW h \in Handlers, NEW i \in DOMAIN pairs, Present(h, i) PROVE SessionsInv'
<1> DEFINE b == pairs[i].quit /\ pairs[i].age = "live"
           r == [pc |-> "check", pair |-> i, late |-> b]
<1>1. i \in Nat
  BY DEF SessionsInv, SessionsTypeOK
<1>2. b \in BOOLEAN /\ (b => pairs[i].quit)
  OBVIOUS
<1>3. calls' = [calls EXCEPT ![h] = r] /\ UNCHANGED <<user, pairs>>
  BY DEF Present
<1> HIDE DEF b
<1>4. r \in CallState /\ r.pair = i /\ r.pc = "check" /\ (r.late => pairs[i].quit)
  BY <1>1, <1>2 DEF CallState
<1> HIDE DEF r
<1>5. QED
  BY <1>3, <1>4, UserTypes, CallStep

(* A denied token ends the request; one let through is not late, for its    *)
(* token would live, and a living token that was logged out is denied.      *)
LEMMA CheckDenyInv ==
  ASSUME SessionsInv, NEW h \in Handlers, CheckDeny(h) PROVE SessionsInv'
<1> DEFINE q == calls[h]
           b == q.late /\ pairs[q.pair].age = "live"
           r == [pc |-> "act", pair |-> q.pair, late |-> b]
<1>1. /\ q \in CallState /\ q.pair \in DOMAIN pairs /\ q.late \in BOOLEAN /\ q.pc = "check"
      /\ q.pair \in Nat
  BY RequestTypes DEF CheckDeny, At
<1>2. UNCHANGED <<user, pairs>>
  BY DEF CheckDeny
<1>3. CASE pairs[q.pair].denied
  <2>1. Done(h)
    BY <1>3 DEF CheckDeny, Done
  <2>2. QED
    BY <1>2, <2>1, UserTypes, DoneStep
<1>4. CASE ~pairs[q.pair].denied
  <2>1. calls' = [calls EXCEPT ![h] = r]
    BY <1>4 DEF CheckDeny
  <2>2. b \in BOOLEAN /\ ~b
    BY <1>1, <1>4 DEF SessionsInv, QuitIsDenied
  <2> HIDE DEF b, q
  <2>3. r \in CallState /\ r.pair = q.pair /\ ~r.late
    BY <1>1, <2>2 DEF CallState
  <2> HIDE DEF r
  <2>4. QED
    BY <1>1, <1>2, <2>1, <2>3, UserTypes, CallStep
<1>5. QED
  BY <1>3, <1>4

(* A request that is answered or dies changes nothing else.                 *)
LEMMA AnswerInv ==
  ASSUME SessionsInv, NEW h \in Handlers, Answer(h) \/ CallDies(h) PROVE SessionsInv'
  BY UserTypes, DoneStep DEF Answer, CallDies

(* A logout denies its token while there is time left, and goes on.         *)
LEMMA LogoutDenyInv ==
  ASSUME SessionsInv, NEW h \in Handlers, LogoutDeny(h) PROVE SessionsInv'
<1> DEFINE k == calls[h].pair
           b == pairs[k].denied \/ pairs[k].age = "live"
           r == [pc |-> "revoke", pair |-> k, late |-> FALSE]
<1>1. /\ calls[h] \in CallState /\ k \in DOMAIN pairs /\ calls[h].late \in BOOLEAN
      /\ calls[h].pc = "act" /\ k \in Nat
  BY RequestTypes DEF LogoutDeny, Acts, At
<1>2. ~calls[h].late
  BY <1>1 DEF SessionsInv, QuitIsDenied
<1>3. /\ pairs \in Seq(Pair) /\ \A i \in DOMAIN pairs : pairs[i] \in Pair
      /\ pairs' = [pairs EXCEPT ![k].denied = b]
      /\ b \in BOOLEAN /\ (pairs[k].denied => b)
  BY DEF SessionsInv, SessionsTypeOK, LogoutDeny
<1> HIDE DEF b
<1>4. /\ DOMAIN pairs' = DOMAIN pairs
      /\ pairs' = [i \in DOMAIN pairs |-> pairs'[i]]
      /\ pairs'[k] = [pairs[k] EXCEPT !.denied = b]
      /\ \A i \in DOMAIN pairs : i # k => pairs'[i] = pairs[i]
  BY <1>1, <1>3
<1>5. \A i \in DOMAIN pairs :
        /\ pairs'[i] \in Pair
        /\ pairs'[i].owner = pairs[i].owner /\ pairs'[i].login = pairs[i].login
        /\ pairs'[i].out = pairs[i].out /\ pairs'[i].quit = pairs[i].quit
        /\ pairs'[i].age = pairs[i].age /\ pairs'[i].revoked = pairs[i].revoked
        /\ pairs[i].denied => pairs'[i].denied
  <2>1. /\ pairs'[k] \in Pair /\ pairs'[k].owner = pairs[k].owner
        /\ pairs'[k].login = pairs[k].login /\ pairs'[k].out = pairs[k].out
        /\ pairs'[k].quit = pairs[k].quit /\ pairs'[k].age = pairs[k].age
        /\ pairs'[k].revoked = pairs[k].revoked /\ pairs'[k].denied = b
    BY <1>1, <1>3, <1>4, PairDenied
  <2>2. QED
    BY <1>3, <1>4, <2>1
<1>6. pairs' \in Seq(Pair)
  <2>1. DOMAIN pairs = 1 .. Len(pairs) /\ Len(pairs) \in Nat
    BY <1>3
  <2>2. pairs' \in [1 .. Len(pairs) -> Pair]
    BY <1>4, <1>5, <2>1
  <2>3. QED
    BY <2>1, <2>2
<1>7. calls' = [calls EXCEPT ![h] = [pc |-> "revoke", pair |-> k, late |-> FALSE]]
  <2> DEFINE q == calls[h]
  <2>1. q.late = FALSE
    BY <1>1, <1>2
  <2> HIDE DEF q
  <2>2. [q EXCEPT !.pc = "revoke"] = [pc |-> "revoke", pair |-> q.pair, late |-> q.late]
    BY <1>1 DEF CallState, q
  <2>3. QED
    BY <2>1, <2>2 DEF LogoutDeny, q
<1>8. r \in CallState /\ r.pair = k /\ ~r.late
  BY <1>1 DEF CallState
<1> HIDE DEF k, r
<1>9. /\ calls' \in [Handlers -> {Idle} \cup GrantState \cup CallState]
      /\ calls'[h] = r /\ \A g \in Handlers : g # h => calls'[g] = calls[g]
  BY <1>7, <1>8 DEF SessionsInv, SessionsTypeOK, r
<1>10. SessionsTypeOK'
  <2>1. \A i \in DOMAIN pairs' : pairs'[i].login \in DOMAIN pairs'
    BY <1>4, <1>5 DEF SessionsInv, SessionsTypeOK
  <2>2. \A g \in Handlers : calls'[g] \in CallState => calls'[g].pair \in DOMAIN pairs'
    BY <1>1, <1>4, <1>8, <1>9 DEF SessionsInv, SessionsTypeOK
  <2>3. user' \in [Users -> UserRow] /\ \A u \in Users : user'[u].role = "absent" => ~user'[u].active
    BY UserTypes DEF LogoutDeny
  <2>4. QED
    BY <1>6, <1>9, <2>1, <2>2, <2>3 DEF SessionsTypeOK
<1>11. OneOwner' /\ OneLivePerLogin' /\ LoggedOutStaysOut'
  BY <1>4, <1>5 DEF SessionsInv, OneOwner, OneLivePerLogin, LoggedOutStaysOut
<1>12. QuitIsDenied'
  <2>1. \A i \in DOMAIN pairs' : pairs'[i].quit /\ pairs'[i].age = "live" => pairs'[i].denied
    BY <1>4, <1>5 DEF SessionsInv, QuitIsDenied
  <2>2. \A g \in Handlers : calls'[g] \in CallState /\ calls'[g].late =>
          calls'[g].pc = "check" /\ pairs'[calls'[g].pair].quit
    BY <1>5, <1>8, <1>9 DEF SessionsInv, QuitIsDenied, SessionsTypeOK
  <2>3. QED
    BY <2>1, <2>2 DEF QuitIsDenied
<1>13. QED
  BY <1>10, <1>11, <1>12 DEF SessionsInv

(* A logout ends every pair of the caller: the pairs of a login have one    *)
(* owner, so no pair of a login that it ends is left live.                  *)
LEMMA LogoutRevokeInv ==
  ASSUME SessionsInv, NEW h \in Handlers, LogoutRevoke(h) PROVE SessionsInv'
<1> DEFINE k == calls[h].pair
           c == Caller(h)
           b(i) == pairs[i].quit \/ (i = k /\ pairs[i].denied)
<1>1. /\ pairs \in Seq(Pair) /\ DOMAIN pairs = 1 .. Len(pairs) /\ Len(pairs) \in Nat
      /\ \A i \in DOMAIN pairs : pairs[i] \in Pair
      /\ UNCHANGED user /\ Done(h)
  <2>1. UNCHANGED user /\ Done(h)
    BY DEF LogoutRevoke
  <2>2. QED
    BY <2>1 DEF SessionsInv, SessionsTypeOK
<1>2. pairs' = [i \in DOMAIN pairs |->
                 IF pairs[i].owner # c THEN pairs[i]
                 ELSE [pairs[i] EXCEPT !.revoked = TRUE, !.out = TRUE, !.quit = b(i)]]
  BY DEF LogoutRevoke
<1> HIDE DEF c, k
<1>3. ASSUME NEW i \in DOMAIN pairs
      PROVE  /\ pairs'[i] \in Pair
             /\ pairs'[i].owner = pairs[i].owner /\ pairs'[i].login = pairs[i].login
             /\ pairs'[i].age = pairs[i].age /\ pairs'[i].denied = pairs[i].denied
             /\ pairs[i].revoked => pairs'[i].revoked
             /\ pairs[i].owner = c => pairs'[i].revoked
             /\ pairs'[i].out => pairs[i].out \/ pairs[i].owner = c
             /\ pairs[i].quit => pairs'[i].quit
             /\ pairs'[i].quit => pairs[i].quit \/ pairs[i].denied
  <2>1. CASE pairs[i].owner # c
    BY <1>1, <1>2, <2>1
  <2>2. CASE pairs[i].owner = c
    <3> DEFINE n == b(i)
    <3>1. n \in BOOLEAN /\ (pairs[i].quit => n) /\ (n => pairs[i].quit \/ pairs[i].denied)
      OBVIOUS
    <3>2. pairs'[i] = [pairs[i] EXCEPT !.revoked = TRUE, !.out = TRUE, !.quit = n]
      BY <1>2, <2>2
    <3> HIDE DEF n
    <3>3. pairs[i] \in Pair
      BY <1>1
    <3>4. /\ pairs'[i] \in Pair /\ pairs'[i].owner = pairs[i].owner
          /\ pairs'[i].login = pairs[i].login /\ pairs'[i].out
          /\ pairs'[i].quit = n /\ pairs'[i].revoked /\ pairs'[i].age = pairs[i].age
          /\ pairs'[i].denied = pairs[i].denied
      <4> DEFINE p == pairs[i]
                 q == pairs'[i]
      <4>1. p \in Pair /\ q = [p EXCEPT !.revoked = TRUE, !.out = TRUE, !.quit = n]
        BY <3>2, <3>3
      <4> HIDE DEF p, q
      <4>2. /\ q \in Pair /\ q.owner = p.owner /\ q.login = p.login /\ q.out
            /\ q.quit = n /\ q.revoked /\ q.age = p.age /\ q.denied = p.denied
        BY <3>1, <4>1 DEF Pair
      <4>3. QED
        BY <4>2 DEF p, q
    <3>5. QED
      BY <2>2, <3>1, <3>4
  <2>3. QED
    BY <2>1, <2>2
<1> HIDE DEF b
<1>4. DOMAIN pairs' = DOMAIN pairs /\ pairs' \in Seq(Pair)
  <2>1. DOMAIN pairs' = DOMAIN pairs /\ pairs' = [i \in DOMAIN pairs |-> pairs'[i]]
    BY <1>2
  <2>2. QED
    BY <1>1, <1>3, <2>1, InPlace
<1>5. /\ calls' \in [Handlers -> {Idle} \cup GrantState \cup CallState]
      /\ \A g \in Handlers : calls'[g] \in CallState => calls'[g] = calls[g]
  BY <1>1, IdleIsNoCall DEF Done, SessionsInv, SessionsTypeOK
<1>6. SessionsTypeOK'
  BY <1>1, <1>3, <1>4, <1>5 DEF SessionsInv, SessionsTypeOK
<1>7. OneOwner' /\ OneLivePerLogin'
  BY <1>3, <1>4 DEF SessionsInv, OneOwner, OneLivePerLogin
<1>8. LoggedOutStaysOut'
  BY <1>3, <1>4 DEF SessionsInv, OneOwner, LoggedOutStaysOut
<1>9. QuitIsDenied'
  <2>1. \A i \in DOMAIN pairs' : pairs'[i].quit /\ pairs'[i].age = "live" => pairs'[i].denied
    BY <1>3, <1>4 DEF SessionsInv, QuitIsDenied
  <2>2. \A g \in Handlers : calls'[g] \in CallState /\ calls'[g].late =>
          calls'[g].pc = "check" /\ pairs'[calls'[g].pair].quit
    BY <1>3, <1>5 DEF SessionsInv, QuitIsDenied, SessionsTypeOK
  <2>3. QED
    BY <2>1, <2>2 DEF QuitIsDenied
<1>10. QED
  BY <1>6, <1>7, <1>8, <1>9 DEF SessionsInv

(* What the routes of the accounts make of the user table.                  *)
LEMMA AccountTypes ==
  ASSUME SessionsInv, NEW h \in Handlers, NEW u \in Users,
         \/ \E role \in Roles : CreateUser(h, u, role)
         \/ \E row \in [role: Roles, active: BOOLEAN] : PatchUser(h, u, row)
         \/ DeactivateUser(h, u)
  PROVE  /\ Done(h) /\ UNCHANGED pairs
         /\ user' \in [Users -> UserRow]
         /\ \A v \in Users : user'[v].role = "absent" => ~user'[v].active
<1>1. /\ user \in [Users -> UserRow] /\ user[u] \in UserRow
      /\ \A v \in Users : user[v].role = "absent" => ~user[v].active
  BY UserTypes
<1>2. ASSUME NEW row \in [role: Roles, active: BOOLEAN],
             user' = user \/ user' = [user EXCEPT ![u] = row]
      PROVE  /\ user' \in [Users -> UserRow]
             /\ \A v \in Users : user'[v].role = "absent" => ~user'[v].active
  BY <1>1, <1>2 DEF UserRow, Roles
<1>3. CASE \E role \in Roles : CreateUser(h, u, role)
  <2>1. PICK role \in Roles : CreateUser(h, u, role)
    BY <1>3
  <2> DEFINE row == [role |-> role, active |-> TRUE]
  <2>2. row \in [role: Roles, active: BOOLEAN]
    OBVIOUS
  <2>3. user' = user \/ user' = [user EXCEPT ![u] = row]
    BY <2>1 DEF CreateUser
  <2> HIDE DEF row
  <2>4. QED
    BY <1>2, <2>1, <2>2, <2>3 DEF CreateUser
<1>4. CASE \E row \in [role: Roles, active: BOOLEAN] : PatchUser(h, u, row)
  <2>1. PICK row \in [role: Roles, active: BOOLEAN] : PatchUser(h, u, row)
    BY <1>4
  <2>2. user' = user \/ user' = [user EXCEPT ![u] = row]
    BY <2>1 DEF PatchUser
  <2>3. QED
    BY <1>2, <2>1, <2>2 DEF PatchUser
<1>5. CASE DeactivateUser(h, u)
  <2>1. user' = user \/ user' = [user EXCEPT ![u].active = FALSE]
    BY <1>5 DEF DeactivateUser
  <2> DEFINE p == user[u]
             q == [p EXCEPT !.active = FALSE]
  <2>2. p \in UserRow /\ (user' = user \/ user' = [user EXCEPT ![u] = q])
    BY <1>1, <2>1
  <2> HIDE DEF p
  <2>3. q \in UserRow /\ ~q.active
    BY <2>2 DEF UserRow
  <2> HIDE DEF q
  <2>4. /\ user' \in [Users -> UserRow]
        /\ \A v \in Users : user'[v].role = "absent" => ~user'[v].active
    BY <1>1, <2>2, <2>3
  <2>5. QED
    BY <1>5, <2>4 DEF DeactivateUser
<1>6. QED
  BY <1>3, <1>4, <1>5

(* A token that grows old, or whose key on the denylist lapses, is not live.*)
LEMMA TimeInv ==
  ASSUME SessionsInv, NEW k \in DOMAIN pairs, GrowOld(k) \/ DenyLapses(k) PROVE SessionsInv'
<1>1. /\ \A i \in DOMAIN pairs : pairs[i] \in Pair
      /\ pairs \in Seq(Pair) /\ UNCHANGED <<user, calls>>
  BY DEF SessionsInv, SessionsTypeOK, GrowOld, DenyLapses
<1>2. PICK a \in {"last", "expired"}, b \in BOOLEAN :
        pairs' = [pairs EXCEPT ![k] = [pairs[k] EXCEPT !.age = a, !.denied = b]]
  <2>1. CASE GrowOld(k)
    <3> DEFINE a == IF pairs[k].age = "live" THEN "last" ELSE "expired"
               b == pairs[k].denied /\ pairs[k].age = "live"
    <3>1. a \in {"last", "expired"} /\ b \in BOOLEAN
      OBVIOUS
    <3>2. pairs' = [pairs EXCEPT ![k].age = a, ![k].denied = b]
      BY <2>1 DEF GrowOld
    <3> HIDE DEF a, b
    <3>3. pairs' = [pairs EXCEPT ![k] = [pairs[k] EXCEPT !.age = a, !.denied = b]]
      BY <3>2
    <3>4. QED
      BY <3>1, <3>3
  <2>2. CASE DenyLapses(k)
    <3>1. [pairs[k] EXCEPT !.denied = FALSE] = [pairs[k] EXCEPT !.age = "last", !.denied = FALSE]
      BY <1>1, <2>2 DEF DenyLapses, Pair
    <3>2. pairs' = [pairs EXCEPT ![k] = [pairs[k] EXCEPT !.denied = FALSE]]
      BY <2>2 DEF DenyLapses
    <3>3. QED
      BY <3>1, <3>2
  <2>3. QED
    BY <2>1, <2>2
<1>3. /\ DOMAIN pairs' = DOMAIN pairs /\ pairs' = [i \in DOMAIN pairs |-> pairs'[i]]
      /\ pairs'[k] = [pairs[k] EXCEPT !.age = a, !.denied = b]
      /\ \A i \in DOMAIN pairs : i # k => pairs'[i] = pairs[i]
  BY <1>1, <1>2
<1>4. /\ pairs'[k] \in Pair /\ pairs'[k].owner = pairs[k].owner
      /\ pairs'[k].login = pairs[k].login /\ pairs'[k].out = pairs[k].out
      /\ pairs'[k].quit = pairs[k].quit /\ pairs'[k].revoked = pairs[k].revoked
      /\ pairs'[k].age # "live"
  <2> DEFINE p == pairs[k]
             q == pairs'[k]
  <2>1. p \in Pair /\ q = [p EXCEPT !.age = a, !.denied = b]
    BY <1>1, <1>3
  <2> HIDE DEF p, q
  <2>2. /\ q \in Pair /\ q.owner = p.owner /\ q.login = p.login /\ q.out = p.out
        /\ q.quit = p.quit /\ q.revoked = p.revoked /\ q.age = a
    BY <2>1 DEF Pair
  <2>3. QED
    BY <2>2 DEF p, q
<1>5. pairs' \in Seq(Pair)
  <2>1. \A i \in DOMAIN pairs : pairs'[i] \in Pair
    BY <1>1, <1>3, <1>4
  <2>2. QED
    BY <1>1, <1>3, <2>1, InPlace
<1>6. \A i \in DOMAIN pairs :
        /\ pairs'[i].owner = pairs[i].owner /\ pairs'[i].login = pairs[i].login
        /\ pairs'[i].out = pairs[i].out /\ pairs'[i].quit = pairs[i].quit
        /\ pairs[i].revoked => pairs'[i].revoked
        /\ pairs'[i].quit /\ pairs'[i].age = "live" => pairs'[i].denied
  BY <1>3, <1>4 DEF SessionsInv, QuitIsDenied
<1>7. QED
  BY <1>1, <1>3, <1>5, <1>6, PairsChanged

(***************************************************************************)
(* The invariant                                                           *)
(***************************************************************************)

(* Every action keeps SessionsInv.                                                  *)
LEMMA SessionsNextInv == SessionsInv /\ [SessionsNext]_sessions => SessionsInv'
<1> SUFFICES ASSUME SessionsInv, [SessionsNext]_sessions PROVE SessionsInv'
  OBVIOUS
<1>1. ASSUME NEW h \in Handlers, NEW u \in Users, LoginRead(h, u) PROVE SessionsInv'
  BY <1>1, LoginReadInv
<1>2. ASSUME NEW h \in Handlers, NEW i \in DOMAIN pairs, Present(h, i) PROVE SessionsInv'
  BY <1>2, PresentInv
<1>3. ASSUME NEW h \in Handlers,
             \/ LoginGrant(h) \/ CheckDeny(h) \/ Answer(h) \/ CallDies(h)
             \/ LogoutDeny(h) \/ LogoutRevoke(h)
      PROVE  SessionsInv'
  BY <1>3, LoginGrantInv, CheckDenyInv, AnswerInv, LogoutDenyInv, LogoutRevokeInv
<1>4. ASSUME NEW h \in Handlers, NEW u \in Users,
             \/ \E role \in Roles : CreateUser(h, u, role)
             \/ \E row \in [role: Roles, active: BOOLEAN] : PatchUser(h, u, row)
             \/ DeactivateUser(h, u)
      PROVE  SessionsInv'
  BY <1>4, AccountTypes, DoneStep
<1>5. ASSUME NEW i \in DOMAIN pairs, Refresh(i) \/ GrowOld(i) \/ DenyLapses(i) PROVE SessionsInv'
  BY <1>5, RefreshInv, TimeInv
<1>6. ASSUME UNCHANGED sessions PROVE SessionsInv'
  BY <1>6 DEF sessions, SessionsInv, SessionsTypeOK, OneOwner, OneLivePerLogin, LoggedOutStaysOut, QuitIsDenied
<1>7. QED
  BY <1>1, <1>2, <1>3, <1>4, <1>5, <1>6 DEF SessionsNext

(* SessionsInv holds throughout.                                                    *)
LEMMA SessionsSpecInv == SessionsSpec => []SessionsInv
  BY SessionsInitInv, SessionsNextInv, PTL DEF SessionsSpec

(* Of the tokens that descend from a login one at most can be refreshed,    *)
(* and none once a logout has ended it: routers/auth.py, whatever the       *)
(* interleaving of logins, refreshes and logouts.                           *)
THEOREM TokensFollow == SessionsSpec => []TokensFollowTheirLogin
<1>1. SessionsInv => TokensFollowTheirLogin
  BY DEF SessionsInv, TokensFollowTheirLogin
<1>2. QED
  BY <1>1, SessionsSpecInv, PTL

(* deps.py with the denylist that logout sets: a logged-out access token is *)
(* not served again while it has more than a second to live.                *)
THEOREM LogoutIsNow == SessionsSpec => []LogoutIsImmediate
<1>1. SessionsInv => LogoutIsImmediate
  BY DEF SessionsInv, QuitIsDenied, LogoutIsImmediate
<1>2. QED
  BY <1>1, SessionsSpecInv, PTL

(***************************************************************************)
(* What a step may not do                                                  *)
(***************************************************************************)

(* The routes of the accounts leave an administrator, the caller if need    *)
(* be, unless the caller patches the account that makes the call.           *)
LEMMA AdminStays ==
  ASSUME SessionsInv, NEW h \in Handlers, NEW u \in Users, NEW v \in Users, IsAdmin(v),
         \/ \E role \in Roles : CreateUser(h, u, role)
         \/ \E row \in [role: Roles, active: BOOLEAN] : PatchUser(h, u, row)
         \/ DeactivateUser(h, u)
  PROVE  \/ \E w \in Users : user'[w].active /\ user'[w].role \in Admins
         \/ \E row \in [role: Roles, active: BOOLEAN] : PatchUser(h, Caller(h), row)
<1> DEFINE c == Caller(h)
           StillAdmin(w) == user'[w].active /\ user'[w].role \in Admins
<1>1. c \in Users
  <2>1. At(h, "act")
    BY DEF CreateUser, PatchUser, DeactivateUser, Acts
  <2>2. QED
    BY <2>1, RequestTypes
<1>2. user \in [Users -> UserRow] /\ (user[u].role = "absent" => ~user[u].active)
  BY UserTypes
<1>3. CASE user' = user
  BY <1>3 DEF IsAdmin
<1>4. ASSUME IsAdmin(c), u # c, NEW row, user' = [user EXCEPT ![u] = row]
      PROVE  StillAdmin(c)
  BY <1>1, <1>2, <1>4 DEF IsAdmin
<1>5. CASE (\E role \in Roles : CreateUser(h, u, role)) /\ user' # user
  <2>1. PICK role \in Roles : CreateUser(h, u, role)
    BY <1>5
  <2>2. user[u].role = "absent" /\ user' = [user EXCEPT ![u] = [role |-> role, active |-> TRUE]]
    BY <1>5, <2>1 DEF CreateUser
  <2>3. v # u
    BY <1>2, <2>2 DEF IsAdmin
  <2>4. user'[v] = user[v]
    BY <1>2, <2>2, <2>3
  <2>5. StillAdmin(v)
    BY <2>4 DEF IsAdmin
  <2>6. QED
    BY <2>5
<1>6. CASE (\E row \in [role: Roles, active: BOOLEAN] : PatchUser(h, u, row)) /\ user' # user
  <2>1. PICK row \in [role: Roles, active: BOOLEAN] : PatchUser(h, u, row)
    BY <1>6
  <2>2. CASE u = c
    BY <2>1, <2>2
  <2>3. CASE u # c
    <3>1. IsAdmin(c) /\ user' = [user EXCEPT ![u] = row]
      BY <1>6, <2>1 DEF PatchUser
    <3>2. QED
      BY <1>1, <1>4, <2>3, <3>1
  <2>4. QED
    BY <2>2, <2>3
<1>7. CASE DeactivateUser(h, u) /\ user' # user
  <2>1. /\ IsAdmin(c) /\ u # c
        /\ user' = [user EXCEPT ![u] = [user[u] EXCEPT !.active = FALSE]]
    BY <1>7 DEF DeactivateUser
  <2>2. QED
    BY <1>1, <1>4, <2>1
<1>8. QED
  BY <1>3, <1>5, <1>6, <1>7

(* A step that grants a pair grants the one that is new.                    *)
LEMMA NewPair ==
  ASSUME SessionsInv, NEW s \in Seq(Pair), DOMAIN s = DOMAIN pairs, NEW u \in Users, NEW n \in Nat,
         pairs' = Append(s, Granted(u, n))
  PROVE  \A i \in DOMAIN pairs' \ DOMAIN pairs : pairs'[i].owner = u
<1>1. Granted(u, n) \in Pair /\ Granted(u, n).owner = u
  BY GrantedIsPair
<1>2. /\ Len(s) \in Nat /\ DOMAIN s = 1 .. Len(s)
      /\ DOMAIN pairs' = 1 .. Len(s) + 1 /\ pairs'[Len(s) + 1] = Granted(u, n)
  BY <1>1, Appended
<1>3. QED
  BY <1>1, <1>2

(* A grant is to an account that is active now, or was when its login read. *)
LEMMA GrantsAreMinded ==
  ASSUME SessionsInv, [SessionsNext]_sessions
  PROVE  \A i \in DOMAIN pairs' \ DOMAIN pairs :
           \/ user[pairs'[i].owner].active
           \/ \E h \in Handlers : At(h, "granting") /\ calls[h].user = pairs'[i].owner
<1>1. pairs \in Seq(Pair) /\ DOMAIN pairs = 1 .. Len(pairs) /\ Len(pairs) \in Nat
  BY DEF SessionsInv, SessionsTypeOK
<1>2. CASE \E h \in Handlers : LoginGrant(h)
  <2>1. PICK h \in Handlers : LoginGrant(h)
    BY <1>2
  <2>2. At(h, "granting") /\ calls[h].user \in Users
    BY <2>1, RequestTypes DEF LoginGrant
  <2>3. \A i \in DOMAIN pairs' \ DOMAIN pairs : pairs'[i].owner = calls[h].user
    <3> DEFINE n == Len(pairs) + 1
               u == calls[h].user
    <3>1. pairs' = Append(pairs, Granted(u, n)) /\ n \in Nat /\ u \in Users
      BY <1>1, <2>1, <2>2 DEF LoginGrant
    <3> HIDE DEF n, u
    <3>2. \A i \in DOMAIN pairs' \ DOMAIN pairs : pairs'[i].owner = u
      BY <1>1, <3>1, NewPair
    <3>3. QED
      BY <3>2 DEF u
  <2>4. QED
    BY <2>2, <2>3
<1>3. CASE \E k \in DOMAIN pairs : Refresh(k)
  <2>1. PICK k \in DOMAIN pairs : Refresh(k)
    BY <1>3
  <2> DEFINE spent == [pairs EXCEPT ![k].revoked = TRUE]
             p == pairs[k]
             q == [p EXCEPT !.revoked = TRUE]
  <2>2. DOMAIN spent = DOMAIN pairs /\ spent = [i \in DOMAIN pairs |-> IF i = k THEN q ELSE pairs[i]]
    BY <1>1
  <2>3. p \in Pair /\ (\A i \in DOMAIN pairs : pairs[i] \in Pair)
    BY <1>1
  <2>4. /\ user[p.owner].active => pairs' = Append(spent, Granted(p.owner, p.login))
        /\ ~user[p.owner].active => pairs' = spent
    BY <2>1 DEF Refresh
  <2> HIDE DEF p, spent
  <2>5. q \in Pair /\ p.owner \in Users /\ p.login \in Nat
    BY <2>3 DEF Pair
  <2> HIDE DEF q
  <2>6. spent \in Seq(Pair)
    BY <1>1, <2>2, <2>3, <2>5, InPlace
  <2>7. CASE user[p.owner].active
    <3>1. \A i \in DOMAIN pairs' \ DOMAIN pairs : pairs'[i].owner = p.owner
      BY <2>2, <2>4, <2>5, <2>6, <2>7, NewPair
    <3>2. QED
      BY <2>7, <3>1
  <2>8. CASE ~user[p.owner].active
    BY <2>2, <2>4, <2>8
  <2>9. QED
    BY <2>7, <2>8
<1>4. CASE DOMAIN pairs' = DOMAIN pairs
  BY <1>4
<1>5. ASSUME NEW h \in Handlers, NEW u \in Users,
             \/ LoginRead(h, u) \/ (\E i \in DOMAIN pairs : Present(h, i))
             \/ CheckDeny(h) \/ Answer(h) \/ CallDies(h)
             \/ (\E role \in Roles : CreateUser(h, u, role))
             \/ (\E row \in [role: Roles, active: BOOLEAN] : PatchUser(h, u, row))
             \/ DeactivateUser(h, u)
      PROVE  DOMAIN pairs' = DOMAIN pairs
  BY <1>5 DEF LoginRead, Present, CheckDeny, Answer, CallDies, CreateUser, PatchUser, DeactivateUser
<1>6. ASSUME NEW h \in Handlers,
             LoginGrant(h) \/ CheckDeny(h) \/ Answer(h) \/ CallDies(h) \/ LogoutDeny(h) \/ LogoutRevoke(h)
             \/ \E i \in DOMAIN pairs : Present(h, i)
      PROVE  LoginGrant(h) \/ DOMAIN pairs' = DOMAIN pairs
  BY <1>6 DEF Present, CheckDeny, Answer, CallDies, LogoutDeny, LogoutRevoke
<1>7. ASSUME NEW i \in DOMAIN pairs, Refresh(i) \/ GrowOld(i) \/ DenyLapses(i)
      PROVE  Refresh(i) \/ DOMAIN pairs' = DOMAIN pairs
  BY <1>7 DEF GrowOld, DenyLapses
<1>8. UNCHANGED sessions => DOMAIN pairs' = DOMAIN pairs
  BY DEF sessions
<1>9. QED
  BY <1>2, <1>3, <1>4, <1>5, <1>6, <1>7, <1>8 DEF SessionsNext

(* The last administrator goes only by a PATCH of the caller's own account. *)
LEMMA AdminsRemain ==
  ASSUME SessionsInv, [SessionsNext]_sessions, NEW v \in Users, IsAdmin(v)
  PROVE  \/ \E w \in Users : user'[w].active /\ user'[w].role \in Admins
         \/ \E h \in Handlers, row \in [role: Roles, active: BOOLEAN] :
              PatchUser(h, Caller(h), row)
<1>1. CASE user' = user
  BY <1>1 DEF IsAdmin
<1>2. ASSUME NEW h \in Handlers,
             \/ \E u \in Users : LoginRead(h, u)
             \/ LoginGrant(h)
             \/ \E i \in DOMAIN pairs : Present(h, i)
             \/ CheckDeny(h) \/ Answer(h)
             \/ LogoutDeny(h) \/ LogoutRevoke(h) \/ CallDies(h)
      PROVE  user' = user
  BY <1>2 DEF LoginRead, LoginGrant, Present, CheckDeny, Answer, CallDies, LogoutDeny, LogoutRevoke
<1>3. ASSUME NEW i \in DOMAIN pairs, Refresh(i) \/ GrowOld(i) \/ DenyLapses(i)
      PROVE  user' = user
  BY <1>3 DEF Refresh, GrowOld, DenyLapses
<1>4. UNCHANGED sessions => user' = user
  BY DEF sessions
<1>5. ASSUME NEW h \in Handlers, NEW u \in Users,
             \/ \E role \in Roles : CreateUser(h, u, role)
             \/ \E row \in [role: Roles, active: BOOLEAN] : PatchUser(h, u, row)
             \/ DeactivateUser(h, u)
      PROVE  \/ \E w \in Users : user'[w].active /\ user'[w].role \in Admins
             \/ \E row \in [role: Roles, active: BOOLEAN] : PatchUser(h, Caller(h), row)
  BY <1>5, AdminStays
<1>6. QED
  BY <1>1, <1>2, <1>3, <1>4, <1>5 DEF SessionsNext

(* routers/auth.py and routers/users.py: no refresh grants a pair to an     *)
(* account that was deactivated, and no sequence of deactivations, however  *)
(* they interleave, leaves an installation without an administrator.        *)
THEOREM AccountsMinded == SessionsSpec => AccountsAreMinded
<1>1. SessionsInv /\ [SessionsNext]_sessions =>
        [\A i \in DOMAIN pairs' \ DOMAIN pairs :
           \/ user[pairs'[i].owner].active
           \/ \E h \in Handlers : At(h, "granting") /\ calls[h].user = pairs'[i].owner]_sessions
  BY GrantsAreMinded
<1>2. SessionsInv /\ [SessionsNext]_sessions =>
        [(\E u \in Users : IsAdmin(u)) /\ ~(\E u \in Users : IsAdmin(u))' =>
           \E h \in Handlers, row \in [role: Roles, active: BOOLEAN] :
             PatchUser(h, Caller(h), row)]_sessions
  <2> SUFFICES ASSUME SessionsInv, [SessionsNext]_sessions, NEW v \in Users, IsAdmin(v),
                      ~(\E u \in Users : IsAdmin(u))'
               PROVE  \E h \in Handlers, row \in [role: Roles, active: BOOLEAN] :
                        PatchUser(h, Caller(h), row)
    OBVIOUS
  <2>1. ~\E w \in Users : user'[w].active /\ user'[w].role \in Admins
    BY DEF IsAdmin
  <2>2. QED
    BY <2>1, AdminsRemain
<1>3. QED
  BY <1>1, <1>2, SessionsSpecInv, PTL
     DEF SessionsSpec, AccountsAreMinded, InactiveIsGrantedNothing, SomeAdminRemains
=============================================================================
