------------------------ MODULE OperatorDesk_proofs ------------------------
(***************************************************************************)
(* What OperatorDesk promises, for any cameras, webhooks, items, page size *)
(* and clock.                                                              *)
(*                                                                         *)
(* Deliveries, the walk and the review have an invariant each: the         *)
(* subscribers a delivery owes a post are still before it, and the alerts  *)
(* a walk owes the operator are older than its cursor.                     *)
(***************************************************************************)
EXTENDS OperatorDesk, FiniteSetTheorems, SequenceTheorems, WellFoundedInduction, TLAPS

(* A delivery's subscribers that were left alone are among the webhooks it  *)
(* has still to visit, and it will find that they subscribe: in the row it  *)
(* reads, or in the values it holds.                                        *)
LoopIsSound(f) ==
  /\ f.due \subseteq f.rows
  /\ f.due \subseteq Subscribed
  /\ f.fresh => f.due \subseteq f.held
  /\ f.pc = "record" => f.cur \in Hooks

LoopsAreSound == \A c \in Cams : cam[c] \in FireState => LoopIsSound(cam[c])

(* Alerts that are on no page yet are older than the cursor, those that are *)
(* on one are not.                                                          *)
WalkIsSound ==
  walk # Idle =>
    /\ walk.todo \subseteq Listed(walk.new)
    /\ walk.pc = "page" =>
         /\ \A a \in walk.todo \ (walk.shown \cup walk.tied) : alerts[a].at < walk.cursor
         /\ \A a \in walk.shown : a \in DOMAIN alerts /\ alerts[a].at >= walk.cursor

AlertsFit == Len(alerts) <= MaxAlerts

DeliveryInv == TypeOK /\ AlertsFit /\ LoopsAreSound /\ SkippedOnlyByFailure

Inv == DeliveryInv /\ WalkIsSound /\ WalkIsExact /\ LabelMatchesRow

USE DeskAssumption

(***************************************************************************)
(* Deliveries                                                              *)
(***************************************************************************)

(* A camera's state is told by its pc.                                      *)
LEMMA CamKinds ==
  ASSUME TypeOK, NEW c \in Cams
  PROVE  /\ cam[c] \in {Idle} \cup RaiseState \cup FireState
         /\ Idle \notin FireState
         /\ \A r \in RaiseState : r \notin FireState
         /\ cam[c] \in RaiseState => cam[c].at \in 0 .. MaxTime
  BY DEF TypeOK, Idle, RaiseState, FireState

(* One camera's step, and none for the webhooks.                            *)
LEMMA OneCamera ==
  ASSUME TypeOK, LoopsAreSound, NEW c \in Cams, NEW f \in {Idle} \cup RaiseState \cup FireState,
         cam' = [cam EXCEPT ![c] = f], hook' = hook,
         f \in FireState => LoopIsSound(f)
  PROVE  LoopsAreSound' /\ cam' \in [Cams -> {Idle} \cup RaiseState \cup FireState]
<1>1. Subscribed' = Subscribed
  BY DEF Subscribed
<1>2. cam'[c] = f /\ \A d \in Cams : d # c => cam'[d] = cam[d]
  BY DEF TypeOK
<1>3. QED
  BY <1>1, <1>2 DEF TypeOK, LoopsAreSound, LoopIsSound

(* A record writes the status code of a row that is there, or nothing.      *)
LEMMA CodeStep ==
  ASSUME TypeOK, NEW w \in Hooks, NEW code \in Codes,
         hook' = IF hook[w] # None THEN [hook EXCEPT ![w].code = code] ELSE hook
  PROVE  /\ hook' \in [Hooks -> Hook \cup {None}]
         /\ Subscribed' = Subscribed
         /\ \A v \in Hooks :
              \/ hook'[v] = hook[v]
              \/ hook[v] # None /\ hook'[v] = [hook[v] EXCEPT !.code = code]
<1>1. CASE hook[w] # None
  <2> DEFINE r == [hook[w] EXCEPT !.code = code]
  <2>1. hook[w] \in Hook
    BY <1>1 DEF TypeOK
  <2>2. r \in Hook /\ r.events = hook[w].events
    BY <2>1 DEF Hook
  <2>3. r = [hook[w] EXCEPT !.code = code]
    OBVIOUS
  <2>4. hook' = [hook EXCEPT ![w] = r]
    BY <1>1 DEF TypeOK
  <2> HIDE DEF r
  <2>5. hook'[w] = r /\ \A v \in Hooks : v # w => hook'[v] = hook[v]
    BY <2>4 DEF TypeOK
  <2>6. hook' \in [Hooks -> Hook \cup {None}]
    BY <2>2, <2>4 DEF TypeOK
  <2>7. r # None
    BY <2>2
  <2>8. \A v \in Hooks : v \in Subscribed' <=> v \in Subscribed
    BY <1>1, <2>2, <2>5, <2>7 DEF Subscribed, Subscribes
  <2>9. Subscribed' = Subscribed
    BY <2>8 DEF Subscribed
  <2>10. QED
    BY <1>1, <2>3, <2>5, <2>6, <2>9
<1>2. CASE hook[w] = None
  BY <1>2 DEF TypeOK, Subscribed
<1>3. QED
  BY <1>1, <1>2

(* A transaction begins.                                                    *)
LEMMA RaiseBeginStep ==
  ASSUME DeliveryInv, NEW c \in Cams, RaiseBegin(c)
  PROVE  DeliveryInv'
<1> DEFINE f == [pc |-> "raise", at |-> now]
<1>1. f \in RaiseState
  BY DEF DeliveryInv, TypeOK, RaiseState
<1>2. cam' = [cam EXCEPT ![c] = f] /\ UNCHANGED <<now, alerts, hook, test, walk, item, file, odd, missed>>
  BY DEF RaiseBegin, desk
<1> HIDE DEF f
<1>3. LoopsAreSound' /\ cam' \in [Cams -> {Idle} \cup RaiseState \cup FireState]
  BY <1>1, <1>2, CamKinds, OneCamera DEF DeliveryInv
<1>4. TypeOK' /\ AlertsFit' /\ SkippedOnlyByFailure'
  BY <1>2, <1>3 DEF DeliveryInv, TypeOK, AlertsFit, SkippedOnlyByFailure
<1>5. QED
  BY <1>3, <1>4 DEF DeliveryInv

(* Rows are added behind the ones there are.                                *)
LEMMA Appended ==
  ASSUME alerts \in Seq(Alert), NEW n \in Nat, NEW row \in Alert,
         alerts' = alerts \o [i \in 1 .. n |-> row]
  PROVE  /\ alerts' \in Seq(Alert) /\ Len(alerts') = Len(alerts) + n
         /\ \A a \in DOMAIN alerts : a \in DOMAIN alerts' /\ alerts'[a] = alerts[a]
<1> DEFINE s == [i \in 1 .. n |-> row]
<1>1. s \in Seq(Alert) /\ Len(s) = n
  OBVIOUS
<1> HIDE DEF s
<1>2. /\ alerts' \in Seq(Alert) /\ Len(alerts') = Len(alerts) + n
      /\ \A i \in 1 .. Len(alerts) + Len(s) :
            alerts'[i] = IF i <= Len(alerts) THEN alerts[i] ELSE s[i - Len(alerts)]
  BY <1>1, ConcatProperties DEF s
<1>3. /\ DOMAIN alerts = 1 .. Len(alerts) /\ Len(alerts) \in Nat
      /\ DOMAIN alerts' = 1 .. Len(alerts')
  BY <1>2
<1>4. QED
  BY <1>1, <1>2, <1>3

(* The delivery begins with all of its subscribers before it.               *)
LEMMA RaiseCommitStep ==
  ASSUME DeliveryInv, NEW c \in Cams, NEW n \in 1 .. 2, RaiseCommit(c, n)
  PROVE  DeliveryInv'
<1> DEFINE on == Enabled \cap Subscribed
           f == IF Enabled = {} THEN Idle
                ELSE [pc |-> "visit", rows |-> Enabled, held |-> on, fresh |-> TRUE,
                      cur |-> None, code |-> None, due |-> on]
           row == [at |-> cam[c].at, status |-> "new"]
<1> USE DEF DeliveryInv
<1>1. cam[c] \in RaiseState /\ cam[c].at \in 0 .. MaxTime
  BY CamKinds DEF RaiseCommit
<1>2. row \in Alert
  BY <1>1 DEF Alert, Statuses
<1>3. /\ UNCHANGED <<now, hook, test, walk, item, file, odd, missed>>
      /\ alerts' = alerts \o [i \in 1 .. n |-> row]
      /\ cam' = [cam EXCEPT ![c] = f]
      /\ Len(alerts) + n <= MaxAlerts
  BY DEF RaiseCommit, desk
<1>4. on \subseteq Hooks /\ Enabled \subseteq Hooks /\ on \subseteq Enabled /\ on \subseteq Subscribed
  BY DEF Enabled, Subscribed
<1> HIDE DEF on, row
<1>5. f \in {Idle} \cup FireState /\ (f \in FireState => LoopIsSound(f))
  <2>1. CASE Enabled = {}
    BY <2>1, CamKinds
  <2>2. CASE Enabled # {}
    <3>1. f = [pc |-> "visit", rows |-> Enabled, held |-> on, fresh |-> TRUE,
               cur |-> None, code |-> None, due |-> on]
      BY <2>2
    <3> HIDE DEF f
    <3>2. f \in FireState
      BY <1>4, <3>1 DEF FireState, Codes
    <3>3. LoopIsSound(f)
      BY <1>4, <3>1 DEF LoopIsSound
    <3>4. QED
      BY <3>2, <3>3
  <2>3. QED
    BY <2>1, <2>2
<1> HIDE DEF f
<1>6. LoopsAreSound' /\ cam' \in [Cams -> {Idle} \cup RaiseState \cup FireState]
  BY <1>3, <1>5, OneCamera
<1>7. alerts \in Seq(Alert) /\ n \in Nat
  BY DEF TypeOK
<1>8. alerts' \in Seq(Alert) /\ Len(alerts') = Len(alerts) + n
  BY <1>2, <1>3, <1>7, Appended
<1>9. TypeOK'
  BY <1>3, <1>6, <1>8 DEF TypeOK
<1>10. AlertsFit' /\ SkippedOnlyByFailure'
  BY <1>3, <1>8 DEF AlertsFit, SkippedOnlyByFailure
<1>11. QED
  BY <1>6, <1>9, <1>10

(***************************************************************************)
(* Pages                                                                   *)
(***************************************************************************)

(* Times that are not all of the list have an earliest one.                 *)
LEMMA Earliest ==
  ASSUME NEW T, T \subseteq Nat, T # {}
  PROVE  \E t \in T : \A s \in T : t <= s
<1>1. PICK t \in T : \A s \in T : <<s, t>> \notin OpToRel(<, Nat)
  BY WFMin, NatLessThanWellFounded
<1>2. \A s \in T : s \in Nat /\ t \in Nat /\ ~(s < t)
  BY <1>1 DEF OpToRel
<1>3. QED
  BY <1>2

(***************************************************************************)
(* Deliveries under way                                                    *)
(***************************************************************************)

(* A delivery ends that owes no post.                                       *)
LEMMA LeaveStep ==
  ASSUME DeliveryInv, NEW c \in Cams, NEW left, Leave(c, left), left = {},
         UNCHANGED <<now, alerts, test, walk, desk>>, hook' = hook
  PROVE  DeliveryInv'
<1> USE DEF DeliveryInv
<1>1. cam' = [cam EXCEPT ![c] = Idle] /\ missed' = missed
  BY DEF Leave
<1>2. LoopsAreSound' /\ cam' \in [Cams -> {Idle} \cup RaiseState \cup FireState]
  BY <1>1, CamKinds, OneCamera
<1>3. TypeOK' /\ AlertsFit' /\ SkippedOnlyByFailure'
  BY <1>1, <1>2 DEF TypeOK, AlertsFit, SkippedOnlyByFailure, desk
<1>4. QED
  BY <1>2, <1>3

(* A delivery goes on.                                                      *)
LEMMA GoOnStep ==
  ASSUME DeliveryInv, NEW c \in Cams, NEW f \in FireState, LoopIsSound(f),
         cam' = [cam EXCEPT ![c] = f], UNCHANGED <<now, alerts, test, walk, desk, missed>>,
         hook' = hook
  PROVE  DeliveryInv'
<1> USE DEF DeliveryInv
<1>1. LoopsAreSound' /\ cam' \in [Cams -> {Idle} \cup RaiseState \cup FireState]
  BY OneCamera
<1>2. TypeOK' /\ AlertsFit' /\ SkippedOnlyByFailure'
  BY <1>1 DEF TypeOK, AlertsFit, SkippedOnlyByFailure, desk
<1>3. QED
  BY <1>1, <1>2

(* The reporter's commit: what was held is read again.                      *)
LEMMA HealthStep ==
  ASSUME DeliveryInv, NEW c \in Cams, HealthCommit(c)
  PROVE  DeliveryInv'
<1> DEFINE f == [cam[c] EXCEPT !.fresh = FALSE, !.held = {}]
<1>1. LoopIsSound(cam[c]) /\ cam[c] \in FireState
  BY DEF HealthCommit, DeliveryInv, LoopsAreSound
<1>2. f \in FireState /\ LoopIsSound(f)
  BY <1>1 DEF FireState, LoopIsSound
<1>3. cam' = [cam EXCEPT ![c] = f]
  BY DEF HealthCommit
<1> HIDE DEF f
<1>4. QED
  BY <1>2, <1>3, GoOnStep DEF HealthCommit

(* A webhook that is passed over is no subscriber, by the row that is read   *)
(* or the values that are held.                                             *)
LEMMA VisitStep ==
  ASSUME DeliveryInv, NEW c \in Cams, NEW w \in Hooks, NEW code \in Codes, Visit(c, w, code)
  PROVE  DeliveryInv'
<1> DEFINE f == cam[c]
           rest == [f EXCEPT !.rows = f.rows \ {w}]
           post == [f EXCEPT !.rows = f.rows \ {w}, !.pc = "record", !.cur = w,
                             !.code = code, !.due = f.due \ {w}]
           wanted == IF f.fresh THEN w \in f.held ELSE w \in Subscribed
<1> USE DEF DeliveryInv
<1>1. /\ f \in FireState /\ f.pc = "visit" /\ w \in f.rows
      /\ UNCHANGED <<now, alerts, test, walk, desk>> /\ hook' = hook
  BY DEF Visit
<1>2. LoopIsSound(f)
  BY <1>1 DEF LoopsAreSound
<1>3. /\ post \in FireState /\ post.due = f.due \ {w} /\ post.rows = f.rows \ {w}
      /\ post.fresh = f.fresh /\ post.held = f.held /\ post.cur = w
  BY <1>1 DEF FireState
<1>4. /\ rest \in FireState /\ rest.due = f.due /\ rest.rows = f.rows \ {w}
      /\ rest.fresh = f.fresh /\ rest.held = f.held /\ rest.pc = "visit"
  BY <1>1 DEF FireState
<1>5. ~wanted => w \notin f.due
  BY <1>2 DEF LoopIsSound
<1>6. \/ Leave(c, {})
      \/ /\ wanted /\ cam' = [cam EXCEPT ![c] = post] /\ UNCHANGED missed
      \/ /\ ~wanted /\ rest.rows = {} /\ Leave(c, rest.due)
      \/ /\ ~wanted /\ cam' = [cam EXCEPT ![c] = rest] /\ UNCHANGED missed
  <2>1. CASE Leave(c, {})
    BY <2>1
  <2>2. CASE ~Leave(c, {})
    <3>1. CASE wanted
      <4>1. cam' = [cam EXCEPT ![c] = [[f EXCEPT !.rows = f.rows \ {w}] EXCEPT
                      !.pc = "record", !.cur = w, !.code = code, !.due = f.due \ {w}]]
        BY <2>2, <3>1, <1>1 DEF Visit, FireState
      <4>2. post = [[f EXCEPT !.rows = f.rows \ {w}] EXCEPT
                      !.pc = "record", !.cur = w, !.code = code, !.due = f.due \ {w}]
        BY <1>1 DEF FireState
      <4>3. UNCHANGED missed
        BY <2>2, <3>1, <1>1 DEF Visit
      <4>4. QED
        BY <3>1, <4>1, <4>2, <4>3
    <3>2. CASE ~wanted
      BY <2>2, <3>2, <1>1 DEF Visit
    <3>3. QED
      BY <3>1, <3>2
  <2>3. QED
    BY <2>1, <2>2
<1> HIDE DEF post, rest, wanted
<1>7. CASE Leave(c, {})
  BY <1>1, <1>7, LeaveStep
<1>8. CASE /\ wanted /\ cam' = [cam EXCEPT ![c] = post] /\ UNCHANGED missed
  <2>1. LoopIsSound(post)
    BY <1>2, <1>3 DEF LoopIsSound
  <2>2. QED
    BY <1>1, <1>3, <1>8, <2>1, GoOnStep
<1>9. CASE /\ ~wanted /\ rest.rows = {} /\ Leave(c, rest.due)
  <2>1. rest.due = {}
    BY <1>2, <1>4, <1>5, <1>9 DEF LoopIsSound
  <2>2. QED
    BY <1>1, <1>9, <2>1, LeaveStep
<1>10. CASE /\ ~wanted /\ cam' = [cam EXCEPT ![c] = rest] /\ UNCHANGED missed
  <2>1. LoopIsSound(rest)
    BY <1>2, <1>4, <1>5, <1>10 DEF LoopIsSound
  <2>2. QED
    BY <1>1, <1>4, <1>10, <2>1, GoOnStep
<1>11. QED
  BY <1>6, <1>7, <1>8, <1>9, <1>10

(* The rows held are expired: from here on the delivery reads them again.   *)
LEMMA RecordStep ==
  ASSUME DeliveryInv, NEW c \in Cams, NEW saved \in BOOLEAN, Record(c, saved)
  PROVE  DeliveryInv'
<1> DEFINE f == cam[c]
           next == [f EXCEPT !.pc = "visit", !.cur = None, !.code = None,
                             !.fresh = FALSE, !.held = {}]
<1> USE DEF DeliveryInv
<1>1. /\ f \in FireState /\ f.pc = "record"
      /\ UNCHANGED <<now, alerts, test, walk, desk>>
  BY DEF Record
<1>2. LoopIsSound(f) /\ f.cur \in Hooks /\ f.code \in Codes
  BY <1>1 DEF LoopsAreSound, LoopIsSound, FireState
<1>3. /\ hook' \in [Hooks -> Hook \cup {None}]
      /\ Subscribed' = Subscribed
  <2>1. CASE saved
    <3>1. hook' = IF hook[f.cur] # None THEN [hook EXCEPT ![f.cur].code = f.code] ELSE hook
      BY <2>1 DEF Record
    <3>2. QED
      BY <1>2, <3>1, CodeStep
  <2>2. CASE ~saved
    BY <2>2 DEF Record, TypeOK, Subscribed
  <2>3. QED
    BY <2>1, <2>2
<1>4. next \in FireState /\ next.due = f.due /\ next.rows = f.rows /\ ~next.fresh /\ next.pc = "visit"
  BY <1>1 DEF FireState, Codes
<1>5. LoopIsSound(next)
  BY <1>2, <1>4 DEF LoopIsSound
<1>6. f.rows = {} => f.due = {}
  BY <1>2 DEF LoopIsSound
<1>7. \/ cam' = [cam EXCEPT ![c] = Idle] /\ missed' = missed
      \/ cam' = [cam EXCEPT ![c] = next] /\ missed' = missed
  BY <1>6 DEF Record, Leave
<1> HIDE DEF next
<1>8. PICK g \in {Idle, next} : cam' = [cam EXCEPT ![c] = g] /\ missed' = missed
  BY <1>7
<1>9. g \in {Idle} \cup FireState /\ (g \in FireState => LoopIsSound(g))
  BY <1>4, <1>5, CamKinds
<1>10. cam' \in [Cams -> {Idle} \cup RaiseState \cup FireState]
  BY <1>8, <1>9 DEF TypeOK
<1>11. LoopsAreSound'
  <2>1. cam'[c] = g /\ \A d \in Cams : d # c => cam'[d] = cam[d]
    BY <1>8 DEF TypeOK
  <2>2. QED
    BY <1>3, <1>9, <2>1 DEF LoopsAreSound, LoopIsSound
<1>12. TypeOK' /\ AlertsFit' /\ SkippedOnlyByFailure'
  BY <1>1, <1>3, <1>8, <1>10 DEF TypeOK, AlertsFit, SkippedOnlyByFailure, desk
<1>13. QED
  BY <1>11, <1>12

(***************************************************************************)
(* Webhooks                                                                *)
(***************************************************************************)

(* One webhook's row changes, and is a subscriber no less than before.      *)
LEMMA HookStep ==
  ASSUME DeliveryInv, UNCHANGED <<now, alerts, cam, walk, desk, missed>>,
         test' \in {Idle} \cup TestState,
         hook' \in [Hooks -> Hook \cup {None}], Subscribed \subseteq Subscribed'
  PROVE  DeliveryInv'
<1> USE DEF DeliveryInv
<1>1. TypeOK' /\ AlertsFit' /\ SkippedOnlyByFailure'
  BY DEF TypeOK, AlertsFit, SkippedOnlyByFailure, desk
<1>2. LoopsAreSound'
  BY DEF LoopsAreSound, LoopIsSound
<1>3. QED
  BY <1>1, <1>2

(* A change of w relieves every delivery of the post it owes w.             *)
LEMMA TouchedStep ==
  ASSUME DeliveryInv, UNCHANGED <<now, alerts, test, walk, desk, missed>>, NEW w \in Hooks,
         NEW r \in Hook \cup {None}, hook' = [hook EXCEPT ![w] = r], cam' = Touched(w)
  PROVE  DeliveryInv'
<1> USE DEF DeliveryInv
<1>1. \A c \in Cams :
        /\ cam[c] \notin FireState => cam'[c] = cam[c]
        /\ cam[c] \in FireState => cam'[c] = [cam[c] EXCEPT !.due = cam[c].due \ {w}]
  BY DEF Touched
<1>2. \A c \in Cams : cam[c] \in FireState =>
        /\ cam'[c] \in FireState /\ cam'[c].due = cam[c].due \ {w} /\ cam'[c].rows = cam[c].rows
        /\ cam'[c].fresh = cam[c].fresh /\ cam'[c].held = cam[c].held
        /\ cam'[c].pc = cam[c].pc /\ cam'[c].cur = cam[c].cur
  <2> SUFFICES ASSUME NEW c \in Cams, cam[c] \in FireState,
                      NEW q, q = [cam[c] EXCEPT !.due = cam[c].due \ {w}]
               PROVE  /\ q \in FireState /\ q.due = cam[c].due \ {w} /\ q.rows = cam[c].rows
                      /\ q.fresh = cam[c].fresh /\ q.held = cam[c].held
                      /\ q.pc = cam[c].pc /\ q.cur = cam[c].cur
    BY <1>1
  <2>1. QED
    BY DEF FireState
<1>3. \A v \in Hooks : v # w => hook'[v] = hook[v]
  BY DEF TypeOK
<1>4. \A v \in Subscribed : v # w => v \in Subscribed'
  BY <1>3 DEF Subscribed
<1>5. LoopsAreSound'
  <2> SUFFICES ASSUME NEW c \in Cams, cam'[c] \in FireState
               PROVE  LoopIsSound(cam[c])'
    BY DEF LoopsAreSound
  <2>1. cam[c] \in FireState
    BY <1>1
  <2>2. LoopIsSound(cam[c])
    BY <2>1 DEF LoopsAreSound
  <2>3. QED
    BY <1>2, <1>4, <2>1, <2>2 DEF LoopIsSound
<1>6. cam' \in [Cams -> {Idle} \cup RaiseState \cup FireState]
  <2>1. \A c \in Cams : cam'[c] \in {Idle} \cup RaiseState \cup FireState
    BY <1>1, <1>2, CamKinds
  <2>2. cam' = [c \in Cams |-> cam'[c]]
    BY DEF Touched
  <2>3. QED
    BY <2>1, <2>2
<1>7. TypeOK' /\ AlertsFit' /\ SkippedOnlyByFailure'
  BY <1>6 DEF TypeOK, AlertsFit, SkippedOnlyByFailure, desk
<1>8. QED
  BY <1>5, <1>7

(* A new webhook adds a subscriber at most.                                 *)
LEMMA CreateWebhookStep ==
  ASSUME DeliveryInv, NEW w \in Hooks, NEW events \in Subscriptions, CreateWebhook(w, events)
  PROVE  DeliveryInv'
<1> DEFINE r == [events |-> events, enabled |-> TRUE, code |-> None]
<1>1. r \in Hook
  BY DEF Hook, Codes
<1>2. /\ hook[w] = None /\ hook' = [hook EXCEPT ![w] = r]
      /\ UNCHANGED <<now, alerts, cam, test, walk, desk, missed>>
  BY DEF CreateWebhook
<1> HIDE DEF r
<1>3. hook' \in [Hooks -> Hook \cup {None}] /\ \A v \in Hooks : v # w => hook'[v] = hook[v]
  BY <1>1, <1>2 DEF DeliveryInv, TypeOK
<1>4. Subscribed \subseteq Subscribed'
  BY <1>2, <1>3 DEF Subscribed
<1>5. test' \in {Idle} \cup TestState
  BY <1>2 DEF DeliveryInv, TypeOK
<1>6. QED
  BY <1>2, <1>3, <1>4, <1>5, HookStep

(* PATCH of a webhook.                                                      *)
LEMMA UpdateWebhookStep ==
  ASSUME DeliveryInv, NEW w \in Hooks, NEW events \in Subscriptions, NEW enabled \in BOOLEAN,
         UpdateWebhook(w, events, enabled)
  PROVE  DeliveryInv'
<1> DEFINE r == [hook[w] EXCEPT !.events = events, !.enabled = enabled]
<1>1. r \in Hook
  BY DEF UpdateWebhook, DeliveryInv, TypeOK, Hook
<1>2. hook' = [hook EXCEPT ![w] = r]
  BY DEF UpdateWebhook, DeliveryInv, TypeOK
<1>3. cam' = Touched(w) /\ UNCHANGED <<now, alerts, test, walk, desk, missed>>
  BY DEF UpdateWebhook
<1> HIDE DEF r
<1>4. QED
  BY <1>1, <1>2, <1>3, TouchedStep

(* DELETE of a webhook.                                                     *)
LEMMA DeleteWebhookStep ==
  ASSUME DeliveryInv, NEW w \in Hooks, DeleteWebhook(w)
  PROVE  DeliveryInv'
  BY TouchedStep DEF DeleteWebhook

(* The test of a webhook, from POST to its record.                          *)
LEMMA TestStartStep ==
  ASSUME DeliveryInv, NEW w \in Hooks, TestStart(w)
  PROVE  DeliveryInv'
<1>1. test' \in TestState
  BY DEF TestStart, TestState
<1>2. UNCHANGED <<now, alerts, cam, walk, desk, missed>> /\ hook' = hook
  BY DEF TestStart
<1>3. hook' \in [Hooks -> Hook \cup {None}] /\ Subscribed' = Subscribed
  BY <1>2 DEF DeliveryInv, TypeOK, Subscribed
<1>4. QED
  BY <1>1, <1>2, <1>3, HookStep

(* The record of a test changes the code of a webhook that is left.         *)
LEMMA TestRecordStep ==
  ASSUME DeliveryInv, NEW code \in Codes, TestRecord(code)
  PROVE  DeliveryInv'
<1>1. test.hook \in Hooks
  BY DEF TestRecord, DeliveryInv, TypeOK, TestState
<1>2. /\ hook' = IF hook[test.hook] # None THEN [hook EXCEPT ![test.hook].code = code] ELSE hook
      /\ test' = Idle /\ UNCHANGED <<now, alerts, cam, walk, desk, missed>>
  BY DEF TestRecord
<1>3. hook' \in [Hooks -> Hook \cup {None}] /\ Subscribed' = Subscribed
  BY <1>1, <1>2, CodeStep DEF DeliveryInv
<1>4. QED
  BY <1>2, <1>3, HookStep

(* Steps of the operator and the clock leave deliveries alone.              *)
LEMMA Elsewhere ==
  ASSUME DeliveryInv, UNCHANGED delivery, now' \in 0 .. MaxTime,
         alerts' \in Seq(Alert), Len(alerts') <= MaxAlerts, walk' \in {Idle} \cup WalkState,
         item' \in [Items -> Item], file' \in [Items -> Labels \cup {None}], odd' \subseteq Items
  PROVE  DeliveryInv'
<1> USE DEF DeliveryInv
<1>1. UNCHANGED <<cam, hook, test, missed>>
  BY DEF delivery
<1>2. TypeOK' /\ AlertsFit' /\ SkippedOnlyByFailure'
  BY <1>1 DEF TypeOK, AlertsFit, SkippedOnlyByFailure
<1>3. LoopsAreSound'
  BY <1>1 DEF LoopsAreSound, LoopIsSound, Subscribed
<1>4. QED
  BY <1>2, <1>3

(***************************************************************************)
(* The list                                                                *)
(***************************************************************************)

WalkInv == WalkIsSound /\ WalkIsExact

(* The parts of a walk.                                                     *)
LEMMA WalkParts ==
  ASSUME TypeOK
  PROVE  /\ walk # Idle => walk \in WalkState
         /\ \A a \in DOMAIN alerts : alerts[a] \in Alert /\ alerts[a].at \in 0 .. MaxTime
         /\ DOMAIN alerts = 1 .. Len(alerts) /\ Len(alerts) \in Nat
         /\ \A a \in DOMAIN alerts : alerts[a].at \in Nat
<1>1. walk # Idle => walk \in WalkState
  BY DEF TypeOK
<1>2. /\ \A a \in DOMAIN alerts : alerts[a] \in Alert
      /\ DOMAIN alerts = 1 .. Len(alerts) /\ Len(alerts) \in Nat
  BY DEF TypeOK
<1>3. QED
  BY <1>1, <1>2 DEF Alert

(* A walk is not disturbed by rows that are added, nor by what happens      *)
(* elsewhere.                                                               *)
LEMMA WalkKept ==
  ASSUME WalkInv, walk' = walk,
         \A a \in DOMAIN alerts : a \in DOMAIN alerts' /\ alerts'[a] = alerts[a]
  PROVE  WalkInv'
<1> USE DEF WalkInv
<1>1. WalkIsExact'
  BY DEF WalkIsExact, PagesCoverTheList, NoAlertTwice
<1>2. walk # Idle => walk.todo \subseteq Listed(walk.new) /\ walk.todo \subseteq DOMAIN alerts
  BY DEF WalkIsSound, Listed
<1>3. WalkIsSound'
  BY <1>2 DEF WalkIsSound, Listed
<1>4. QED
  BY <1>1, <1>3

(* An alert that is handled leaves a list of new ones.                      *)
LEMMA SetStatusStep ==
  ASSUME DeliveryInv, WalkInv, NEW a \in DOMAIN alerts, NEW status \in Statuses \ {"new"},
         SetStatus(a, status)
  PROVE  DeliveryInv' /\ WalkInv'
<1> DEFINE row == [alerts[a] EXCEPT !.status = status]
           left == [walk EXCEPT !.todo = walk.todo \ {a}]
<1> USE DEF WalkInv
<1>1. /\ alerts' = [alerts EXCEPT ![a] = row]
      /\ walk' = IF walk # Idle /\ walk.new THEN left ELSE walk
      /\ UNCHANGED <<now, item, file, odd>> /\ UNCHANGED delivery
  BY WalkParts DEF SetStatus, DeliveryInv, TypeOK, Alert, desk, WalkState
<1>2. row \in Alert /\ row.at = alerts[a].at
  BY WalkParts DEF DeliveryInv, Alert
<1>3. a \in 1 .. Len(alerts) /\ alerts \in Seq(Alert)
  BY WalkParts DEF DeliveryInv, TypeOK
<1> HIDE DEF row
<1>4. /\ alerts' \in Seq(Alert) /\ Len(alerts') = Len(alerts)
      /\ alerts'[a] = row
      /\ \A b \in 1 .. Len(alerts) : b # a => alerts'[b] = alerts[b]
  BY <1>1, <1>2, <1>3, ExceptSeq
<1>5. DOMAIN alerts' = DOMAIN alerts /\ \A b \in DOMAIN alerts : alerts'[b].at = alerts[b].at
  BY <1>2, <1>3, <1>4
<1>6. walk \in WalkState => /\ left \in WalkState /\ left.todo = walk.todo \ {a} /\ left.new = walk.new
                            /\ left.pc = walk.pc /\ left.shown = walk.shown /\ left.tied = walk.tied
                            /\ left.cursor = walk.cursor /\ left.twice = walk.twice
  BY DEF WalkState
<1> HIDE DEF left
<1>7. Idle \notin WalkState
  BY DEF Idle, WalkState
<1>8. walk' \in {Idle} \cup WalkState
  BY <1>1, <1>6 DEF DeliveryInv, TypeOK
<1>9. DeliveryInv'
  BY <1>1, <1>4, <1>8, Elsewhere DEF DeliveryInv, TypeOK, AlertsFit
<1>10. WalkInv'
  <2> SUFFICES ASSUME walk' # Idle
               PROVE  /\ walk'.todo \subseteq {b \in DOMAIN alerts' : walk'.new => alerts'[b].status = "new"}
                      /\ walk'.pc = "page" =>
                           /\ \A b \in walk'.todo \ (walk'.shown \cup walk'.tied) :
                                alerts'[b].at < walk'.cursor
                           /\ \A b \in walk'.shown : b \in DOMAIN alerts' /\ alerts'[b].at >= walk'.cursor
                      /\ walk'.pc = "end" => walk'.todo \ walk'.shown \subseteq walk'.tied
                      /\ ~walk'.twice
    BY DEF WalkIsSound, WalkIsExact, PagesCoverTheList, NoAlertTwice, Listed
  <2>1. walk # Idle /\ walk \in WalkState
    BY <1>1, WalkParts DEF DeliveryInv
  <2>2. /\ walk.todo \subseteq {b \in DOMAIN alerts : walk.new => alerts[b].status = "new"}
        /\ walk.pc = "page" =>
             /\ \A b \in walk.todo \ (walk.shown \cup walk.tied) : alerts[b].at < walk.cursor
             /\ \A b \in walk.shown : b \in DOMAIN alerts /\ alerts[b].at >= walk.cursor
        /\ walk.pc = "end" => walk.todo \ walk.shown \subseteq walk.tied
        /\ ~walk.twice
    BY <2>1 DEF WalkIsSound, WalkIsExact, PagesCoverTheList, NoAlertTwice, Listed
  <2>3. /\ walk'.shown = walk.shown /\ walk'.tied = walk.tied /\ walk'.cursor = walk.cursor
        /\ walk'.pc = walk.pc /\ walk'.twice = walk.twice /\ walk'.new = walk.new
        /\ walk'.todo \subseteq walk.todo /\ (walk.new => a \notin walk'.todo)
    BY <1>1, <1>6, <2>1
  <2>4. \A b \in DOMAIN alerts : b # a => alerts'[b] = alerts[b]
    BY <1>3, <1>4
  <2>5. walk'.todo \subseteq {b \in DOMAIN alerts' : walk'.new => alerts'[b].status = "new"}
    BY <1>5, <2>2, <2>3, <2>4
  <2>6. QED
    BY <1>5, <2>2, <2>3, <2>5
<1>11. QED
  BY <1>9, <1>10

(* A walk begins above the clock, with all that is listed before it.        *)
LEMMA WalkStartStep ==
  ASSUME DeliveryInv, WalkInv, NEW new \in BOOLEAN, WalkStart(new)
  PROVE  DeliveryInv' /\ WalkInv'
<1> DEFINE w == [pc |-> "page", new |-> new, cursor |-> MaxTime + 1, todo |-> Listed(new),
                 shown |-> {}, tied |-> {}, twice |-> FALSE]
<1>1. walk' = w /\ UNCHANGED <<now, alerts, item, file, odd>> /\ UNCHANGED delivery
  BY DEF WalkStart, desk
<1>2. Listed(new) \subseteq DOMAIN alerts
  BY DEF Listed
<1>3. DOMAIN alerts \subseteq 1 .. MaxAlerts
  BY WalkParts DEF DeliveryInv, AlertsFit
<1>4. w \in WalkState
  BY <1>2, <1>3 DEF WalkState
<1>5. DeliveryInv'
  BY <1>1, <1>4, Elsewhere DEF DeliveryInv, TypeOK, AlertsFit
<1>6. \A a \in Listed(new) : alerts[a].at < MaxTime + 1
  BY <1>2, WalkParts DEF DeliveryInv
<1>7. Listed(new)' = Listed(new)
  BY <1>1 DEF Listed
<1>8. WalkInv'
  BY <1>1, <1>6, <1>7 DEF WalkInv, WalkIsSound, WalkIsExact, PagesCoverTheList, NoAlertTwice
<1>9. QED
  BY <1>5, <1>8

(* A walk that ends leaves nothing to account for.                          *)
LEMMA WalkEndStep ==
  ASSUME DeliveryInv, WalkEnd
  PROVE  DeliveryInv' /\ WalkInv'
<1>1. walk' = Idle /\ UNCHANGED <<now, alerts, item, file, odd>> /\ UNCHANGED delivery
  BY DEF WalkEnd, desk
<1>2. DeliveryInv'
  BY <1>1, Elsewhere DEF DeliveryInv, TypeOK, AlertsFit
<1>3. WalkInv'
  BY <1>1 DEF WalkInv, WalkIsSound, WalkIsExact, PagesCoverTheList, NoAlertTwice
<1>4. QED
  BY <1>2, <1>3

(* A page that is not all that is left is not empty.                        *)
LEMMA PageIsNotEmpty ==
  ASSUME NEW rows, IsFiniteSet(rows), NEW page, IsPage(page, rows), page # rows
  PROVE  page # {}
<1>1. Cardinality(page) = IF Cardinality(rows) > Limit THEN Limit ELSE Cardinality(rows)
  BY DEF IsPage
<1>2. rows # {}
  BY DEF IsPage
<1>3. Cardinality(rows) \in Nat /\ Cardinality(rows) # 0
  BY <1>2, FS_CardinalityType, FS_EmptySet
<1>4. Cardinality(page) # 0
  BY <1>1, <1>3
<1>5. QED
  BY <1>4, FS_EmptySet

(* The next cursor is the time of the page's last row.                      *)
LEMMA LastOfPage ==
  ASSUME TypeOK, NEW page, page \subseteq DOMAIN alerts, page # {},
         NEW last, last = CHOOSE t \in {alerts[a].at : a \in page} : \A a \in page : t <= alerts[a].at
  PROVE  /\ last \in 0 .. MaxTime
         /\ \E a \in page : alerts[a].at = last
         /\ \A a \in page : last <= alerts[a].at
<1> DEFINE times == {alerts[a].at : a \in page}
<1>1. times \subseteq Nat /\ times # {}
  BY WalkParts
<1>2. \E t \in times : \A s \in times : t <= s
  <2> HIDE DEF times
  <2>1. QED
    BY <1>1, Earliest
<1>3. \E t \in times : \A a \in page : t <= alerts[a].at
  BY <1>2
<1>4. last \in times /\ \A a \in page : last <= alerts[a].at
  BY <1>3
<1>5. QED
  BY <1>4, WalkParts

(* What a page leaves is older than its last row or as old, and what it     *)
(* shows is not older: no row of a later page can be one of it.             *)
LEMMA WalkPageStep ==
  ASSUME DeliveryInv, WalkInv, NEW page \in SUBSET DOMAIN alerts, WalkPage(page)
  PROVE  DeliveryInv' /\ WalkInv'
<1> DEFINE rows == Older(Listed(walk.new), walk.cursor)
           last == CHOOSE t \in {alerts[a].at : a \in page} : \A a \in page : t <= alerts[a].at
           shown == walk.shown \cup page
           twice == walk.twice \/ page \cap walk.shown # {}
           tied == walk.tied \cup {b \in rows \ page : alerts[b].at = last}
           seen == [walk EXCEPT !.shown = shown, !.twice = twice]
           full == [walk EXCEPT !.shown = shown, !.twice = twice, !.pc = "end"]
           part == [walk EXCEPT !.shown = shown, !.twice = twice, !.cursor = last, !.tied = tied]
<1> USE DEF WalkInv
<1>1. /\ walk # Idle /\ walk.pc = "page" /\ walk \in WalkState /\ IsPage(page, rows)
      /\ UNCHANGED <<now, alerts, item, file, odd>> /\ UNCHANGED delivery
  BY WalkParts DEF WalkPage, DeliveryInv, desk
<1>2. /\ walk.todo \subseteq {b \in DOMAIN alerts : walk.new => alerts[b].status = "new"}
      /\ \A b \in walk.todo \ (walk.shown \cup walk.tied) : alerts[b].at < walk.cursor
      /\ \A b \in walk.shown : b \in DOMAIN alerts /\ alerts[b].at >= walk.cursor
      /\ ~walk.twice
  BY <1>1 DEF WalkIsSound, WalkIsExact, NoAlertTwice, Listed
<1>3. walk.cursor \in Nat /\ walk.tied \subseteq 1 .. MaxAlerts /\ walk.shown \subseteq 1 .. MaxAlerts
  BY <1>1 DEF WalkState
<1>4. /\ rows = {a \in DOMAIN alerts : (walk.new => alerts[a].status = "new")
                                       /\ alerts[a].at < walk.cursor}
      /\ page \subseteq rows
      /\ \A a \in page, b \in rows \ page : alerts[a].at >= alerts[b].at
  BY <1>1 DEF Older, Listed, IsPage
<1>5. DOMAIN alerts \subseteq 1 .. MaxAlerts
  BY WalkParts DEF DeliveryInv, AlertsFit
<1>6. ~twice
  BY <1>2, <1>3, <1>4, WalkParts DEF DeliveryInv
<1>7. twice \in BOOLEAN /\ shown \subseteq 1 .. MaxAlerts /\ tied \subseteq 1 .. MaxAlerts
  BY <1>3, <1>4, <1>5, <1>6
<1>8. walk' = IF page = rows THEN full ELSE part
  <2>1. walk' = IF page = rows THEN [seen EXCEPT !.pc = "end"]
                ELSE [seen EXCEPT !.cursor = last, !.tied = walk.tied \cup {b \in rows \ page : alerts[b].at = last}]
    <3>1. seen.tied = walk.tied
      BY <1>1 DEF WalkState
    <3>2. QED
      BY <3>1 DEF WalkPage
  <2>2. [seen EXCEPT !.pc = "end"] = full
    BY <1>1 DEF WalkState
  <2>3. [seen EXCEPT !.cursor = last, !.tied = tied] = part
    BY <1>1 DEF WalkState
  <2>4. QED
    BY <2>1, <2>2, <2>3
<1>9. CASE page = rows
  <2>1. walk' = full
    BY <1>8, <1>9
  <2> HIDE DEF shown, twice
  <2>2. /\ walk' \in WalkState /\ walk'.pc = "end" /\ walk'.shown = shown /\ ~walk'.twice
        /\ walk'.tied = walk.tied /\ walk'.todo = walk.todo /\ walk'.new = walk.new
    BY <1>1, <1>6, <1>7, <2>1 DEF WalkState
  <2>3. DeliveryInv'
    BY <1>1, <2>2, Elsewhere DEF DeliveryInv, TypeOK, AlertsFit
  <2>4. walk.todo \ shown \subseteq walk.tied
    BY <1>2, <1>4, <1>9 DEF shown
  <2>5. WalkIsExact'
    BY <2>2, <2>4 DEF WalkIsExact, PagesCoverTheList, NoAlertTwice
  <2>6. WalkIsSound'
    BY <1>1, <1>2, <2>2 DEF WalkIsSound, Listed
  <2>7. QED
    BY <2>3, <2>5, <2>6
<1>10. CASE page # rows
  <2>1. IsFiniteSet(rows)
    <3>1. IsFiniteSet(1 .. MaxAlerts)
      BY FS_Interval
    <3>2. QED
      BY <1>4, <1>5, <3>1, FS_Subset
  <2>2. page # {}
    <3> HIDE DEF rows
    <3>1. QED
      BY <1>1, <1>10, <2>1, PageIsNotEmpty
  <2>3. /\ last \in 0 .. MaxTime
        /\ \E a \in page : alerts[a].at = last
        /\ \A a \in page : last <= alerts[a].at
    BY <2>2, LastOfPage DEF DeliveryInv
  <2> HIDE DEF last
  <2>4. walk' = part
    BY <1>8, <1>10
  <2>5. \A a \in shown : a \in DOMAIN alerts /\ alerts[a].at >= last
    <3>1. \A a \in page : alerts[a].at \in Nat /\ alerts[a].at < walk.cursor
      BY <1>4, WalkParts DEF DeliveryInv
    <3>2. last < walk.cursor /\ last \in Nat
      BY <2>3, <3>1
    <3>3. \A a \in walk.shown : alerts[a].at >= last
      BY <1>2, <1>3, <3>2, WalkParts DEF DeliveryInv
    <3>4. QED
      BY <1>2, <2>3, <3>1, <3>2, <3>3
  <2>6. \A a \in walk.todo \ (shown \cup tied) : alerts[a].at < last
    <3> SUFFICES ASSUME NEW a \in walk.todo, a \notin shown, a \notin tied
                 PROVE  alerts[a].at < last
      OBVIOUS
    <3>1. a \in rows \ page /\ alerts[a].at # last
      BY <1>2, <1>4
    <3>2. alerts[a].at <= last
      BY <1>4, <2>3, <3>1
    <3>3. alerts[a].at \in Nat /\ last \in Nat
      BY <1>4, <2>3, <3>1, WalkParts DEF DeliveryInv
    <3>4. QED
      BY <3>1, <3>2, <3>3
  <2> HIDE DEF shown, twice, tied
  <2>7. /\ walk' \in WalkState /\ walk'.pc = "page" /\ walk'.shown = shown /\ ~walk'.twice
        /\ walk'.tied = tied /\ walk'.todo = walk.todo /\ walk'.new = walk.new /\ walk'.cursor = last
    <3>1. last \in 0 .. MaxTime + 1
      BY <2>3
    <3>2. twice = FALSE
      BY <1>6, <1>7
    <3>3. walk' = [walk EXCEPT !.shown = shown, !.twice = FALSE, !.cursor = last, !.tied = tied]
      BY <2>4, <3>2
    <3>4. walk' \in WalkState
      BY <1>1, <1>7, <3>1, <3>3 DEF WalkState
    <3>5. /\ walk'.pc = "page" /\ walk'.shown = shown /\ ~walk'.twice /\ walk'.tied = tied
          /\ walk'.todo = walk.todo /\ walk'.new = walk.new /\ walk'.cursor = last
      BY <1>1, <3>3 DEF WalkState
    <3>6. QED
      BY <3>4, <3>5
  <2>8. DeliveryInv'
    BY <1>1, <2>7, Elsewhere DEF DeliveryInv, TypeOK, AlertsFit
  <2>9. WalkIsExact'
    BY <2>7 DEF WalkIsExact, PagesCoverTheList, NoAlertTwice
  <2>10. WalkIsSound'
    BY <1>1, <1>2, <2>5, <2>6, <2>7 DEF WalkIsSound, Listed
  <2>11. QED
    BY <2>8, <2>9, <2>10
<1>11. QED
  BY <1>9, <1>10

(***************************************************************************)
(* Review                                                                  *)
(***************************************************************************)

(* A correction goes to both places or marks its item.                      *)
LEMMA ReviewStep ==
  ASSUME DeliveryInv, LabelMatchesRow, NEW i \in Items, NEW label \in Labels,
         NEW status \in {"pending", "corrected", "dismissed"},
         NEW written \in BOOLEAN, NEW saved \in BOOLEAN,
         Review(i, status, label, written, saved)
  PROVE  DeliveryInv' /\ LabelMatchesRow'
<1> DEFINE kept == IF status = "corrected" THEN label ELSE item[i].label
           row == [status |-> status, label |-> kept]
<1>1. /\ UNCHANGED <<now, alerts, walk>> /\ UNCHANGED delivery
      /\ item[i].status = "pending"
      /\ file' = IF status = "corrected" /\ written THEN [file EXCEPT ![i] = label] ELSE file
      /\ item' = IF saved THEN [item EXCEPT ![i] = row] ELSE item
      /\ odd' = IF saved /\ (status = "corrected" => written) THEN odd ELSE odd \cup {i}
  BY DEF Review, DeliveryInv, TypeOK
<1>2. item \in [Items -> Item] /\ file \in [Items -> Labels \cup {None}]
  BY DEF DeliveryInv, TypeOK
<1>3. row \in Item /\ row.status = status /\ row.label = kept
  BY <1>2 DEF Item
<1> HIDE DEF row
<1>4. item' \in [Items -> Item] /\ file' \in [Items -> Labels \cup {None}] /\ odd' \subseteq Items
  BY <1>1, <1>2, <1>3 DEF DeliveryInv, TypeOK
<1>5. DeliveryInv'
  BY <1>1, <1>4, Elsewhere DEF DeliveryInv, TypeOK, AlertsFit
<1>6. ASSUME NEW j \in Items \ odd'
      PROVE  file'[j] = IF item'[j].status = "corrected" THEN item'[j].label ELSE None
  <2>1. j \in Items /\ j \notin odd
    BY <1>1, <1>6
  <2>2. file[j] = IF item[j].status = "corrected" THEN item[j].label ELSE None
    BY <2>1 DEF LabelMatchesRow
  <2>3. CASE j # i
    BY <1>1, <1>2, <2>1, <2>2, <2>3
  <2>4. CASE j = i
    <3>1. saved /\ (status = "corrected" => written) /\ file[i] = None
      BY <1>1, <1>6, <2>2, <2>4
    <3>2. item'[i] = row
      BY <1>1, <1>2, <3>1
    <3>3. QED
      BY <1>1, <1>2, <1>3, <2>4, <3>1, <3>2
  <2>5. QED
    BY <2>3, <2>4
<1>7. QED
  BY <1>5, <1>6 DEF LabelMatchesRow

(* Steps elsewhere.                                                         *)
LEMMA LabelKept ==
  ASSUME LabelMatchesRow, UNCHANGED <<item, file, odd>>
  PROVE  LabelMatchesRow'
  BY DEF LabelMatchesRow

(***************************************************************************)
(* Results                                                                 *)
(***************************************************************************)

(* At first there is nothing to deliver, to walk or to label.               *)
LEMMA InitInv == Init => Inv
<1> SUFFICES ASSUME Init PROVE Inv
  OBVIOUS
<1>1. TypeOK
  BY DEF Init, TypeOK, Item
<1>2. AlertsFit /\ SkippedOnlyByFailure
  BY DEF Init, AlertsFit, SkippedOnlyByFailure
<1>3. LoopsAreSound
  BY <1>1, CamKinds DEF Init, LoopsAreSound
<1>4. WalkIsSound /\ WalkIsExact /\ LabelMatchesRow
  BY DEF Init, WalkIsSound, WalkIsExact, PagesCoverTheList, NoAlertTwice, LabelMatchesRow
<1>5. QED
  BY <1>1, <1>2, <1>3, <1>4 DEF Inv, DeliveryInv

(* A step of any kind keeps the three.                                      *)
LEMMA NextInv == Inv /\ [Next]_vars => Inv'
<1> SUFFICES ASSUME Inv, [Next]_vars PROVE Inv'
  OBVIOUS
<1> USE DEF Inv
<1> DEFINE Calm == UNCHANGED <<alerts, walk, item, file, odd>>
<1>1. ASSUME DeliveryInv', Calm PROVE Inv'
  <2>1. WalkInv'
    BY <1>1, WalkKept DEF WalkInv
  <2>2. LabelMatchesRow'
    BY <1>1, LabelKept
  <2>3. QED
    BY <1>1, <2>1, <2>2 DEF WalkInv
<1>2. ASSUME DeliveryInv', WalkInv', UNCHANGED <<item, file, odd>> PROVE Inv'
  BY <1>2, LabelKept DEF WalkInv
<1>3. ASSUME NEW c \in Cams, RaiseBegin(c) PROVE Inv'
  <2>1. Calm
    BY <1>3 DEF RaiseBegin, desk
  <2>2. QED
    BY <1>1, <1>3, <2>1, RaiseBeginStep
<1>4. ASSUME NEW c \in Cams, NEW n \in 1 .. 2, RaiseCommit(c, n) PROVE Inv'
  <2> DEFINE row == [at |-> cam[c].at, status |-> "new"]
  <2>1. /\ walk' = walk /\ UNCHANGED <<item, file, odd>>
        /\ alerts' = alerts \o [i \in 1 .. n |-> row]
    BY <1>4 DEF RaiseCommit, desk
  <2>2. cam[c].at \in 0 .. MaxTime
    BY <1>4, CamKinds DEF RaiseCommit, DeliveryInv
  <2>3. row \in Alert
    BY <2>2 DEF Alert, Statuses
  <2> HIDE DEF row
  <2>4. alerts \in Seq(Alert) /\ n \in Nat
    BY DEF DeliveryInv, TypeOK
  <2>5. \A a \in DOMAIN alerts : a \in DOMAIN alerts' /\ alerts'[a] = alerts[a]
    BY <2>1, <2>3, <2>4, Appended
  <2>6. WalkInv'
    BY <2>1, <2>5, WalkKept DEF WalkInv
  <2>7. QED
    BY <1>2, <1>4, <2>1, <2>6, RaiseCommitStep
<1>5. ASSUME NEW c \in Cams, NEW w \in Hooks, NEW code \in Codes, Visit(c, w, code) PROVE Inv'
  <2>1. Calm
    BY <1>5 DEF Visit, desk
  <2>2. QED
    BY <1>1, <1>5, <2>1, VisitStep
<1>6. ASSUME NEW c \in Cams, NEW saved \in BOOLEAN, Record(c, saved) PROVE Inv'
  <2>1. Calm
    BY <1>6 DEF Record, desk
  <2>2. QED
    BY <1>1, <1>6, <2>1, RecordStep
<1>7. ASSUME NEW w \in Hooks, NEW events \in Subscriptions, NEW enabled \in BOOLEAN,
             CreateWebhook(w, events) \/ UpdateWebhook(w, events, enabled)
      PROVE  Inv'
  <2>1. Calm
    BY <1>7 DEF CreateWebhook, UpdateWebhook, desk
  <2>2. QED
    BY <1>1, <1>7, <2>1, CreateWebhookStep, UpdateWebhookStep
<1>8. ASSUME NEW w \in Hooks, DeleteWebhook(w) \/ TestStart(w) PROVE Inv'
  <2>1. Calm
    BY <1>8 DEF DeleteWebhook, TestStart, desk
  <2>2. QED
    BY <1>1, <1>8, <2>1, DeleteWebhookStep, TestStartStep
<1>9. ASSUME NEW code \in Codes, TestRecord(code) PROVE Inv'
  <2>1. Calm
    BY <1>9 DEF TestRecord, desk
  <2>2. QED
    BY <1>1, <1>9, <2>1, TestRecordStep
<1>10. ASSUME NEW a \in DOMAIN alerts, NEW status \in Statuses \ {"new"}, SetStatus(a, status)
       PROVE  Inv'
  <2>1. UNCHANGED <<item, file, odd>>
    BY <1>10 DEF SetStatus, desk
  <2>2. QED
    BY <1>2, <1>10, <2>1, SetStatusStep DEF WalkInv
<1>11. ASSUME NEW new \in BOOLEAN, WalkStart(new) PROVE Inv'
  <2>1. UNCHANGED <<item, file, odd>>
    BY <1>11 DEF WalkStart, desk
  <2>2. QED
    BY <1>2, <1>11, <2>1, WalkStartStep DEF WalkInv
<1>12. CASE WalkEnd
  <2>1. UNCHANGED <<item, file, odd>>
    BY <1>12 DEF WalkEnd, desk
  <2>2. QED
    BY <1>2, <1>12, <2>1, WalkEndStep
<1>13. ASSUME NEW page \in SUBSET DOMAIN alerts, WalkPage(page) PROVE Inv'
  <2>1. UNCHANGED <<item, file, odd>>
    BY <1>13 DEF WalkPage, desk
  <2>2. QED
    BY <1>2, <1>13, <2>1, WalkPageStep DEF WalkInv
<1>14. ASSUME NEW i \in Items, NEW label \in Labels,
              NEW status \in {"pending", "corrected", "dismissed"},
              NEW written \in BOOLEAN, NEW saved \in BOOLEAN,
              Review(i, status, label, written, saved)
       PROVE  Inv'
  <2>1. UNCHANGED <<alerts, walk>>
    BY <1>14 DEF Review
  <2>2. WalkInv'
    BY <2>1, WalkKept DEF WalkInv
  <2>3. QED
    BY <1>14, <2>2, ReviewStep DEF WalkInv
<1>15. CASE Tick
  <2>1. Calm /\ UNCHANGED delivery
    BY <1>15 DEF Tick, desk
  <2>2. now' \in 0 .. MaxTime
    BY <1>15 DEF Tick, DeliveryInv, TypeOK
  <2>3. DeliveryInv'
    BY <2>1, <2>2, Elsewhere DEF DeliveryInv, TypeOK, AlertsFit
  <2>4. QED
    BY <1>1, <2>1, <2>3
<1>17. ASSUME NEW c \in Cams, HealthCommit(c) PROVE Inv'
  <2>1. Calm
    BY <1>17 DEF HealthCommit, desk
  <2>2. QED
    BY <1>1, <1>17, <2>1, HealthStep
<1>16. CASE UNCHANGED vars
  <2>1. Calm /\ UNCHANGED delivery /\ now' = now
    BY <1>16 DEF vars, delivery
  <2>2. DeliveryInv'
    BY <2>1, Elsewhere DEF DeliveryInv, TypeOK, AlertsFit
  <2>3. QED
    BY <1>1, <2>1, <2>2
<1>18. QED
  BY <1>3, <1>4, <1>5, <1>6, <1>7, <1>8, <1>9, <1>10, <1>11, <1>12, <1>13, <1>14, <1>15, <1>16,
     <1>17 DEF Next

(* The three invariants hold in every state of every behaviour.             *)
THEOREM SpecInv == Spec => []Inv
  BY InitInv, NextInv, PTL DEF Spec

(* fire's loop (webhook_fire.py): no subscriber that is left alone is        *)
(* passed over, however posts, records, the reporter's commits and the      *)
(* operator's changes overlap, as long as the rows can be read again.       *)
THEOREM SubscribersAreReached == Spec => []EverySubscriberIsReached
<1>1. Inv => EverySubscriberIsReached
  BY DEF Inv, DeliveryInv, EverySubscriberIsReached
<1>2. QED
  BY <1>1, SpecInv, PTL

(* The cursor of alerts.py's list: the pages of a walk show every alert that *)
(* stays listed, ties apart, and none twice, for any page size.             *)
THEOREM PagesAreExact == Spec => []WalkIsExact
<1>1. Inv => WalkIsExact
  BY DEF Inv
<1>2. QED
  BY <1>1, SpecInv, PTL

(* review_queue.py: file and row of an item agree unless a write of it has   *)
(* failed.                                                                  *)
THEOREM LabelsMatch == Spec => []LabelMatchesRow
<1>1. Inv => LabelMatchesRow
  BY DEF Inv
<1>2. QED
  BY <1>1, SpecInv, PTL

(* The UPDATE of one column: no delivery or test undoes what an operator     *)
(* has set, or brings back a webhook that was deleted.                      *)
THEOREM RecordsKeepToTheirColumn == Spec => OperatorsOwnTheirWebhooks
<1> DEFINE Owned(w) ==
      \/ hook'[w] = hook[w]
      \/ hook[w] # None /\ \E code \in Codes : hook'[w] = [hook[w] EXCEPT !.code = code]
      \/ \E events \in Subscriptions, enabled \in BOOLEAN :
           CreateWebhook(w, events) \/ UpdateWebhook(w, events, enabled)
      \/ DeleteWebhook(w)
<1>1. Inv /\ [Next]_vars => [\A w \in Hooks : Owned(w)]_vars
  <2> SUFFICES ASSUME Inv, Next, NEW w \in Hooks, hook'[w] # hook[w] PROVE Owned(w)
    OBVIOUS
  <2> USE DEF Inv, DeliveryInv
  <2>1. ASSUME NEW c \in Cams, NEW saved \in BOOLEAN, Record(c, saved) PROVE Owned(w)
    <3>1. cam[c] \in FireState /\ cam[c].pc = "record"
      BY <2>1 DEF Record
    <3>2. cam[c].cur \in Hooks /\ cam[c].code \in Codes
      BY <3>1 DEF LoopsAreSound, LoopIsSound, FireState
    <3>3. hook' = IF hook[cam[c].cur] # None THEN [hook EXCEPT ![cam[c].cur].code = cam[c].code]
                  ELSE hook
      BY <2>1 DEF Record
    <3>4. hook[w] # None /\ hook'[w] = [hook[w] EXCEPT !.code = cam[c].code]
      BY <3>2, <3>3, CodeStep
    <3>5. QED
      BY <3>2, <3>4
  <2>2. ASSUME NEW code \in Codes, TestRecord(code) PROVE Owned(w)
    <3>1. test.hook \in Hooks
      BY <2>2 DEF TestRecord, TypeOK, TestState
    <3>2. hook' = IF hook[test.hook] # None THEN [hook EXCEPT ![test.hook].code = code] ELSE hook
      BY <2>2 DEF TestRecord
    <3>3. hook[w] # None /\ hook'[w] = [hook[w] EXCEPT !.code = code]
      BY <3>1, <3>2, CodeStep
    <3>4. QED
      BY <3>3
  <2>3. ASSUME NEW v \in Hooks, NEW events \in Subscriptions, NEW enabled \in BOOLEAN,
               CreateWebhook(v, events) \/ UpdateWebhook(v, events, enabled)
        PROVE  Owned(w)
    <3>1. \A u \in Hooks : u # v => hook'[u] = hook[u]
      BY <2>3 DEF CreateWebhook, UpdateWebhook, TypeOK
    <3>2. v = w
      BY <3>1
    <3>3. QED
      BY <2>3, <3>2
  <2>4. ASSUME NEW v \in Hooks, DeleteWebhook(v) PROVE Owned(w)
    <3>1. \A u \in Hooks : u # v => hook'[u] = hook[u]
      BY <2>4 DEF DeleteWebhook, TypeOK
    <3>2. v = w
      BY <3>1
    <3>3. QED
      BY <2>4, <3>2
  <2>5. ASSUME hook' = hook PROVE Owned(w)
    BY <2>5
  <2> HIDE DEF Owned
  <2>6. QED
    BY <2>1, <2>2, <2>3, <2>4, <2>5 DEF Next, RaiseBegin, RaiseCommit, Visit, HealthCommit, TestStart,
       SetStatus, WalkStart, WalkEnd, WalkPage, Review, Tick, delivery
<1>2. QED
  BY <1>1, SpecInv, PTL DEF Spec, OperatorsOwnTheirWebhooks
=============================================================================
