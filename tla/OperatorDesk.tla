---------------------------- MODULE OperatorDesk ----------------------------
(***************************************************************************)
(* Alerts at the operators' desk, the webhooks they set off and the review *)
(* of uncertain reads.                                                     *)
(*                                                                         *)
(* Camera threads raise alerts: all alerts of a read in one transaction,   *)
(* then one delivery to every webhook (CameraPipeline has what comes       *)
(* before).  The API's handlers do not await between their first query and *)
(* their commit, so each is one step, except the test of a webhook, which  *)
(* posts in an executor.  An operator pages through the alerts, one        *)
(* request a page.                                                         *)
(***************************************************************************)
EXTENDS Integers, FiniteSets, Sequences

CONSTANTS
  Cams,       \* camera threads
  Hooks,      \* webhook ids
  Items,      \* review queue items
  Labels,     \* corrected texts
  None,       \* no row, no file, no code
  Limit,      \* page size
  MaxAlerts,  \* bound on alerts raised
  MaxTime     \* bound on the clock

VARIABLES
  now,      \* PostgreSQL's clock
  alerts,   \* rows in the order of their commits
  cam,      \* the camera threads' transactions and deliveries
  hook,     \* webhooks: events, enabled, last_status_code; None: no row
  test,     \* the test delivery in progress
  walk,     \* the operator's walk through the alert list
  item,     \* review_queue: status, corrected_text
  file,     \* ml/plate-ocr/corrections/{item}.txt
  (* observations *)
  missed,   \* webhooks a delivery has passed over
  odd       \* items with a commit or a file that failed

vars == <<now, alerts, cam, hook, test, walk, item, file, missed, odd>>

Statuses == {"new", "ack", "snoozed", "resolved"}
Alert == [at: 0 .. MaxTime, status: Statuses]

(* What a webhook may subscribe to: all, or only events that are not fired. *)
Subscriptions == {{}, {"alert_resolved"}}
(* Some HTTP status, or no answer.                                          *)
Codes == {"answered", None}
Hook == [events: Subscriptions, enabled: BOOLEAN, code: Codes]

Idle == [pc |-> "idle"]

(* A transaction that has begun.                                            *)
RaiseState == [pc: {"raise"}, at: 0 .. MaxTime]

(* The loop of fire.  rows: webhooks still to visit; held: their values as  *)
(* queried, until the first commit expires them; cur, code: the post under  *)
(* way.  due (an observation): the subscribers that nobody touched since    *)
(* the query and that were not posted to yet.                               *)
FireState == [pc: {"visit", "record"}, rows: SUBSET Hooks, held: SUBSET Hooks,
              fresh: BOOLEAN, cur: Hooks \cup {None}, code: Codes,
              due: SUBSET Hooks]

TestState == [pc: {"post"}, hook: Hooks]

(* new: the list is that of new alerts; cursor: the time of the last row    *)
(* shown, above the clock at first.  Observations: todo, the rows that were *)
(* listed at the start and still are; shown; tied, rows as old as the last  *)
(* of a page that ended before them; twice, some row was shown again.       *)
WalkState == [pc: {"page", "end"}, new: BOOLEAN, cursor: 0 .. MaxTime + 1,
              todo: SUBSET (1 .. MaxAlerts), shown: SUBSET (1 .. MaxAlerts),
              tied: SUBSET (1 .. MaxAlerts), twice: BOOLEAN]

Item == [status: {"pending", "corrected", "dismissed"}, label: Labels \cup {None}]

ASSUME DeskAssumption ==
  /\ Limit \in Nat \ {0} /\ MaxAlerts \in Nat /\ MaxTime \in Nat
  /\ None \notin Labels \cup Hooks \cup Hook

TypeOK ==
  /\ now \in 0 .. MaxTime
  /\ alerts \in Seq(Alert)
  /\ cam \in [Cams -> {Idle} \cup RaiseState \cup FireState]
  /\ hook \in [Hooks -> Hook \cup {None}]
  /\ test \in {Idle} \cup TestState
  /\ walk \in {Idle} \cup WalkState
  /\ item \in [Items -> Item]
  /\ file \in [Items -> Labels \cup {None}]
  /\ missed \subseteq Hooks /\ odd \subseteq Items

Init ==
  /\ now = 0
  /\ alerts = <<>>
  /\ cam = [c \in Cams |-> Idle]
  /\ hook = [w \in Hooks |-> None]
  /\ test = Idle
  /\ walk = Idle
  /\ item = [i \in Items |-> [status |-> "pending", label |-> None]]
  /\ file = [i \in Items |-> None]
  /\ missed = {} /\ odd = {}

desk == <<item, file, odd>>
delivery == <<cam, hook, test, missed>>

(***************************************************************************)
(* Raising alerts (pipeline: alert_engine.py, webhook_fire.py)             *)
(***************************************************************************)

(* The first statement of the transaction: created_at of all its rows.      *)
RaiseBegin(c) ==
  /\ cam[c] = Idle
  /\ cam' = [cam EXCEPT ![c] = [pc |-> "raise", at |-> now]]
  /\ UNCHANGED <<now, alerts, hook, test, walk, desk, missed>>

Enabled == {w \in Hooks : hook[w] # None /\ hook[w].enabled}

(* An empty list subscribes to all events.                                  *)
Subscribes(row) == row.events = {} \/ "alert_new" \in row.events

(* Only "alert_new" is ever fired.                                          *)
Subscribed == {w \in Hooks : hook[w] # None /\ Subscribes(hook[w])}

(* n entries match: n rows, one commit, and the query of fire.              *)
RaiseCommit(c, n) ==
  /\ cam[c] \in RaiseState
  /\ Len(alerts) + n <= MaxAlerts
  /\ alerts' = alerts \o [i \in 1 .. n |-> [at |-> cam[c].at, status |-> "new"]]
  /\ cam' = [cam EXCEPT ![c] =
       IF Enabled = {} THEN Idle
       ELSE [pc |-> "visit", rows |-> Enabled, held |-> Enabled \cap Subscribed,
             fresh |-> TRUE, cur |-> None, code |-> None,
             due |-> Enabled \cap Subscribed]]
  /\ UNCHANGED <<now, hook, test, walk, desk, missed>>

(* The loop ends, with the webhooks it should have posted to and did not.   *)
Leave(c, left) ==
  /\ cam' = [cam EXCEPT ![c] = Idle]
  /\ missed' = missed \cup left

BugVisit(c, w, code) ==
  LET f == cam[c]  rest == [f EXCEPT !.rows = @ \ {w}] IN
  /\ f \in FireState /\ f.pc = "visit" /\ w \in f.rows
  /\ \/ ~f.fresh /\ Leave(c, {})
     \/ /\ f.fresh \/ hook[w] # None
        /\ IF IF f.fresh THEN w \in f.held ELSE w \in Subscribed
           THEN /\ cam' = [cam EXCEPT ![c] = [rest EXCEPT !.pc = "record", !.cur = w,
                                                          !.code = code, !.due = @ \ {w}]]
                /\ UNCHANGED missed
           ELSE Leave(c, rest.due)
  /\ UNCHANGED <<now, alerts, hook, test, walk, desk>>

(* The next webhook in the order PostgreSQL returned.  Its values are those *)
(* of the query until the first commit expires them; then wh.events reads   *)
(* the row again and raises if it is gone or the database fails, which ends *)
(* the whole loop (alert_engine.py:164).  enabled is not looked at again.   *)
Visit(c, w, code) ==
  LET f == cam[c]  rest == [f EXCEPT !.rows = @ \ {w}] IN
  /\ f \in FireState /\ f.pc = "visit" /\ w \in f.rows
  /\ \/ ~f.fresh /\ Leave(c, {})
     \/ /\ f.fresh \/ hook[w] # None
        /\ IF IF f.fresh THEN w \in f.held ELSE w \in Subscribed
           THEN /\ cam' = [cam EXCEPT ![c] = [rest EXCEPT !.pc = "record", !.cur = w,
                                                          !.code = code, !.due = @ \ {w}]]
                /\ UNCHANGED missed
           ELSE IF rest.rows = {} THEN Leave(c, rest.due)
           ELSE cam' = [cam EXCEPT ![c] = rest] /\ UNCHANGED missed
  /\ UNCHANGED <<now, alerts, hook, test, walk, desk>>

BugRecord(c, saved) ==
  LET f == cam[c]  next == [f EXCEPT !.pc = "visit", !.cur = None, !.code = None,
                                     !.fresh = FALSE, !.held = {}] IN
  /\ f \in FireState /\ f.pc = "record"
  /\ hook' = IF saved THEN [hook EXCEPT ![f.cur] =
                 [events |-> {}, enabled |-> TRUE, code |-> f.code]]
             ELSE hook
  /\ IF f.rows = {} THEN Leave(c, f.due)
     ELSE cam' = [cam EXCEPT ![c] = next] /\ UNCHANGED missed
  /\ UNCHANGED <<now, alerts, test, walk, desk>>

(* The post is over: the UPDATE hits the row if there is one, and its       *)
(* commit, or the rollback if it fails, expires the rows held.              *)
Record(c, saved) ==
  LET f == cam[c]  next == [f EXCEPT !.pc = "visit", !.cur = None, !.code = None,
                                     !.fresh = FALSE, !.held = {}] IN
  /\ f \in FireState /\ f.pc = "record"
  /\ hook' = IF saved /\ hook[f.cur] # None
             THEN [hook EXCEPT ![f.cur].code = f.code] ELSE hook
  /\ IF f.rows = {} THEN Leave(c, f.due)
     ELSE cam' = [cam EXCEPT ![c] = next] /\ UNCHANGED missed
  /\ UNCHANGED <<now, alerts, test, walk, desk>>

(* The camera's health reporter commits on the same session.                *)
HealthCommit(c) ==
  /\ cam[c] \in FireState /\ cam[c].fresh
  /\ cam' = [cam EXCEPT ![c].fresh = FALSE, ![c].held = {}]
  /\ UNCHANGED <<now, alerts, hook, test, walk, desk, missed>>

(***************************************************************************)
(* Webhooks at the API (routers/webhooks.py)                               *)
(***************************************************************************)

(* What a change of webhook w means for the deliveries under way.           *)
Touched(w) == [c \in Cams |->
  IF cam[c] \in FireState THEN [cam[c] EXCEPT !.due = @ \ {w}] ELSE cam[c]]

CreateWebhook(w, events) ==
  /\ hook[w] = None
  /\ \A c \in Cams : cam[c] \in FireState => w \notin cam[c].rows \cup {cam[c].cur}
  /\ test # Idle => test.hook # w
  /\ hook' = [hook EXCEPT ![w] = [events |-> events, enabled |-> TRUE, code |-> None]]
  /\ UNCHANGED <<now, alerts, cam, test, walk, desk, missed>>

UpdateWebhook(w, events, enabled) ==
  /\ hook[w] # None
  /\ hook' = [hook EXCEPT ![w].events = events, ![w].enabled = enabled]
  /\ cam' = Touched(w)
  /\ UNCHANGED <<now, alerts, test, walk, desk, missed>>

DeleteWebhook(w) ==
  /\ hook[w] # None
  /\ hook' = [hook EXCEPT ![w] = None]
  /\ cam' = Touched(w)
  /\ UNCHANGED <<now, alerts, test, walk, desk, missed>>

TestStart(w) ==
  /\ test = Idle /\ hook[w] # None
  /\ test' = [pc |-> "post", hook |-> w]
  /\ UNCHANGED <<now, alerts, cam, hook, walk, desk, missed>>

(* The executor is done: the UPDATE hits the row if there still is one.     *)
TestRecord(code) ==
  /\ test # Idle
  /\ hook' = IF hook[test.hook] = None THEN hook
             ELSE [hook EXCEPT ![test.hook].code = code]
  /\ test' = Idle
  /\ UNCHANGED <<now, alerts, cam, walk, desk, missed>>

(***************************************************************************)
(* Alerts at the API (routers/alerts.py)                                   *)
(***************************************************************************)

(* ack, snooze, resolve: whatever the status was.                           *)
SetStatus(a, status) ==
  /\ alerts' = [alerts EXCEPT ![a].status = status]
  /\ walk' = IF walk # Idle /\ walk.new THEN [walk EXCEPT !.todo = @ \ {a}] ELSE walk
  /\ UNCHANGED <<now, delivery, desk>>

Listed(new) == {a \in DOMAIN alerts : new => alerts[a].status = "new"}

WalkStart(new) ==
  /\ walk = Idle /\ alerts # <<>>
  /\ walk' = [pc |-> "page", new |-> new, cursor |-> MaxTime + 1, todo |-> Listed(new),
              shown |-> {}, tied |-> {}, twice |-> FALSE]
  /\ UNCHANGED <<now, alerts, delivery, desk>>

(* WHERE created_at < cursor *)
Older(rows, cursor) == {a \in rows : alerts[a].at < cursor}

BugIsPage(page, rows) ==
  /\ page \subseteq rows
  /\ Cardinality(page) = IF Cardinality(rows) > Limit THEN Limit ELSE Cardinality(rows)
  /\ \A a \in page, b \in rows \ page : alerts[a].at <= alerts[b].at

(* ORDER BY created_at DESC LIMIT: ties in any order.                       *)
IsPage(page, rows) ==
  /\ page \subseteq rows
  /\ Cardinality(page) = IF Cardinality(rows) > Limit THEN Limit ELSE Cardinality(rows)
  /\ \A a \in page, b \in rows \ page : alerts[a].at >= alerts[b].at

(* One request; there is a next cursor if there are more rows.              *)
WalkPage(page) ==
  LET rows == Older(Listed(walk.new), walk.cursor)
      last == CHOOSE t \in {alerts[a].at : a \in page} :
                \A a \in page : t <= alerts[a].at
      seen == [walk EXCEPT !.shown = @ \cup page, !.twice = @ \/ page \cap walk.shown # {}]
  IN
  /\ walk # Idle /\ walk.pc = "page"
  /\ IsPage(page, rows)
  /\ walk' = IF page = rows THEN [seen EXCEPT !.pc = "end"]
             ELSE [seen EXCEPT !.cursor = last,
                     !.tied = @ \cup {b \in rows \ page : alerts[b].at = last}]
  /\ UNCHANGED <<now, alerts, delivery, desk>>

WalkEnd ==
  /\ walk # Idle /\ walk.pc = "end"
  /\ walk' = Idle
  /\ UNCHANGED <<now, alerts, delivery, desk>>

(***************************************************************************)
(* Review (routers/review_queue.py)                                        *)
(***************************************************************************)

BugReview(i, status, label, written, saved) ==
  /\ file' = IF status = "corrected" /\ written THEN [file EXCEPT ![i] = label] ELSE file
  /\ item' = IF saved THEN [item EXCEPT ![i] =
                 [status |-> status, label |-> IF status = "corrected" THEN label ELSE @.label]]
             ELSE item
  /\ odd' = IF saved /\ (status = "corrected" => written) THEN odd ELSE odd \cup {i}
  /\ UNCHANGED <<now, alerts, delivery, walk>>

(* PATCH of a pending item; the status it asks for may be pending.  The     *)
(* file is written first, and an error of it swallowed; then the commit may *)
(* fail, and nothing takes the file back.                                   *)
Review(i, status, label, written, saved) ==
  /\ item[i].status = "pending"
  /\ file' = IF status = "corrected" /\ written THEN [file EXCEPT ![i] = label] ELSE file
  /\ item' = IF saved THEN [item EXCEPT ![i] =
                 [status |-> status, label |-> IF status = "corrected" THEN label ELSE @.label]]
             ELSE item
  /\ odd' = IF saved /\ (status = "corrected" => written) THEN odd ELSE odd \cup {i}
  /\ UNCHANGED <<now, alerts, delivery, walk>>

Tick ==
  /\ now < MaxTime
  /\ now' = now + 1
  /\ UNCHANGED <<alerts, delivery, walk, desk>>

Next ==
  \/ \E c \in Cams :
       \/ RaiseBegin(c)
       \/ \E n \in 1 .. 2 : RaiseCommit(c, n)
       \/ \E w \in Hooks, code \in Codes : Visit(c, w, code)
       \/ \E saved \in BOOLEAN : Record(c, saved)
       \/ HealthCommit(c)
  \/ \E w \in Hooks :
       \/ \E events \in Subscriptions :
            \/ CreateWebhook(w, events)
            \/ \E enabled \in BOOLEAN : UpdateWebhook(w, events, enabled)
       \/ DeleteWebhook(w)
       \/ TestStart(w)
  \/ \E code \in Codes : TestRecord(code)
  \/ \E a \in DOMAIN alerts, status \in Statuses \ {"new"} : SetStatus(a, status)
  \/ \E new \in BOOLEAN : WalkStart(new)
  \/ WalkEnd
  \/ \E page \in SUBSET DOMAIN alerts : WalkPage(page)
  \/ \E i \in Items, label \in Labels, status \in {"pending", "corrected", "dismissed"},
        written, saved \in BOOLEAN : Review(i, status, label, written, saved)
  \/ Tick

Spec == Init /\ [][Next]_vars

(***************************************************************************)
(* Properties                                                              *)
(***************************************************************************)

(* webhook_fire.py:37, "Fire all enabled webhooks for `site_id` that        *)
(* subscribe": a delivery that is not cut short by a webhook it cannot read *)
(* again (deleted since, or the database fails) posts to every subscriber   *)
(* that is left alone meanwhile, whatever the posts and records come to.    *)
SkippedOnlyByFailure == missed = {}

(* With the types of the delivery's progress, on which its loop relies.     *)
EverySubscriberIsReached == TypeOK /\ SkippedOnlyByFailure

(* webhook_fire.py:93, "without touching other cols": what an operator has  *)
(* set, or deleted, during a delivery is not put back by its record.        *)
OperatorsOwnTheirWebhooks ==
  [][\A w \in Hooks :
       \/ hook'[w] = hook[w]
       \/ hook[w] # None /\ \E code \in Codes : hook'[w] = [hook[w] EXCEPT !.code = code]
       \/ \E events \in Subscriptions, enabled \in BOOLEAN :
            CreateWebhook(w, events) \/ UpdateWebhook(w, events, enabled)
       \/ DeleteWebhook(w)]_vars

(* An operator who walks through the list, while alerts are raised and      *)
(* handled, sees every alert that is listed throughout, but for alerts of   *)
(* the same transaction as the last one of a page: the next page begins     *)
(* after their common created_at (alerts.py:91).                            *)
PagesCoverTheList ==
  walk # Idle /\ walk.pc = "end" => walk.todo \ walk.shown \subseteq walk.tied

(* ... and sees none of them twice.                                         *)
NoAlertTwice == walk # Idle => ~walk.twice

(* The pages of a walk are a partition of the list, ties apart.             *)
WalkIsExact == PagesCoverTheList /\ NoAlertTwice

(* review_queue.py:6, "corrections are persisted back to the DB and written *)
(* to ml/plate-ocr/corrections/ as labelled training data": the label of    *)
(* the file is the correction of the row, and each is there with the other, *)
(* unless a write or a commit of the item has failed.                       *)
LabelMatchesRow ==
  \A i \in Items \ odd :
    file[i] = IF item[i].status = "corrected" THEN item[i].label ELSE None
=============================================================================
