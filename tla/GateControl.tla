---------------------------- MODULE GateControl ----------------------------
(***************************************************************************)
(* Gate automation of one site: the camera threads of the pipeline that    *)
(* evaluate gate rules after every committed plate read (gate.py), and the *)
(* requests to the API that edit controllers, rules and visitor passes or  *)
(* open a gate by hand (routers/gates.py, routers/visitor_passes.py).      *)
(*                                                                         *)
(* A relay call takes up to five seconds between the SELECTs that decided  *)
(* it and the COMMIT that records it; the API runs in between.             *)
(***************************************************************************)
EXTENDS Integers, Sequences, FiniteSets

CONSTANTS
  Cams,        \* cameras of the site, one pipeline thread each
  Plates, Passes, Rules, Ctrls,   \* plate texts and row ids
  RuleForms,   \* the [cam, ctrl, cond, prio] a rule may be given
  Listed,      \* plates matched by the watchlist of a watchlist rule
  None,
  Ops,         \* the administrative operations of this instance
  KeySet,      \* whether GATE_CREDENTIAL_KEY is configured for the API
  RelayFails,  \* whether a call to a relay may fail, whatever the relay did
  DbFails,     \* whether a call to PostgreSQL may fail
  CanRestart,  \* whether the pipeline process may die and be restarted
  MaxReads,    \* bound: plate reads of the pipeline
  MaxManual,   \* bound: manual openings
  MaxTime      \* bound on the clock

VARIABLES
  pass,      \* visitor_passes: id -> row, or None
  rule,      \* gate_rules
  ctrl,      \* gate_controllers
  licensed,  \* enforcement._state is operational; read when the process starts
  thread,    \* what each camera thread is doing
  manual,    \* the manual trigger in progress, or Idle
  now,
  (* observations *)
  opens,     \* calls under each pass that returned: the gate is open
  unheard,   \* calls under each pass that opened the gate and raised
  issue,     \* what each pass was created as; an id is never used again
  attempts,  \* pulses sent to each controller by the pipeline or by hand
  logged,    \* rows of gate_trigger_logs for each controller
  refused,   \* openings by hand whose record failed: the operator got an error
  owed,      \* rules a thread has loaded and, as things stand, must fire
  reads, manuals

vars == <<pass, rule, ctrl, licensed, thread, manual, now,
          opens, unheard, issue, attempts, logged, refused, owed, reads, manuals>>
tables == <<pass, rule, ctrl>>
called == <<opens, unheard, attempts>>
recorded == <<logged, refused>>
observed == <<called, recorded, issue, owed, reads, manuals>>

Time == 0 .. MaxTime

PassRow == {x \in [plate: Plates, from: Time, to: 0 .. MaxTime + 1,
                   single: BOOLEAN, used: BOOLEAN] : x.from < x.to}

(* RuleForms bounds the values; a watchlist rule whose watchlist is unset    *)
(* matches nothing and has the condition "nothing".                          *)
RuleRow == [cam: Cams, ctrl: Ctrls, prio: Nat, on: BOOLEAN,
            cond: {"any_plate", "watchlist_match", "permit_valid", "nothing"}]

(* The controller's password or secret: as its relay expects it (or none is  *)
(* needed), or stored as the Fernet token encrypt_config makes of it.        *)
CtrlRow == [on: BOOLEAN, secret: {"clear", "sealed"}]

ASSUME GateAssumption ==
  /\ {KeySet, RelayFails, DbFails, CanRestart} \subseteq BOOLEAN
  /\ MaxTime \in Nat /\ MaxReads \in Nat /\ MaxManual \in Nat
  /\ Listed \subseteq Plates
  /\ IsFiniteSet(Rules) /\ IsFiniteSet(Cams)
  /\ \A f \in RuleForms : [cam |-> f.cam, ctrl |-> f.ctrl, prio |-> f.prio,
                           on |-> TRUE, cond |-> f.cond] \in RuleRow
  /\ None \notin PassRow \cup RuleRow \cup CtrlRow \cup Passes \cup Rules \cup Ctrls

Idle == [pc |-> "idle"]
Poisoned == [pc |-> "poisoned"]

(* The rows of the loaded rules, or None once a commit has expired them.     *)
Snapshot == [Rules -> RuleRow \cup {None}] \cup {None}

EvalState == [pc: {"eval"}, plate: Plates, todo: Seq(Rules), seen: Snapshot]
(* pid: the pass that matched, one: its single_use; set once the relay was tried: ok *)
PulseState == [pc: {"pulse"}, plate: Plates, todo: Seq(Rules), seen: Snapshot,
               rid: Rules, kid: Ctrls, sealed: BOOLEAN, pid: Passes \cup {None}, one: BOOLEAN]
LogState == [pc: {"log"}, plate: Plates, todo: Seq(Rules),
             rid: Rules, kid: Ctrls, pid: Passes \cup {None}, one: BOOLEAN, ok: BOOLEAN]

ThreadState == {Idle, Poisoned} \cup EvalState \cup PulseState \cup LogState

ManualState == {Idle} \cup [pc: {"pulse", "log"}, kid: Ctrls]

TypeOK ==
  /\ pass \in [Passes -> PassRow \cup {None}]
  /\ rule \in [Rules -> RuleRow \cup {None}]
  /\ ctrl \in [Ctrls -> CtrlRow \cup {None}]
  /\ licensed \in BOOLEAN
  /\ thread \in [Cams -> ThreadState]
  /\ manual \in ManualState
  /\ now \in Time
  /\ opens \in [Passes -> Nat] /\ unheard \in [Passes -> Nat]
  /\ issue \in [Passes -> {"new", "single", "multi"}]
  /\ attempts \in [Ctrls -> Nat] /\ logged \in [Ctrls -> Nat] /\ refused \in [Ctrls -> Nat]
  /\ owed \in [Cams -> SUBSET Rules]
  /\ reads \in 0 .. MaxReads /\ manuals \in 0 .. MaxManual

Init ==
  /\ pass = [p \in Passes |-> None]
  /\ rule = [r \in Rules |-> None]
  /\ ctrl = [k \in Ctrls |-> None]
  /\ licensed \in BOOLEAN
  /\ thread = [c \in Cams |-> Idle]
  /\ manual = Idle
  /\ now = 0
  /\ opens = [p \in Passes |-> 0] /\ unheard = [p \in Passes |-> 0]
  /\ issue = [p \in Passes |-> "new"]
  /\ attempts = [k \in Ctrls |-> 0] /\ logged = [k \in Ctrls |-> 0]
  /\ refused = [k \in Ctrls |-> 0]
  /\ owed = [c \in Cams |-> {}]
  /\ reads = 0 /\ manuals = 0

(***************************************************************************)
(* The pipeline                                                            *)
(***************************************************************************)

Goto(c, state) == thread' = [thread EXCEPT ![c] = state]

EnabledRules(c) == {r \in Rules : rule[r] # None /\ rule[r].cam = c /\ rule[r].on}

(* SELECT ... ORDER BY priority DESC; equal priorities in any order.         *)
Ordered(S) ==
  {q \in [1 .. Cardinality(S) -> S] :
     \A i, j \in DOMAIN q : i < j => q[i] # q[j] /\ rule[q[i]].prio >= rule[q[j]].prio}

(* The rules a thread must fire if nobody touches them or their controllers. *)
MustFire(S) == {r \in S : /\ rule[r].cond = "any_plate"
                          /\ ctrl[rule[r].ctrl] # None /\ ctrl[rule[r].ctrl].on}

(* A read has been committed; evaluate_and_trigger checks the licence and    *)
(* loads the camera's enabled rules.  A poisoned thread commits no read.     *)
LoadRules(c, p) ==
  /\ thread[c] = Idle
  /\ reads < MaxReads
  /\ reads' = reads + 1
  /\ IF licensed
       THEN /\ \E q \in Ordered(EnabledRules(c)) :
                 Goto(c, [pc |-> "eval", plate |-> p, todo |-> q, seen |-> rule])
            /\ owed' = [owed EXCEPT ![c] = MustFire(EnabledRules(c))]
       ELSE UNCHANGED <<thread, owed>>
  /\ UNCHANGED <<tables, licensed, manual, now, called, recorded, issue, manuals>>

(* _check_permit *)
ValidPasses(p) ==
  {v \in Passes : /\ pass[v] # None /\ pass[v].plate = p /\ ~pass[v].used
                  /\ pass[v].from <= now /\ now <= pass[v].to}

(* The passes a rule may match under: {None} for a match without a pass.     *)
Matches(cond, p) ==
  CASE cond = "any_plate" -> {None}
    [] cond = "watchlist_match" -> IF p \in Listed THEN {None} ELSE {}
    [] cond = "permit_valid" -> ValidPasses(p)
    [] OTHER -> {}

(* The rule object of the loop: as loaded, or read again after a commit.     *)
RuleSeen(t) == IF t.seen = None THEN rule[Head(t.todo)] ELSE t.seen[Head(t.todo)]

(* The controller is there and enabled, and the condition holds.             *)
Fires(t, r) == ctrl[r.ctrl] # None /\ ctrl[r.ctrl].on /\ Matches(r.cond, t.plate) # {}

(* What the loop holds while it calls the relay of a matching rule.          *)
Pulsing(t, r, v) ==
  [pc |-> "pulse", plate |-> t.plate, todo |-> Tail(t.todo), seen |-> t.seen,
   rid |-> Head(t.todo), kid |-> r.ctrl, sealed |-> ctrl[r.ctrl].secret = "sealed",
   pid |-> v, one |-> v # None /\ pass[v].single]

BugEvalRuleBreaks(c) ==
  LET t == thread[c]  r == RuleSeen(t) IN
  /\ t.pc = "eval" /\ t.todo # <<>>
  /\ \/ ~(r # None /\ Fires(t, r)) /\ Goto(c, Idle)
     \/ r # None /\ Fires(t, r) /\ \E v \in Matches(r.cond, t.plate) : Goto(c, Pulsing(t, r, v))
  /\ UNCHANGED <<tables, licensed, manual, now, observed>>

BugEvalRuleSpins(c) ==
  LET t == thread[c]  r == RuleSeen(t) IN
  /\ t.pc = "eval" /\ t.todo # <<>>
  /\ \/ r = None /\ Goto(c, Idle)
     \/ r # None /\ ~Fires(t, r) /\ UNCHANGED thread
     \/ r # None /\ Fires(t, r) /\ \E v \in Matches(r.cond, t.plate) : Goto(c, Pulsing(t, r, v))
  /\ UNCHANGED <<tables, licensed, manual, now, observed>>

(* One turn of the loop up to the relay call.  Reading an attribute of a    *)
(* rule that was deleted after a commit expired it raises, and ends the     *)
(* evaluation; on_consensus swallows the exception.                         *)
EvalRule(c) ==
  LET t == thread[c]  r == RuleSeen(t) IN
  /\ t.pc = "eval" /\ t.todo # <<>>
  /\ \/ r = None /\ Goto(c, Idle)
     \/ r # None /\ ~Fires(t, r) /\ Goto(c, [t EXCEPT !.todo = Tail(@)])
     \/ r # None /\ Fires(t, r) /\ \E v \in Matches(r.cond, t.plate) : Goto(c, Pulsing(t, r, v))
  /\ UNCHANGED <<tables, licensed, manual, now, observed>>

(* The loop is through. *)
EvalDone(c) ==
  /\ thread[c].pc = "eval" /\ thread[c].todo = <<>>
  /\ Goto(c, Idle)
  /\ UNCHANGED <<tables, licensed, manual, now, observed>>

(* A query of the evaluation fails, or the session was broken before by    *)
(* another stage or by the reporter: nobody rolls it back, so every later   *)
(* statement of the thread fails.                                           *)
QueryFails(c) ==
  /\ DbFails
  /\ thread[c].pc \in {"idle", "eval"}
  /\ Goto(c, Poisoned)
  /\ UNCHANGED <<tables, licensed, manual, now, observed>>

(* The health reporter commits the session it shares with the thread, which *)
(* expires the rules the loop holds.                                        *)
HealthCommit(c) ==
  /\ thread[c].pc \in {"eval", "pulse"} /\ thread[c].seen # None
  /\ Goto(c, [thread[c] EXCEPT !.seen = None])
  /\ UNCHANGED <<tables, licensed, manual, now, observed>>

(* How a call ends: whether it returned (ok) and whether the gate opened.   *)
(* A relay that asks for a secret refuses a wrong one; a call that times    *)
(* out may have been obeyed.                                                *)
Answers(good) ==
  {[ok |-> good, opened |-> good]}
  \cup (IF RelayFails THEN {[ok |-> FALSE, opened |-> o] : o \in {FALSE, good}} ELSE {})

(* driver.trigger with the controller's config as stored; any exception is  *)
(* a failed attempt                                                         *)
PulseRelay(c) ==
  LET t == thread[c] IN
  /\ t.pc = "pulse"
  /\ \E a \in Answers(~t.sealed) :
       /\ Goto(c, [pc |-> "log", plate |-> t.plate, todo |-> t.todo, rid |-> t.rid,
                   kid |-> t.kid, pid |-> t.pid, one |-> t.one, ok |-> a.ok])
       /\ opens' = IF a.ok /\ t.pid # None THEN [opens EXCEPT ![t.pid] = @ + 1] ELSE opens
       /\ unheard' = IF a.opened /\ ~a.ok /\ t.pid # None
                     THEN [unheard EXCEPT ![t.pid] = @ + 1] ELSE unheard
  /\ attempts' = [attempts EXCEPT ![t.kid] = @ + 1]
  /\ owed' = [owed EXCEPT ![c] = @ \ {t.rid}]
  /\ UNCHANGED <<tables, licensed, manual, now, recorded, issue, reads, manuals>>

BugConsumesAlways(t) == t.pid # None /\ t.one

BugConsumesNever(t) == FALSE

(* if success and matched_pass is not None and matched_pass.single_use *)
Consumes(t) == t.ok /\ t.pid # None /\ t.one

(* The rows that the transaction updates or refers to are there.            *)
Recordable(t) ==
  rule[t.rid] # None /\ ctrl[t.kid] # None /\ (Consumes(t) => pass[t.pid] # None)

(* The passes after matched_pass.used = True has been flushed.              *)
Marked(t) ==
  IF Consumes(t) /\ pass[t.pid] # None THEN [pass EXCEPT ![t.pid].used = TRUE] ELSE pass

(* The log row and the consumed pass are one transaction.  A commit that    *)
(* fails takes the session with it, its answer may be lost as well; where   *)
(* the reporter's commit had expired the objects, reading one whose row was *)
(* deleted raises instead and leaves the session in order: behind the mark, *)
(* which the next flush writes, unless it is the controller that is gone.   *)
LogTrigger(c) ==
  LET t == thread[c] IN
  /\ t.pc = "log"
  /\ \/ /\ Recordable(t)
        /\ pass' = Marked(t)
        /\ logged' = [logged EXCEPT ![t.kid] = @ + 1]
        /\ \/ Goto(c, [pc |-> "eval", plate |-> t.plate, todo |-> t.todo, seen |-> None])
           \/ DbFails /\ Goto(c, Poisoned)
     \/ /\ DbFails \/ ~Recordable(t)
        /\ Goto(c, Poisoned)
        /\ UNCHANGED <<pass, logged>>
     \/ /\ ~Recordable(t)
        /\ Goto(c, Idle)
        /\ pass' = Marked(t) \/ (ctrl[t.kid] = None /\ pass' = pass)
        /\ logged' = logged
  /\ UNCHANGED <<rule, ctrl, licensed, manual, now, called, refused, issue, owed, reads, manuals>>

(* The process dies and starts again: enforcement.initialize reads the      *)
(* licence, the threads start afresh.                                       *)
Restart ==
  /\ CanRestart
  /\ \E c \in Cams : thread[c] # Idle
  /\ thread' = [c \in Cams |-> Idle]
  /\ owed' = [c \in Cams |-> {}]
  /\ licensed' \in BOOLEAN
  /\ UNCHANGED <<tables, manual, now, called, recorded, issue, reads, manuals>>

(***************************************************************************)
(* The API.  Handlers without an await are atomic.                         *)
(***************************************************************************)

(* Rules that an edit of S releases the threads from. *)
Released(S) == owed' = [c \in Cams |-> owed[c] \ S]

RulesOf(k) == {r \in Rules : rule[r] # None /\ rule[r].ctrl = k}

BugCreatePassUnchecked(v) ==
  /\ "pass" \in Ops
  /\ issue[v] = "new"
  /\ \E p \in Plates, f \in Time, w \in 0 .. MaxTime + 1, s \in BOOLEAN :
       /\ pass' = [pass EXCEPT ![v] =
                     [plate |-> p, from |-> f, to |-> w, single |-> s, used |-> FALSE]]
       /\ issue' = [issue EXCEPT ![v] = IF s THEN "single" ELSE "multi"]
  /\ UNCHANGED <<rule, ctrl, licensed, thread, manual, now, called, recorded,
                 owed, reads, manuals>>

(* create_pass; validate_window refuses an empty window *)
CreatePass(v) ==
  /\ "pass" \in Ops
  /\ issue[v] = "new"
  /\ \E p \in Plates, f \in Time, w \in 1 .. MaxTime + 1, s \in BOOLEAN :
       /\ f < w
       /\ pass' = [pass EXCEPT ![v] =
                     [plate |-> p, from |-> f, to |-> w, single |-> s, used |-> FALSE]]
       /\ issue' = [issue EXCEPT ![v] = IF s THEN "single" ELSE "multi"]
  /\ UNCHANGED <<rule, ctrl, licensed, thread, manual, now, called, recorded,
                 owed, reads, manuals>>

(* cancel_pass: a hard delete *)
CancelPass(v) ==
  /\ "cancel" \in Ops
  /\ pass[v] # None
  /\ pass' = [pass EXCEPT ![v] = None]
  /\ UNCHANGED <<rule, ctrl, licensed, thread, manual, now, observed>>

(* encrypt_config: with a key every password and secret is sealed.           *)
Stored == {"clear"} \cup (IF KeySet THEN {"sealed"} ELSE {})

(* create_controller: enabled, with or without credentials in its config *)
CreateController(k) ==
  /\ ctrl[k] = None /\ attempts[k] = 0
  /\ \E s \in Stored : ctrl' = [ctrl EXCEPT ![k] = [on |-> TRUE, secret |-> s]]
  /\ UNCHANGED <<pass, rule, licensed, thread, manual, now, observed>>

(* patch_controller: enabled or config *)
PatchController(k) ==
  /\ "patch_ctrl" \in Ops
  /\ ctrl[k] # None
  /\ \E on \in BOOLEAN, s \in {ctrl[k].secret} \cup Stored :
       ctrl' = [ctrl EXCEPT ![k] = [on |-> on, secret |-> s]]
  /\ ctrl' # ctrl
  /\ Released(RulesOf(k))
  /\ UNCHANGED <<pass, rule, licensed, thread, manual, now, called, recorded, issue,
                 reads, manuals>>

(* delete_controller: rules and log rows go with it by ON DELETE CASCADE *)
DeleteController(k) ==
  /\ "delete_ctrl" \in Ops
  /\ ctrl[k] # None
  /\ ctrl' = [ctrl EXCEPT ![k] = None]
  /\ rule' = [r \in Rules |-> IF r \in RulesOf(k) THEN None ELSE rule[r]]
  /\ logged' = [logged EXCEPT ![k] = 0]
  /\ Released(RulesOf(k))
  /\ UNCHANGED <<pass, licensed, thread, manual, now, called, refused, issue,
                 reads, manuals>>

(* create_rule: a watchlist rule needs its watchlist; a foreign key to a     *)
(* missing controller is refused                                             *)
CreateRule(r) ==
  /\ rule[r] = None
  /\ \E f \in RuleForms :
       /\ ctrl[f.ctrl] # None /\ f.cond # "nothing"
       /\ rule' = [rule EXCEPT ![r] = [cam |-> f.cam, ctrl |-> f.ctrl, prio |-> f.prio,
                                       on |-> TRUE, cond |-> f.cond]]
  /\ UNCHANGED <<pass, ctrl, licensed, thread, manual, now, observed>>

(* patch_rule: trigger_on, watchlist_id, priority, enabled *)
PatchRule(r) ==
  /\ "patch_rule" \in Ops
  /\ rule[r] # None
  /\ \E f \in RuleForms, on \in BOOLEAN :
       /\ f.cam = rule[r].cam /\ f.ctrl = rule[r].ctrl
       /\ rule' = [rule EXCEPT ![r] = [@ EXCEPT !.prio = f.prio, !.cond = f.cond, !.on = on]]
  /\ rule' # rule
  /\ Released({r})
  /\ UNCHANGED <<pass, ctrl, licensed, thread, manual, now, called, recorded, issue,
                 reads, manuals>>

DeleteRule(r) ==
  /\ "delete_rule" \in Ops
  /\ rule[r] # None
  /\ rule' = [rule EXCEPT ![r] = None]
  /\ Released({r})
  /\ UNCHANGED <<pass, ctrl, licensed, thread, manual, now, called, recorded, issue,
                 reads, manuals>>

(* manual_trigger up to its await: any enabled controller, whatever the licence *)
ManualStart(k) ==
  /\ manual = Idle
  /\ manuals < MaxManual
  /\ ctrl[k] # None /\ ctrl[k].on
  /\ manual' = [pc |-> "pulse", kid |-> k]
  /\ manuals' = manuals + 1
  /\ UNCHANGED <<tables, licensed, thread, now, called, recorded, issue, owed, reads>>

(* _fire_controller in the executor, with the config decrypted; success and *)
(* failure are logged alike                                                 *)
ManualPulse ==
  /\ manual # Idle /\ manual.pc = "pulse"
  /\ attempts' = [attempts EXCEPT ![manual.kid] = @ + 1]
  /\ manual' = [manual EXCEPT !.pc = "log"]
  /\ UNCHANGED <<tables, licensed, thread, now, opens, unheard, recorded, issue, owed, reads, manuals>>

(* the handler after the await; a controller deleted meanwhile, or a failing *)
(* commit, fails the insert, and the request's own session is closed         *)
ManualLog ==
  /\ manual # Idle /\ manual.pc = "log"
  /\ \/ /\ ctrl[manual.kid] # None
        /\ logged' = [logged EXCEPT ![manual.kid] = @ + 1]
        /\ refused' = refused
     \/ /\ DbFails \/ ctrl[manual.kid] = None
        /\ refused' = [refused EXCEPT ![manual.kid] = @ + 1]
        /\ logged' = logged
  /\ manual' = Idle
  /\ UNCHANGED <<tables, licensed, thread, now, called, issue, owed, reads, manuals>>

Tick ==
  /\ now < MaxTime
  /\ now' = now + 1
  /\ UNCHANGED <<tables, licensed, thread, manual, observed>>

ThreadStep(c) == EvalRule(c) \/ EvalDone(c) \/ PulseRelay(c) \/ LogTrigger(c)

Next ==
  \/ \E c \in Cams, p \in Plates : LoadRules(c, p)
  \/ \E c \in Cams : ThreadStep(c) \/ QueryFails(c) \/ HealthCommit(c)
  \/ Restart
  \/ \E v \in Passes : CreatePass(v) \/ CancelPass(v)
  \/ \E k \in Ctrls : CreateController(k) \/ PatchController(k) \/ DeleteController(k)
  \/ \E r \in Rules : CreateRule(r) \/ PatchRule(r) \/ DeleteRule(r)
  \/ \E k \in Ctrls : ManualStart(k)
  \/ ManualPulse
  \/ ManualLog
  \/ Tick

Spec == Init /\ [][Next]_vars

(* A thread in an evaluation goes on with it; the relay call has a timeout. *)
FairSpec == Spec /\ \A c \in Cams : WF_vars(ThreadStep(c))

(***************************************************************************)
(* Properties                                                              *)
(***************************************************************************)

(* Once a call under a single-use pass has returned, no gate is opened      *)
(* under it again: what the consumption after a successful trigger is for   *)
(* (gate.py:271-274).  A call that opened and raised does not count as      *)
(* returned: the code keeps the pass then, and the next read opens again.   *)
SingleUseOnce ==
  [][\A v \in Passes : issue[v] = "single" /\ opens[v] >= 1
        => opens'[v] = opens[v] /\ unheard'[v] = unheard[v]]_vars

(* A pass is used up only by a pulse that opened: a relay failure leaves it *)
(* valid, through crashes, cancellations and any number of cameras.         *)
UsedMeansOpened == \A v \in Passes : (pass[v] # None /\ pass[v].used) => opens[v] >= 1

(* Every attempt to open, by rule or by hand, is in the trigger log or      *)
(* about to be, but for openings by hand that ended in an error and at most *)
(* one attempt of each thread that was lost with its session.               *)
EveryAttemptLogged ==
  \A k \in Ctrls :
    LET known == logged[k] + refused[k]
                 + Cardinality({c \in Cams : thread[c].pc = "log" /\ thread[c].kid = k})
                 + (IF manual.pc = "log" /\ manual.kid = k THEN 1 ELSE 0)
    IN /\ known <= attempts[k]
       /\ attempts[k] <= known + Cardinality({c \in Cams : thread[c].pc = "poisoned"})

(* The trigger log only grows.                                              *)
TrailIsImmutable == [][\A k \in Ctrls : logged'[k] >= logged[k]]_vars

(* "all matching rules fire": when an evaluation is over, every any-plate   *)
(* rule it loaded, and that nobody touched since, has been fired.           *)
AllMatchingFire == \A c \in Cams : thread[c].pc = "idle" => owed[c] = {}

(* Between them: every rule that had to fire has, and every attempt, failed *)
(* ones too, is on record.                                                  *)
RulesAreServed == EveryAttemptLogged /\ AllMatchingFire

(* "a relay error must not stop the pipeline": no evaluation leaves a       *)
(* thread unable to record the next read.  A failing commit does.           *)
PipelineSurvivesGate == \A c \in Cams : thread[c].pc # "poisoned"

(* An enabled rule opens a gate whose relay answers: the pulse fails only   *)
(* if the relay does.                                                       *)
AutomationOpens ==
  [][\A c \in Cams : (thread[c].pc = "pulse" /\ thread'[c].pc = "log" /\ ~RelayFails)
                        => thread'[c].ok]_vars

(* Every evaluation ends, whatever is edited under it.                      *)
EvaluationEnds == \A c \in Cams : thread[c].pc # "idle" ~> thread[c].pc \in {"idle", "poisoned"}
=============================================================================
