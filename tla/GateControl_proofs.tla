------------------------- MODULE GateControl_proofs -------------------------
(***************************************************************************)
(* Proofs about GateControl for every set of cameras, plates, passes,      *)
(* rules and controllers and for all bounds.                               *)
(***************************************************************************)
EXTENDS GateControl, TLAPS, FiniteSetTheorems

(* The names of tuples of observations are expanded throughout.             *)
USE DEF called, recorded

(* What a thread's program counter says about the rest of its state.        *)
LEMMA ThreadShape ==
  ASSUME NEW t \in ThreadState
  PROVE  /\ t.pc = "eval" => t \in EvalState
         /\ t.pc = "pulse" => t \in PulseState
         /\ t.pc = "log" => t \in LogState
         /\ t.pc \in {"idle", "poisoned", "eval", "pulse", "log"}
  BY DEF ThreadState, Idle, Poisoned, EvalState, PulseState, LogState

(* A rule matches under a pass, or under none.                              *)
LEMMA MatchType ==
  ASSUME NEW cond, NEW p, NEW v \in Matches(cond, p)
  PROVE  v \in Passes \cup {None} /\ (v # None => v \in ValidPasses(p))
  BY DEF Matches, ValidPasses

(* The loop enumerates a finite set of rules.                               *)
LEMMA OrderedType ==
  ASSUME NEW S \in SUBSET Rules
  PROVE  Ordered(S) \subseteq Seq(Rules)
<1>1. IsFiniteSet(S)
  BY FS_Subset, GateAssumption
<1>2. Cardinality(S) \in Nat
  BY <1>1, FS_CardinalityType
<1>3. QED
  BY <1>2 DEF Ordered

(* The rule an evaluation looks at is a rule or gone.                       *)
LEMMA RuleSeenType ==
  ASSUME TypeOK, NEW t \in EvalState, t.todo # <<>>
  PROVE  RuleSeen(t) \in RuleRow \cup {None}
<1>1. Head(t.todo) \in Rules
  BY DEF EvalState
<1>2. t.seen # None => t.seen \in [Rules -> RuleRow \cup {None}]
  BY DEF EvalState, Snapshot
<1>3. QED
  BY <1>1, <1>2 DEF RuleSeen, TypeOK

(* A turn of the loop that fires leaves the thread holding the pass it      *)
(* matched under.                                                           *)
LEMMA PulsingType ==
  ASSUME TypeOK, NEW t \in EvalState, t.todo # <<>>,
         RuleSeen(t) # None, Fires(t, RuleSeen(t)),
         NEW v \in Matches(RuleSeen(t).cond, t.plate)
  PROVE  /\ Pulsing(t, RuleSeen(t), v) \in PulseState
         /\ Pulsing(t, RuleSeen(t), v).pc = "pulse"
         /\ Pulsing(t, RuleSeen(t), v).pid = v
         /\ Pulsing(t, RuleSeen(t), v).one = (v # None /\ pass[v].single)
         /\ Pulsing(t, RuleSeen(t), v).rid = Head(t.todo)
         /\ Pulsing(t, RuleSeen(t), v).kid = RuleSeen(t).ctrl
<1>1. PICK r \in RuleRow : r = RuleSeen(t)
  BY RuleSeenType
<1>2. r.ctrl \in Ctrls
  BY <1>1 DEF RuleRow
<1>3. Head(t.todo) \in Rules /\ Tail(t.todo) \in Seq(Rules) /\ t.plate \in Plates
      /\ t.seen \in Snapshot
  BY DEF EvalState
<1>4. v \in Passes \cup {None} /\ (v # None => pass[v] \in PassRow)
  BY MatchType DEF ValidPasses, TypeOK
<1>5. (v # None /\ pass[v].single) \in BOOLEAN
  OBVIOUS
<1>6. (ctrl[r.ctrl].secret = "sealed") \in BOOLEAN
  OBVIOUS
<1>7. QED
  BY <1>1, <1>2, <1>3, <1>4, <1>5, <1>6 DEF Pulsing, PulseState

(* Marking a pass as used changes nothing else.                             *)
LEMMA MarkedType ==
  ASSUME TypeOK, NEW t \in LogState
  PROVE  /\ Marked(t) \in [Passes -> PassRow \cup {None}]
         /\ \A v \in Passes :
              \/ Marked(t)[v] = pass[v]
              \/ /\ v = t.pid /\ Consumes(t) /\ pass[v] # None /\ Marked(t)[v] # None
                 /\ Marked(t)[v].used /\ Marked(t)[v].single = pass[v].single
         /\ Consumes(t) /\ pass[t.pid] # None => Marked(t)[t.pid].used
<1>1. CASE ~(Consumes(t) /\ pass[t.pid] # None)
  BY <1>1 DEF Marked, TypeOK
<1>2. CASE Consumes(t) /\ pass[t.pid] # None
  <2>1. t.pid \in Passes
    BY <1>2 DEF Consumes, LogState
  <2>2. PICK x \in PassRow : x = pass[t.pid]
    BY <1>2, <2>1 DEF TypeOK
  <2>3. x \in [plate: Plates, from: Time, to: 0 .. MaxTime + 1,
               single: BOOLEAN, used: BOOLEAN] /\ x.from < x.to
    BY DEF PassRow
  <2>4. PICK y : y = [x EXCEPT !.used = TRUE]
    OBVIOUS
  <2>5. /\ y \in [plate: Plates, from: Time, to: 0 .. MaxTime + 1,
                  single: BOOLEAN, used: BOOLEAN]
        /\ y.from = x.from /\ y.to = x.to /\ y.single = x.single /\ y.used
    BY <2>3, <2>4
  <2>6. y \in PassRow /\ y # None
    BY <2>3, <2>5, GateAssumption DEF PassRow
  <2>7. Marked(t) = [pass EXCEPT ![t.pid] = y]
    BY <1>2, <2>2, <2>4 DEF Marked
  <2>8. QED
    BY <1>2, <2>1, <2>2, <2>5, <2>6, <2>7 DEF TypeOK
<1>3. QED
  BY <1>1, <1>2

(* A call returns or raises, and leaves the gate open or shut.              *)
LEMMA AnswerType ==
  ASSUME NEW good \in BOOLEAN, NEW a \in Answers(good)
  PROVE  a.ok \in BOOLEAN /\ a.opened \in BOOLEAN
<1>1. \/ a = [ok |-> good, opened |-> good]
      \/ \E o \in {FALSE, good} : a = [ok |-> FALSE, opened |-> o]
  BY DEF Answers
<1>2. ASSUME NEW x \in BOOLEAN, NEW o \in BOOLEAN, a = [ok |-> x, opened |-> o]
      PROVE  a.ok \in BOOLEAN /\ a.opened \in BOOLEAN
  BY <1>2
<1>3. QED
  BY <1>1, <1>2

(* The types hold at first.                                                 *)
LEMMA TypeInit == Init => TypeOK
<1>1. ASSUME Init PROVE TypeOK
  <2>1. MaxReads \in Nat /\ MaxManual \in Nat /\ MaxTime \in Nat
    BY GateAssumption
  <2>2. Idle \in ThreadState /\ Idle \in ManualState
    BY DEF ThreadState, ManualState
  <2>3. QED
    BY <1>1, <2>1, <2>2, Zenon, SMT DEF Init, TypeOK, Time
<1>2. QED
  BY <1>1

(* The reporter's commit takes the loaded rules from a thread, no more.     *)
LEMMA HealthShape ==
  ASSUME TypeOK, NEW c \in Cams, HealthCommit(c)
  PROVE  /\ thread'[c].pc = thread[c].pc /\ thread'[c].pc \in {"eval", "pulse"}
         /\ thread'[c].seen = None /\ thread'[c].todo = thread[c].todo
         /\ thread[c].pc = "pulse" =>
              /\ thread'[c].rid = thread[c].rid /\ thread'[c].kid = thread[c].kid
              /\ thread'[c].pid = thread[c].pid /\ thread'[c].one = thread[c].one
         /\ \A d \in Cams \ {c} : thread'[d] = thread[d]
         /\ thread[c] \in ThreadState
<1>1. PICK t \in EvalState \cup PulseState : t = thread[c]
  BY ThreadShape DEF HealthCommit, TypeOK
<1>2. thread' = [thread EXCEPT ![c] = [t EXCEPT !.seen = None]] /\ t.pc \in {"eval", "pulse"}
  BY <1>1 DEF HealthCommit, Goto
<1>3. thread'[c] = [t EXCEPT !.seen = None]
  BY <1>2 DEF TypeOK
<1>4. \A d \in Cams \ {c} : thread'[d] = thread[d]
  BY <1>2 DEF TypeOK
<1>5. CASE t \in EvalState
  BY <1>1, <1>2, <1>3, <1>4, <1>5 DEF EvalState, TypeOK
<1>6. CASE t \in PulseState
  BY <1>1, <1>2, <1>3, <1>4, <1>6 DEF PulseState, TypeOK
<1>7. QED
  BY <1>5, <1>6

(* What a relay call does: it takes the thread on, and counts if it returns. *)
LEMMA PulseOutcome ==
  ASSUME NEW c \in Cams, PulseRelay(c), NEW t \in PulseState, t = thread[c]
  PROVE  \E ok \in BOOLEAN :
           /\ thread' = [thread EXCEPT ![c] =
                 [pc |-> "log", plate |-> t.plate, todo |-> t.todo, rid |-> t.rid,
                  kid |-> t.kid, pid |-> t.pid, one |-> t.one, ok |-> ok]]
           /\ opens' = IF ok /\ t.pid # None THEN [opens EXCEPT ![t.pid] = @ + 1] ELSE opens
<1>1. PICK a \in Answers(~t.sealed) :
        /\ thread' = [thread EXCEPT ![c] =
              [pc |-> "log", plate |-> t.plate, todo |-> t.todo, rid |-> t.rid,
               kid |-> t.kid, pid |-> t.pid, one |-> t.one, ok |-> a.ok]]
        /\ opens' = IF a.ok /\ t.pid # None THEN [opens EXCEPT ![t.pid] = @ + 1] ELSE opens
  BY DEF PulseRelay, Goto
<1>2. a.ok \in BOOLEAN
  BY AnswerType DEF PulseState
<1>3. PICK ok \in BOOLEAN : ok = a.ok
  BY <1>2
<1>4. QED
  BY <1>1, <1>3

(* Every step of every actor keeps the types.                               *)
LEMMA TypeStep == TypeOK /\ [Next]_vars => TypeOK'
<1> SUFFICES ASSUME TypeOK, [Next]_vars PROVE TypeOK'
  OBVIOUS
<1>0. MaxReads \in Nat /\ MaxManual \in Nat /\ MaxTime \in Nat
  BY GateAssumption
<1>1. ASSUME NEW c \in Cams, NEW p \in Plates, LoadRules(c, p) PROVE TypeOK'
  <2>1. reads' \in 0 .. MaxReads
    BY <1>0, <1>1 DEF LoadRules, TypeOK
  <2>2. CASE licensed
    <3>1. PICK q \in Ordered(EnabledRules(c)) :
            Goto(c, [pc |-> "eval", plate |-> p, todo |-> q, seen |-> rule])
      BY <1>1, <2>2 DEF LoadRules
    <3>2. q \in Seq(Rules)
      BY <3>1, OrderedType DEF EnabledRules
    <3>3. [pc |-> "eval", plate |-> p, todo |-> q, seen |-> rule] \in EvalState
      BY <3>2 DEF EvalState, Snapshot, TypeOK
    <3>4. thread' \in [Cams -> ThreadState]
      BY <3>1, <3>3 DEF Goto, TypeOK, ThreadState
    <3>5. owed' \in [Cams -> SUBSET Rules]
      BY <1>1, <2>2 DEF LoadRules, TypeOK, MustFire, EnabledRules
    <3>6. QED
      BY <1>1, <2>1, <3>4, <3>5 DEF LoadRules, TypeOK, tables
  <2>3. CASE ~licensed
    BY <1>1, <2>1, <2>3 DEF LoadRules, TypeOK, tables
  <2>4. QED
    BY <2>2, <2>3
<1>2. ASSUME NEW c \in Cams, EvalRule(c) PROVE TypeOK'
  <2>1. thread[c] \in EvalState /\ thread[c].todo # <<>>
    BY <1>2, ThreadShape DEF EvalRule, TypeOK
  <2>2. PICK t \in EvalState : t = thread[c]
    BY <2>1
  <2>3. \/ thread' = [thread EXCEPT ![c] = Idle]
        \/ thread' = [thread EXCEPT ![c] = [t EXCEPT !.todo = Tail(@)]]
        \/ \E v \in Matches(RuleSeen(t).cond, t.plate) :
             /\ RuleSeen(t) # None /\ Fires(t, RuleSeen(t))
             /\ thread' = [thread EXCEPT ![c] = Pulsing(t, RuleSeen(t), v)]
    BY <1>2, <2>2 DEF EvalRule, Goto
  <2>4. [t EXCEPT !.todo = Tail(@)] \in EvalState
    BY <2>1, <2>2 DEF EvalState
  <2>5. \A v \in Matches(RuleSeen(t).cond, t.plate) :
           RuleSeen(t) # None /\ Fires(t, RuleSeen(t)) => Pulsing(t, RuleSeen(t), v) \in PulseState
    BY <2>1, <2>2, PulsingType
  <2>6. thread' \in [Cams -> ThreadState]
    BY <2>3, <2>4, <2>5 DEF TypeOK, ThreadState
  <2>7. QED
    BY <1>2, <2>6 DEF EvalRule, TypeOK, tables, observed
<1>3. ASSUME NEW c \in Cams, EvalDone(c) PROVE TypeOK'
  BY <1>3 DEF EvalDone, Goto, TypeOK, ThreadState, tables, observed
<1>4. ASSUME NEW c \in Cams, PulseRelay(c) PROVE TypeOK'
  <2>1. PICK t \in PulseState : t = thread[c]
    BY <1>4, ThreadShape DEF PulseRelay, TypeOK
  <2>2. PICK a \in Answers(~t.sealed) :
          /\ Goto(c, [pc |-> "log", plate |-> t.plate, todo |-> t.todo, rid |-> t.rid,
                      kid |-> t.kid, pid |-> t.pid, one |-> t.one, ok |-> a.ok])
          /\ opens' = IF a.ok /\ t.pid # None THEN [opens EXCEPT ![t.pid] = @ + 1] ELSE opens
          /\ unheard' = IF a.opened /\ ~a.ok /\ t.pid # None
                        THEN [unheard EXCEPT ![t.pid] = @ + 1] ELSE unheard
    BY <1>4, <2>1 DEF PulseRelay
  <2>3. a.ok \in BOOLEAN
    BY <2>1, <2>2, AnswerType DEF PulseState
  <2>4. [pc |-> "log", plate |-> t.plate, todo |-> t.todo, rid |-> t.rid,
         kid |-> t.kid, pid |-> t.pid, one |-> t.one, ok |-> a.ok] \in LogState
    BY <2>1, <2>3 DEF PulseState, LogState
  <2>5. thread' \in [Cams -> ThreadState]
    BY <2>2, <2>4 DEF Goto, TypeOK, ThreadState
  <2>6. opens' \in [Passes -> Nat] /\ unheard' \in [Passes -> Nat]
    BY <2>1, <2>2 DEF TypeOK, PulseState
  <2>7. attempts' \in [Ctrls -> Nat]
    BY <1>4, <2>1 DEF PulseRelay, TypeOK, PulseState
  <2>8. owed' \in [Cams -> SUBSET Rules]
    BY <1>4 DEF PulseRelay, TypeOK
  <2>9. QED
    BY <1>4, <2>5, <2>6, <2>7, <2>8 DEF PulseRelay, TypeOK, tables
<1>5. ASSUME NEW c \in Cams, LogTrigger(c) PROVE TypeOK'
  <2>1. PICK t \in LogState : t = thread[c]
    BY <1>5, ThreadShape DEF LogTrigger, TypeOK
  <2>2. [pc |-> "eval", plate |-> t.plate, todo |-> t.todo, seen |-> None] \in EvalState
    BY <2>1 DEF LogState, EvalState, Snapshot
  <2>3. thread' \in [Cams -> ThreadState]
    BY <1>5, <2>1, <2>2 DEF LogTrigger, Goto, TypeOK, ThreadState
  <2>4. logged' \in [Ctrls -> Nat]
    BY <1>5, <2>1 DEF LogTrigger, TypeOK, LogState
  <2>5. pass' \in [Passes -> PassRow \cup {None}]
    <3>1. pass' \in {pass, Marked(t)}
      BY <1>5, <2>1 DEF LogTrigger
    <3>2. QED
      BY <2>1, <3>1, MarkedType DEF TypeOK
  <2>6. QED
    BY <1>5, <2>3, <2>4, <2>5 DEF LogTrigger, TypeOK
<1>21. ASSUME NEW c \in Cams, QueryFails(c) PROVE TypeOK'
  BY <1>21 DEF QueryFails, Goto, TypeOK, ThreadState, tables, observed
<1>22. ASSUME NEW c \in Cams, HealthCommit(c) PROVE TypeOK'
  <2>1. thread[c] \in EvalState \cup PulseState
    BY <1>22, ThreadShape DEF HealthCommit, TypeOK
  <2>2. PICK t \in EvalState \cup PulseState : t = thread[c]
    BY <2>1
  <2>3. [t EXCEPT !.seen = None] \in EvalState \cup PulseState
    BY DEF EvalState, PulseState, Snapshot
  <2>4. thread' \in [Cams -> ThreadState]
    BY <1>22, <2>2, <2>3 DEF HealthCommit, Goto, TypeOK, ThreadState
  <2>5. QED
    BY <1>22, <2>4 DEF HealthCommit, TypeOK, tables, observed
<1>6. ASSUME Restart PROVE TypeOK'
  BY <1>6 DEF Restart, TypeOK, ThreadState, tables
<1>7. ASSUME NEW v \in Passes, CreatePass(v) PROVE TypeOK'
  <2>1. PICK p \in Plates, f \in Time, w \in 1 .. MaxTime + 1, s \in BOOLEAN :
          /\ f < w
          /\ pass' = [pass EXCEPT ![v] =
                        [plate |-> p, from |-> f, to |-> w, single |-> s, used |-> FALSE]]
          /\ issue' = [issue EXCEPT ![v] = IF s THEN "single" ELSE "multi"]
    BY <1>7 DEF CreatePass
  <2>2. [plate |-> p, from |-> f, to |-> w, single |-> s, used |-> FALSE] \in PassRow
    BY <1>0, <2>1 DEF PassRow, Time
  <2>3. QED
    BY <1>7, <2>1, <2>2 DEF CreatePass, TypeOK
<1>8. ASSUME NEW v \in Passes, CancelPass(v) PROVE TypeOK'
  BY <1>8 DEF CancelPass, TypeOK, observed
<1>9. ASSUME NEW k \in Ctrls, CreateController(k) PROVE TypeOK'
  <2>1. PICK s \in Stored : ctrl' = [ctrl EXCEPT ![k] = [on |-> TRUE, secret |-> s]]
    BY <1>9 DEF CreateController
  <2>2. [on |-> TRUE, secret |-> s] \in CtrlRow
    BY <2>1 DEF Stored, CtrlRow
  <2>3. QED
    BY <1>9, <2>1, <2>2 DEF CreateController, TypeOK, observed
<1>10. ASSUME NEW k \in Ctrls, PatchController(k) PROVE TypeOK'
  <2>1. PICK on \in BOOLEAN, s \in {ctrl[k].secret} \cup Stored :
          ctrl' = [ctrl EXCEPT ![k] = [on |-> on, secret |-> s]]
    BY <1>10 DEF PatchController
  <2>2. ctrl[k] \in CtrlRow
    BY <1>10 DEF PatchController, TypeOK
  <2>3. [on |-> on, secret |-> s] \in CtrlRow
    BY <2>1, <2>2 DEF Stored, CtrlRow
  <2>4. QED
    BY <1>10, <2>1, <2>3 DEF PatchController, Released, TypeOK
<1>11. ASSUME NEW k \in Ctrls, DeleteController(k) PROVE TypeOK'
  BY <1>11 DEF DeleteController, Released, TypeOK
<1>12. ASSUME NEW r \in Rules, CreateRule(r) PROVE TypeOK'
  <2>1. PICK f \in RuleForms :
          rule' = [rule EXCEPT ![r] = [cam |-> f.cam, ctrl |-> f.ctrl, prio |-> f.prio,
                                       on |-> TRUE, cond |-> f.cond]]
    BY <1>12 DEF CreateRule
  <2>2. [cam |-> f.cam, ctrl |-> f.ctrl, prio |-> f.prio, on |-> TRUE, cond |-> f.cond] \in RuleRow
    BY <2>1, GateAssumption
  <2>3. QED
    BY <1>12, <2>1, <2>2 DEF CreateRule, TypeOK, observed
<1>13. ASSUME NEW r \in Rules, PatchRule(r) PROVE TypeOK'
  <2>1. PICK f \in RuleForms, on \in BOOLEAN :
          rule' = [rule EXCEPT ![r] = [@ EXCEPT !.prio = f.prio, !.cond = f.cond, !.on = on]]
    BY <1>13 DEF PatchRule
  <2>2. [cam |-> f.cam, ctrl |-> f.ctrl, prio |-> f.prio, on |-> TRUE, cond |-> f.cond] \in RuleRow
    BY <2>1, GateAssumption
  <2>3. f.prio \in Nat /\ f.cond \in {"any_plate", "watchlist_match", "permit_valid", "nothing"}
    BY <2>2 DEF RuleRow
  <2>4. rule[r] \in RuleRow
    BY <1>13 DEF PatchRule, TypeOK
  <2>5. [rule[r] EXCEPT !.prio = f.prio, !.cond = f.cond, !.on = on] \in RuleRow
    BY <2>1, <2>3, <2>4 DEF RuleRow
  <2>6. QED
    BY <1>13, <2>1, <2>5 DEF PatchRule, Released, TypeOK
<1>14. ASSUME NEW r \in Rules, DeleteRule(r) PROVE TypeOK'
  BY <1>14 DEF DeleteRule, Released, TypeOK
<1>15. ASSUME NEW k \in Ctrls, ManualStart(k) PROVE TypeOK'
  <2>1. [pc |-> "pulse", kid |-> k] \in ManualState
    BY DEF ManualState
  <2>2. manuals' \in 0 .. MaxManual
    BY <1>0, <1>15 DEF ManualStart, TypeOK
  <2>3. QED
    BY <1>15, <2>1, <2>2 DEF ManualStart, TypeOK, tables
<1>16. ASSUME ManualPulse PROVE TypeOK'
  <2>1. manual \in [pc: {"pulse", "log"}, kid: Ctrls]
    BY <1>16 DEF ManualPulse, TypeOK, ManualState
  <2>2. manual' \in ManualState
    BY <1>16, <2>1 DEF ManualPulse, ManualState
  <2>3. attempts' \in [Ctrls -> Nat]
    BY <1>16, <2>1 DEF ManualPulse, TypeOK
  <2>4. QED
    BY <1>16, <2>2, <2>3 DEF ManualPulse, TypeOK, tables
<1>17. ASSUME ManualLog PROVE TypeOK'
  <2>1. manual \in [pc: {"pulse", "log"}, kid: Ctrls]
    BY <1>17 DEF ManualLog, TypeOK, ManualState
  <2>2. logged' \in [Ctrls -> Nat] /\ refused' \in [Ctrls -> Nat]
    BY <1>17, <2>1 DEF ManualLog, TypeOK
  <2>3. QED
    BY <1>17, <2>2 DEF ManualLog, TypeOK, ManualState, tables
<1>18. ASSUME Tick PROVE TypeOK'
  BY <1>0, <1>18 DEF Tick, TypeOK, Time, tables, observed
<1>19. CASE UNCHANGED vars
  BY <1>19 DEF vars, TypeOK
<1>20. QED
  BY <1>1, <1>2, <1>3, <1>4, <1>5, <1>6, <1>7, <1>8, <1>9, <1>10, <1>11, <1>12, <1>13, <1>14,
     <1>15, <1>16, <1>17, <1>18, <1>19, <1>21, <1>22 DEF Next, ThreadStep

(* Rows, threads and requests keep their types for any number of cameras,  *)
(* passes, rules and controllers, and every pass has a window: the rows of *)
(* models/gate.py and models/access.py.                                    *)
THEOREM TypeCorrect == Spec => []TypeOK
  BY TypeInit, TypeStep, PTL DEF Spec

(***************************************************************************)
(* A used pass has opened a gate                                           *)
(***************************************************************************)

(* A thread that is about to consume a pass has opened under it.            *)
OpenedFirst ==
  \A c \in Cams : (thread[c].pc = "log" /\ Consumes(thread[c])) => opens[thread[c].pid] >= 1

UsedInv == TypeOK /\ UsedMeansOpened /\ OpenedFirst

(* Every step keeps the pulse before the consumption.                       *)
LEMMA UsedStep == UsedInv /\ [Next]_vars => (UsedMeansOpened /\ OpenedFirst)'
<1> SUFFICES ASSUME UsedInv, [Next]_vars PROVE (UsedMeansOpened /\ OpenedFirst)'
  OBVIOUS
<1> USE DEF UsedInv
<1>1. ASSUME NEW c \in Cams, NEW p \in Plates, LoadRules(c, p)
      PROVE (UsedMeansOpened /\ OpenedFirst)'
  <2>1. UNCHANGED <<pass, opens>>
    BY <1>1 DEF LoadRules, tables
  <2>2. \A d \in Cams : thread'[d] = thread[d] \/ thread'[d].pc = "eval"
    BY <1>1 DEF LoadRules, Goto, TypeOK
  <2>3. QED
    BY <2>1, <2>2 DEF UsedMeansOpened, OpenedFirst, Consumes
<1>2. ASSUME NEW c \in Cams, EvalRule(c) PROVE (UsedMeansOpened /\ OpenedFirst)'
  <2>1. UNCHANGED <<pass, opens>>
    BY <1>2 DEF EvalRule, tables, observed
  <2>2. thread[c] \in EvalState /\ thread[c].todo # <<>>
    BY <1>2, ThreadShape DEF EvalRule, TypeOK
  <2>3. \A d \in Cams : thread'[d] = thread[d] \/ thread'[d].pc \in {"idle", "eval", "pulse"}
    <3>1. \/ thread' = [thread EXCEPT ![c] = Idle]
          \/ thread' = [thread EXCEPT ![c] = [thread[c] EXCEPT !.todo = Tail(@)]]
          \/ \E v \in Matches(RuleSeen(thread[c]).cond, thread[c].plate) :
               thread' = [thread EXCEPT ![c] = Pulsing(thread[c], RuleSeen(thread[c]), v)]
      BY <1>2 DEF EvalRule, Goto
    <3>2. [thread[c] EXCEPT !.todo = Tail(@)].pc = "eval"
      BY <2>2 DEF EvalState
    <3>3. \A v : Pulsing(thread[c], RuleSeen(thread[c]), v).pc = "pulse"
      BY DEF Pulsing
    <3>4. Idle.pc = "idle"
      BY DEF Idle
    <3>5. \A d \in Cams : d # c => thread'[d] = thread[d]
      BY <3>1 DEF TypeOK
    <3>6. thread'[c].pc \in {"idle", "eval", "pulse"}
      <4>1. \A t : thread' = [thread EXCEPT ![c] = t] => thread'[c] = t
        BY DEF TypeOK
      <4>2. CASE thread' = [thread EXCEPT ![c] = Idle]
        BY <4>1, <4>2, <3>4
      <4>3. CASE thread' = [thread EXCEPT ![c] = [thread[c] EXCEPT !.todo = Tail(@)]]
        <5>1. thread'[c] = [thread[c] EXCEPT !.todo = Tail(@)]
          BY <4>1, <4>3
        <5>2. QED
          BY <5>1, <3>2
      <4>4. ASSUME NEW v, thread' = [thread EXCEPT ![c] = Pulsing(thread[c], RuleSeen(thread[c]), v)]
            PROVE  thread'[c].pc = "pulse"
        BY <4>1, <4>4, <3>3
      <4>5. QED
        BY <3>1, <4>2, <4>3, <4>4
    <3>7. QED
      BY <3>5, <3>6
  <2>4. QED
    BY <2>1, <2>3 DEF UsedMeansOpened, OpenedFirst, Consumes
<1>3. ASSUME NEW c \in Cams, EvalDone(c) PROVE (UsedMeansOpened /\ OpenedFirst)'
  BY <1>3 DEF EvalDone, Goto, Idle, TypeOK, UsedMeansOpened, OpenedFirst, Consumes, tables, observed
<1>4. ASSUME NEW c \in Cams, PulseRelay(c) PROVE (UsedMeansOpened /\ OpenedFirst)'
  <2>1. PICK t \in PulseState : t = thread[c]
    BY <1>4, ThreadShape DEF PulseRelay, TypeOK
  <2>2. PICK ok \in BOOLEAN :
          /\ thread' = [thread EXCEPT ![c] =
                [pc |-> "log", plate |-> t.plate, todo |-> t.todo, rid |-> t.rid,
                 kid |-> t.kid, pid |-> t.pid, one |-> t.one, ok |-> ok]]
          /\ opens' = IF ok /\ t.pid # None THEN [opens EXCEPT ![t.pid] = @ + 1] ELSE opens
    BY <1>4, <2>1, PulseOutcome
  <2>3. \A v \in Passes : opens'[v] >= opens[v] /\ opens[v] \in Nat /\ opens'[v] \in Nat
    BY <2>2 DEF TypeOK
  <2>4. UsedMeansOpened'
    BY <1>4, <2>3 DEF PulseRelay, tables, UsedMeansOpened, TypeOK
  <2>5. ASSUME NEW d \in Cams, thread'[d].pc = "log", Consumes(thread'[d])
        PROVE  opens'[thread'[d].pid] >= 1
    <3>1. CASE d = c
      <4>1. thread'[d].pid = t.pid /\ thread'[d].ok = ok
        BY <2>2, <3>1 DEF TypeOK
      <4>2. ok /\ t.pid # None
        BY <2>5, <4>1 DEF Consumes
      <4>3. t.pid \in Passes
        BY <2>1, <4>2 DEF PulseState
      <4>4. QED
        BY <2>2, <4>1, <4>2, <4>3 DEF TypeOK
    <3>2. CASE d # c
      <4>1. thread'[d] = thread[d]
        BY <2>2, <3>2 DEF TypeOK
      <4>2. thread[d] \in LogState
        BY <2>5, <4>1, ThreadShape DEF TypeOK
      <4>3. thread[d].pid \in Passes
        BY <2>5, <4>1, <4>2 DEF Consumes, LogState
      <4>4. opens[thread[d].pid] >= 1
        BY <2>5, <4>1 DEF OpenedFirst
      <4>5. QED
        BY <2>3, <4>1, <4>3, <4>4
    <3>3. QED
      BY <3>1, <3>2
  <2>6. QED
    BY <2>4, <2>5 DEF OpenedFirst
<1>5. ASSUME NEW c \in Cams, LogTrigger(c) PROVE (UsedMeansOpened /\ OpenedFirst)'
  <2>1. opens' = opens
    BY <1>5 DEF LogTrigger
  <2>2. \A d \in Cams : thread'[d] = thread[d] \/ thread'[d].pc \in {"poisoned", "eval", "idle"}
    BY <1>5 DEF LogTrigger, Goto, Poisoned, Idle, TypeOK
  <2>3. ASSUME NEW v \in Passes, pass'[v] # None, pass'[v].used PROVE opens[v] >= 1
    <3>1. PICK t \in LogState : t = thread[c]
      BY <1>5, ThreadShape DEF LogTrigger, TypeOK
    <3>2. t.pc = "log" /\ pass' \in {pass, Marked(t)}
      BY <1>5, <3>1 DEF LogTrigger
    <3>3. pass'[v] = pass[v] \/ (v = t.pid /\ Consumes(t))
      BY <3>2, MarkedType
    <3>4. QED
      BY <2>3, <3>1, <3>2, <3>3 DEF UsedMeansOpened, OpenedFirst
  <2>4. QED
    BY <2>1, <2>2, <2>3 DEF UsedMeansOpened, OpenedFirst, Consumes
<1>14. ASSUME NEW c \in Cams, QueryFails(c) \/ HealthCommit(c)
       PROVE  (UsedMeansOpened /\ OpenedFirst)'
  <2>1. UNCHANGED <<pass, opens>>
    BY <1>14 DEF QueryFails, HealthCommit, tables, observed
  <2>2. \A d \in Cams : thread'[d] = thread[d] \/ thread'[d].pc # "log"
    <3>1. \A d \in Cams \ {c} : thread'[d] = thread[d]
      BY <1>14 DEF QueryFails, HealthCommit, Goto, TypeOK
    <3>2. QED
      BY <1>14, <3>1, HealthShape DEF QueryFails, Goto, Poisoned, TypeOK
  <2>3. QED
    BY <2>1, <2>2 DEF UsedMeansOpened, OpenedFirst, Consumes
<1>6. ASSUME Restart PROVE (UsedMeansOpened /\ OpenedFirst)'
  BY <1>6 DEF Restart, Idle, UsedMeansOpened, OpenedFirst, Consumes, tables
<1>7. ASSUME NEW v \in Passes, CreatePass(v) PROVE (UsedMeansOpened /\ OpenedFirst)'
  <2>1. \A w \in Passes : pass'[w] = pass[w] \/ ~pass'[w].used
    BY <1>7 DEF CreatePass, TypeOK
  <2>2. UNCHANGED <<opens, thread>>
    BY <1>7 DEF CreatePass
  <2>3. QED
    BY <2>1, <2>2 DEF UsedMeansOpened, OpenedFirst, Consumes
<1>8. ASSUME NEW v \in Passes, CancelPass(v) PROVE (UsedMeansOpened /\ OpenedFirst)'
  BY <1>8 DEF CancelPass, TypeOK, UsedMeansOpened, OpenedFirst, Consumes, observed
<1>9. ASSUME UNCHANGED <<pass, thread, opens>> PROVE (UsedMeansOpened /\ OpenedFirst)'
  BY <1>9 DEF UsedMeansOpened, OpenedFirst, Consumes
<1>10. ASSUME NEW k \in Ctrls,
              CreateController(k) \/ PatchController(k) \/ DeleteController(k) \/ ManualStart(k)
       PROVE  UNCHANGED <<pass, thread, opens>>
  BY <1>10 DEF CreateController, PatchController, DeleteController, ManualStart, tables, observed
<1>11. ASSUME NEW r \in Rules, CreateRule(r) \/ PatchRule(r) \/ DeleteRule(r)
       PROVE  UNCHANGED <<pass, thread, opens>>
  BY <1>11 DEF CreateRule, PatchRule, DeleteRule, observed
<1>12. ASSUME ManualPulse \/ ManualLog \/ Tick \/ UNCHANGED vars
       PROVE  UNCHANGED <<pass, thread, opens>>
  BY <1>12 DEF ManualPulse, ManualLog, Tick, vars, tables, observed
<1>13. QED
  BY <1>1, <1>2, <1>3, <1>4, <1>5, <1>6, <1>7, <1>8, <1>9, <1>10, <1>11, <1>12, <1>14
     DEF Next, ThreadStep

(* A pass is marked used only after a pulse under it opened a gate, for any *)
(* number of lanes and whatever is cancelled, edited or restarted           *)
(* meanwhile: the consumption of gate.py:271-274.                           *)
THEOREM UsedHasOpened == Spec => []UsedMeansOpened
<1>1. Init => UsedInv
  BY TypeInit DEF Init, UsedInv, UsedMeansOpened, OpenedFirst, Idle
<1>2. UsedInv /\ [Next]_vars => UsedInv'
  BY TypeStep, UsedStep DEF UsedInv
<1>3. UsedInv => UsedMeansOpened
  BY DEF UsedInv
<1>4. QED
  BY <1>1, <1>2, <1>3, PTL DEF Spec

(***************************************************************************)
(* A single-use pass opens once, on a site with one lane                   *)
(***************************************************************************)

OneLane ==
  CanRestart = FALSE /\ "delete_ctrl" \notin Ops /\ \A c, d \in Cams : c = d

Single(v) == v \in Passes /\ issue[v] = "single"
Holds(c, v) == thread[c].pc \in {"pulse", "log"} /\ thread[c].pid = v

(* The lane is about to consume v, or will never read a plate again.        *)
Consuming(v) ==
  \E c \in Cams :
    \/ thread[c].pc = "poisoned"
    \/ thread[c].pc = "log" /\ thread[c].pid = v /\ thread[c].ok

NewUntouched ==
  \A v \in Passes : issue[v] = "new" =>
    opens[v] = 0 /\ pass[v] = None /\ \A c \in Cams : ~Holds(c, v)
RowKnows == \A v \in Passes : Single(v) /\ pass[v] # None => pass[v].single
LaneKnows == \A c \in Cams, v \in Passes : Single(v) /\ Holds(c, v) => thread[c].one
OpenedIsConsumed ==
  \A v \in Passes : Single(v) /\ pass[v] # None /\ opens[v] >= 1 => pass[v].used \/ Consuming(v)
PulsesFirst ==
  \A c \in Cams, v \in Passes : Single(v) /\ Holds(c, v) /\ thread[c].pc = "pulse" => opens[v] = 0

OnceInv == NewUntouched /\ RowKnows /\ LaneKnows /\ OpenedIsConsumed /\ PulsesFirst

(* Nothing the invariant mentions changes.                                  *)
LEMMA OnceFrame ==
  ASSUME OnceInv, UNCHANGED <<pass, thread, opens, issue>>
  PROVE  OnceInv'
  BY DEF OnceInv, NewUntouched, RowKnows, LaneKnows, OpenedIsConsumed, PulsesFirst,
         Single, Holds, Consuming

(* A lane that neither holds a pass nor is poisoned moves to such a state.  *)
LEMMA OnceIdles ==
  ASSUME OnceInv, UNCHANGED <<pass, opens, issue>>, NEW c \in Cams,
         thread[c].pc \in {"idle", "eval"}, thread'[c].pc \in {"idle", "eval"},
         \A d \in Cams : d # c => thread'[d] = thread[d]
  PROVE  OnceInv'
<1>1. \A d \in Cams : \A v : (Holds(d, v))' => Holds(d, v) /\ thread'[d] = thread[d]
  BY DEF Holds
<1>2. \A v : Consuming(v) => Consuming(v)'
  BY DEF Consuming
<1>3. QED
  BY <1>1, <1>2 DEF OnceInv, NewUntouched, RowKnows, LaneKnows, OpenedIsConsumed, PulsesFirst,
                    Single

(* The lane matches a rule and calls its relay.                             *)
LEMMA OnceFires ==
  ASSUME OneLane, TypeOK, OnceInv, UNCHANGED <<pass, opens, issue>>, NEW c \in Cams,
         thread[c].pc = "eval", thread'[c].pc = "pulse", NEW v \in Passes \cup {None},
         NEW p \in Plates, v # None => v \in ValidPasses(p),
         thread'[c].pid = v, thread'[c].one = (v # None /\ pass[v].single)
  PROVE  OnceInv'
<1>1. \A d \in Cams : d = c
  BY DEF OneLane
<1>2. \A w \in Passes : ~Consuming(w)
  BY <1>1 DEF Consuming
<1>3. \A w \in Passes : Holds(c, w)' => w = v /\ pass[w] # None /\ ~pass[w].used
  BY GateAssumption DEF Holds, ValidPasses
<1>4. \A w \in Passes : Holds(c, w)' /\ Single(w) => opens[w] = 0
  BY <1>2, <1>3 DEF OnceInv, OpenedIsConsumed, TypeOK
<1>5. NewUntouched'
  BY <1>1, <1>3 DEF OnceInv, NewUntouched
<1>6. LaneKnows'
  BY <1>1, <1>3, GateAssumption DEF OnceInv, LaneKnows, RowKnows, Single
<1>7. OpenedIsConsumed'
  BY <1>2 DEF OnceInv, OpenedIsConsumed, Single
<1>8. PulsesFirst'
  BY <1>1, <1>4 DEF PulsesFirst, Single
<1>9. QED
  BY <1>5, <1>6, <1>7, <1>8 DEF OnceInv, RowKnows, Single

(* The relay answers.                                                       *)
LEMMA OncePulses ==
  ASSUME OneLane, TypeOK, OnceInv, NEW c \in Cams, PulseRelay(c)
  PROVE  OnceInv'
<1>1. PICK t \in PulseState : t = thread[c]
  BY ThreadShape DEF PulseRelay, TypeOK
<1>2. PICK ok \in BOOLEAN :
        /\ thread' = [thread EXCEPT ![c] =
              [pc |-> "log", plate |-> t.plate, todo |-> t.todo, rid |-> t.rid,
               kid |-> t.kid, pid |-> t.pid, one |-> t.one, ok |-> ok]]
        /\ opens' = IF ok /\ t.pid # None THEN [opens EXCEPT ![t.pid] = @ + 1] ELSE opens
  BY <1>1, PulseOutcome
<1>3. UNCHANGED <<pass, issue>> /\ thread[c].pc = "pulse"
  BY DEF PulseRelay, tables
<1>4. /\ thread'[c].pc = "log" /\ thread'[c].pid = t.pid
      /\ thread'[c].one = t.one /\ thread'[c].ok = ok
  BY <1>2 DEF TypeOK
<1>5. \A d \in Cams : d = c
  BY DEF OneLane
<1>6. \A v \in Passes : Holds(c, v)' <=> Holds(c, v)
  BY <1>1, <1>3, <1>4 DEF Holds
<1>7. \A v \in Passes : opens'[v] = opens[v] \/ (v = t.pid /\ ok /\ opens'[v] = opens[v] + 1)
  BY <1>2 DEF TypeOK
<1>8. \A v \in Passes : v = t.pid => Holds(c, v)
  BY <1>1, <1>3 DEF Holds
<1>9. NewUntouched'
  BY <1>3, <1>5, <1>6, <1>7, <1>8 DEF OnceInv, NewUntouched
<1>10. RowKnows' /\ LaneKnows'
  BY <1>1, <1>3, <1>4, <1>5, <1>6 DEF OnceInv, RowKnows, LaneKnows, Single
<1>11. PulsesFirst'
  BY <1>4, <1>5 DEF PulsesFirst
<1>13. OpenedIsConsumed'
  <2>1. \A v \in Passes : v = t.pid /\ ok => Consuming(v)'
    BY <1>4 DEF Consuming
  <2>2. \A v : ~Consuming(v)
    BY <1>3, <1>5 DEF Consuming
  <2>3. QED
    BY <1>3, <1>7, <2>1, <2>2 DEF OnceInv, OpenedIsConsumed, Single
<1>14. QED
  BY <1>9, <1>10, <1>11, <1>13 DEF OnceInv

(* The controller a thread has called is there.                             *)
CtrlThere == \A c \in Cams : thread[c].pc \in {"pulse", "log"} => ctrl[thread[c].kid] # None

(* Where controllers are not deleted they stay.                             *)
LEMMA CtrlStep ==
  ASSUME "delete_ctrl" \notin Ops, TypeOK, CtrlThere, [Next]_vars
  PROVE  CtrlThere'
<1>1. \A k \in Ctrls : ctrl[k] # None => ctrl'[k] # None
  <2>1. ASSUME NEW k \in Ctrls, CreateController(k) PROVE \A j \in Ctrls : ctrl[j] # None => ctrl'[j] # None
    BY <2>1 DEF CreateController, TypeOK
  <2>2. ASSUME NEW k \in Ctrls, PatchController(k) PROVE \A j \in Ctrls : ctrl[j] # None => ctrl'[j] # None
    <3>1. PICK on \in BOOLEAN, s \in {ctrl[k].secret} \cup Stored :
            ctrl' = [ctrl EXCEPT ![k] = [on |-> on, secret |-> s]]
      BY <2>2 DEF PatchController
    <3>2. ctrl[k] \in CtrlRow
      BY <2>2 DEF PatchController, TypeOK
    <3>3. [on |-> on, secret |-> s] \in CtrlRow
      BY <3>1, <3>2 DEF Stored, CtrlRow
    <3>4. QED
      BY <3>1, <3>3, GateAssumption DEF TypeOK
  <2>3. ASSUME NEW c \in Cams, ThreadStep(c) \/ QueryFails(c) \/ HealthCommit(c)
                               \/ \E p \in Plates : LoadRules(c, p)
        PROVE  ctrl' = ctrl
    BY <2>3 DEF ThreadStep, QueryFails, HealthCommit, LoadRules, EvalRule, EvalDone, PulseRelay,
                LogTrigger, tables
  <2>4. ASSUME \/ Restart \/ ManualPulse \/ ManualLog \/ Tick \/ UNCHANGED vars
               \/ \E k \in Ctrls : ManualStart(k)
               \/ \E v \in Passes : CreatePass(v) \/ CancelPass(v)
               \/ \E r \in Rules : CreateRule(r) \/ PatchRule(r) \/ DeleteRule(r)
        PROVE  ctrl' = ctrl
    BY <2>4 DEF Restart, ManualPulse, ManualLog, Tick, vars, ManualStart, CreatePass, CancelPass,
                CreateRule, PatchRule, DeleteRule, tables
  <2>5. \A k \in Ctrls : ~DeleteController(k)
    BY DEF DeleteController
  <2>6. QED
    BY <2>1, <2>2, <2>3, <2>4, <2>5 DEF Next
<1>2. ASSUME NEW c \in Cams, thread'[c] = thread[c], thread'[c].pc \in {"pulse", "log"}
      PROVE  ctrl'[thread'[c].kid] # None
  <2>1. thread[c].kid \in Ctrls
    BY <1>2, ThreadShape DEF TypeOK, PulseState, LogState
  <2>2. QED
    BY <1>1, <1>2, <2>1 DEF CtrlThere
<1>3. ASSUME NEW c \in Cams, thread'[c] # thread[c], thread'[c].pc \in {"pulse", "log"}
      PROVE  ctrl'[thread'[c].kid] # None
  <2>1. \/ Restart \/ thread' = thread
        \/ \E d \in Cams : \/ ThreadStep(d) \/ QueryFails(d) \/ HealthCommit(d)
                           \/ \E p \in Plates : LoadRules(d, p)
    BY DEF Next, CreatePass, CancelPass, CreateController, PatchController, DeleteController,
           CreateRule, PatchRule, DeleteRule, ManualStart, ManualPulse, ManualLog, Tick, vars
  <2>2. ASSUME NEW d \in Cams, ThreadStep(d) \/ QueryFails(d) \/ HealthCommit(d)
                               \/ \E p \in Plates : LoadRules(d, p)
        PROVE  d = c
    BY <1>3, <2>2 DEF ThreadStep, QueryFails, HealthCommit, LoadRules, EvalRule, EvalDone,
                      PulseRelay, LogTrigger, Goto, TypeOK
  <2>3. CASE HealthCommit(c)
    <3>1. thread'[c].pc = "pulse" /\ thread[c].pc = "pulse" /\ thread'[c].kid = thread[c].kid
      BY <1>3, <2>3, HealthShape
    <3>2. ctrl' = ctrl
      BY <2>3 DEF HealthCommit, tables
    <3>3. QED
      BY <3>1, <3>2 DEF CtrlThere
  <2>4. CASE PulseRelay(c)
    BY <2>4 DEF PulseRelay, Goto, TypeOK, CtrlThere, tables
  <2>5. CASE EvalRule(c)
    <3>1. PICK t \in EvalState : t = thread[c]
      BY <2>5, ThreadShape DEF EvalRule, TypeOK
    <3>2. t.todo # <<>> /\ ctrl' = ctrl
      BY <2>5, <3>1 DEF EvalRule, tables
    <3>3. \/ thread'[c] = Idle
          \/ thread'[c] = [t EXCEPT !.todo = Tail(@)]
          \/ \E v \in Matches(RuleSeen(t).cond, t.plate) :
               /\ RuleSeen(t) # None /\ Fires(t, RuleSeen(t))
               /\ thread'[c] = Pulsing(t, RuleSeen(t), v)
      BY <2>5, <3>1 DEF EvalRule, Goto, TypeOK
    <3>4. Idle.pc = "idle" /\ [t EXCEPT !.todo = Tail(@)].pc = "eval"
      BY DEF Idle, EvalState
    <3>5. PICK v \in Matches(RuleSeen(t).cond, t.plate) :
               /\ RuleSeen(t) # None /\ Fires(t, RuleSeen(t))
               /\ thread'[c] = Pulsing(t, RuleSeen(t), v)
      <4>1. thread'[c] # Idle
        BY <1>3, <3>4
      <4>2. thread'[c] # [t EXCEPT !.todo = Tail(@)]
        BY <1>3, <3>4
      <4>3. QED
        BY <3>3, <4>1, <4>2
    <3>6. thread'[c].kid = RuleSeen(t).ctrl
      BY <3>2, <3>5, PulsingType
    <3>7. QED
      BY <3>2, <3>5, <3>6 DEF Fires
  <2>6. CASE Restart
    BY <1>3, <2>6 DEF Restart, Idle
  <2>7. ASSUME EvalDone(c) \/ LogTrigger(c) \/ QueryFails(c) \/ \E p \in Plates : LoadRules(c, p)
        PROVE  thread'[c].pc \notin {"pulse", "log"} \/ thread'[c] = thread[c]
    BY <2>7 DEF EvalDone, LogTrigger, QueryFails, LoadRules, Goto, Idle, Poisoned, TypeOK
  <2>8. QED
    BY <1>3, <2>1, <2>2, <2>3, <2>4, <2>5, <2>6, <2>7 DEF ThreadStep
<1>4. QED
  BY <1>2, <1>3 DEF CtrlThere

(* The attempt is recorded, or its transaction fails.                       *)
LEMMA OnceLogs ==
  ASSUME OneLane, TypeOK, OnceInv, CtrlThere, NEW c \in Cams, LogTrigger(c)
  PROVE  OnceInv'
<1>1. PICK t \in LogState : t = thread[c]
  BY ThreadShape DEF LogTrigger, TypeOK
<1>2. UNCHANGED <<opens, issue>>
  BY DEF LogTrigger
<1>3. \A d \in Cams : d = c
  BY DEF OneLane
<1>4. thread'[c].pc \in {"eval", "poisoned", "idle"}
  BY DEF LogTrigger, Goto, Poisoned, Idle, TypeOK
<1>5. \A v \in Passes : ~Holds(c, v)'
  BY <1>4 DEF Holds
<1>6. pass' \in {pass, Marked(t)}
  BY <1>1 DEF LogTrigger
<1>7. \A v \in Passes : /\ pass[v] = None => pass'[v] = None
                        /\ pass'[v] # None => pass'[v].single = pass[v].single
                        /\ pass'[v] # None /\ pass[v].used => pass'[v].used
  BY <1>6, MarkedType
<1>8. ASSUME NEW v \in Passes, Single(v), Consuming(v), pass'[v] # None
      PROVE  pass'[v].used \/ Consuming(v)'
  <2>1. t.pid = v /\ t.ok
    BY <1>1, <1>3, <1>8 DEF Consuming, LogTrigger
  <2>2. t.one
    BY <1>1, <1>8, <2>1 DEF OnceInv, LaneKnows, Holds, LogTrigger
  <2>3. Consumes(t) /\ pass[t.pid] # None
    BY <1>7, <1>8, <2>1, <2>2, GateAssumption DEF Consumes
  <2>4. CASE pass' = Marked(t)
    BY <2>1, <2>3, <2>4, MarkedType
  <2>5. CASE thread' = [thread EXCEPT ![c] = Poisoned]
    <3>1. thread'[c].pc = "poisoned"
      BY <2>5 DEF TypeOK, Poisoned
    <3>2. QED
      BY <3>1 DEF Consuming
  <2>6. CASE pass' = pass /\ ~Recordable(t) /\ ctrl[t.kid] = None /\ t.pid # None
    BY <1>1, <2>6 DEF CtrlThere, LogTrigger
  <2>7. QED
    BY <1>1, <2>1, <2>4, <2>5, <2>6, GateAssumption DEF LogTrigger, Goto
<1>9. OpenedIsConsumed'
  BY <1>2, <1>7, <1>8 DEF OnceInv, OpenedIsConsumed, Single
<1>10. NewUntouched' /\ RowKnows' /\ LaneKnows' /\ PulsesFirst'
  BY <1>2, <1>3, <1>5, <1>7 DEF OnceInv, NewUntouched, RowKnows, LaneKnows, PulsesFirst, Single
<1>11. QED
  BY <1>2, <1>9, <1>10 DEF OnceInv

(* Every step of a one-lane site keeps the invariant.                       *)
LEMMA OnceStep ==
  ASSUME OneLane, TypeOK, OnceInv, CtrlThere, [Next]_vars
  PROVE  OnceInv'
<1>1. ASSUME NEW c \in Cams, NEW p \in Plates, LoadRules(c, p) PROVE OnceInv'
  <2>1. UNCHANGED <<pass, opens, issue>>
    BY <1>1 DEF LoadRules, tables
  <2>2. thread[c].pc = "idle" /\ thread'[c].pc \in {"idle", "eval"}
    BY <1>1 DEF LoadRules, Goto, Idle, TypeOK
  <2>3. \A d \in Cams : d # c => thread'[d] = thread[d]
    BY DEF OneLane
  <2>4. QED
    BY <2>1, <2>2, <2>3, OnceIdles
<1>2. ASSUME NEW c \in Cams, EvalRule(c) PROVE OnceInv'
  <2>1. UNCHANGED <<pass, opens, issue>> /\ thread[c].pc = "eval"
    BY <1>2 DEF EvalRule, tables, observed
  <2>2. thread[c] \in EvalState /\ thread[c].todo # <<>>
    BY <1>2, ThreadShape DEF EvalRule, TypeOK
  <2>3. PICK t \in EvalState : t = thread[c]
    BY <2>2
  <2>4. \A d \in Cams : d # c => thread'[d] = thread[d]
    BY DEF OneLane
  <2>5. CASE thread' = [thread EXCEPT ![c] = Idle]
    <3>1. thread'[c].pc = "idle"
      BY <2>5 DEF Idle, TypeOK
    <3>2. QED
      BY <2>1, <2>4, <3>1, OnceIdles
  <2>6. CASE thread' = [thread EXCEPT ![c] = [t EXCEPT !.todo = Tail(@)]]
    <3>1. thread'[c].pc = "eval"
      BY <2>6 DEF EvalState, TypeOK
    <3>2. QED
      BY <2>1, <2>4, <3>1, OnceIdles
  <2>7. ASSUME NEW v \in Matches(RuleSeen(t).cond, t.plate), RuleSeen(t) # None,
               Fires(t, RuleSeen(t)), thread' = [thread EXCEPT ![c] = Pulsing(t, RuleSeen(t), v)]
        PROVE  OnceInv'
    <3>1. thread'[c] = Pulsing(t, RuleSeen(t), v)
      BY <2>7 DEF TypeOK
    <3>2. /\ thread'[c].pc = "pulse" /\ thread'[c].pid = v
          /\ thread'[c].one = (v # None /\ pass[v].single)
      BY <2>2, <2>3, <2>7, <3>1, PulsingType
    <3>3. v \in Passes \cup {None} /\ (v # None => v \in ValidPasses(t.plate)) /\ t.plate \in Plates
      BY MatchType DEF EvalState
    <3>4. QED
      BY <2>1, <3>2, <3>3, OnceFires
  <2>8. QED
    BY <1>2, <2>3, <2>5, <2>6, <2>7 DEF EvalRule, Goto
<1>3. ASSUME NEW c \in Cams, EvalDone(c) PROVE OnceInv'
  <2>1. /\ UNCHANGED <<pass, opens, issue>> /\ thread[c].pc = "eval" /\ thread'[c].pc = "idle"
        /\ \A d \in Cams : d # c => thread'[d] = thread[d]
    BY <1>3 DEF EvalDone, Goto, Idle, TypeOK, OneLane, tables, observed
  <2>2. QED
    BY <2>1, OnceIdles
<1>4. ASSUME NEW v \in Passes, CreatePass(v) PROVE OnceInv'
  <2>1. PICK p \in Plates, f \in Time, w \in 1 .. MaxTime + 1, s \in BOOLEAN :
          /\ pass' = [pass EXCEPT ![v] =
                        [plate |-> p, from |-> f, to |-> w, single |-> s, used |-> FALSE]]
          /\ issue' = [issue EXCEPT ![v] = IF s THEN "single" ELSE "multi"]
    BY <1>4 DEF CreatePass
  <2>2. UNCHANGED <<opens, thread>> /\ issue[v] = "new"
    BY <1>4 DEF CreatePass
  <2>3. opens[v] = 0 /\ \A c \in Cams : ~Holds(c, v)
    BY <2>2 DEF OnceInv, NewUntouched
  <2>4. \A x \in Passes : x # v => pass'[x] = pass[x] /\ issue'[x] = issue[x]
    BY <2>1 DEF TypeOK
  <2>5. pass'[v].single = s /\ issue'[v] = (IF s THEN "single" ELSE "multi")
    BY <2>1 DEF TypeOK
  <2>6. /\ \A x \in Passes, c \in Cams : Holds(c, x)' <=> Holds(c, x)
        /\ \A x \in Passes : Consuming(x)' <=> Consuming(x)
    BY <2>2 DEF Holds, Consuming
  <2>7. \A x \in Passes : x # v => (Single(x)' <=> Single(x))
    BY <2>4 DEF Single
  <2>8. \A c \in Cams : ~Holds(c, v)'
    BY <2>3, <2>6
  <2>9. NewUntouched'
    BY <2>2, <2>4, <2>5, <2>6 DEF OnceInv, NewUntouched
  <2>10. RowKnows'
    <3>1. Single(v)' => s
      BY <2>5 DEF Single
    <3>2. QED
      BY <2>4, <2>5, <2>7, <3>1 DEF OnceInv, RowKnows
  <2>11. LaneKnows'
    BY <2>2, <2>6, <2>7, <2>8 DEF OnceInv, LaneKnows
  <2>12. OpenedIsConsumed'
    BY <2>2, <2>3, <2>4, <2>6, <2>7 DEF OnceInv, OpenedIsConsumed
  <2>13. PulsesFirst'
    BY <2>2, <2>6, <2>7, <2>8 DEF OnceInv, PulsesFirst
  <2>15. QED
    BY <2>9, <2>10, <2>11, <2>12, <2>13 DEF OnceInv
<1>5. ASSUME NEW v \in Passes, CancelPass(v) PROVE OnceInv'
  <2>1. \A x \in Passes : pass'[x] = pass[x] \/ pass'[x] = None
    BY <1>5 DEF CancelPass, TypeOK
  <2>2. UNCHANGED <<opens, thread, issue>>
    BY <1>5 DEF CancelPass, observed
  <2>3. QED
    BY <2>1, <2>2 DEF OnceInv, NewUntouched, RowKnows, LaneKnows, OpenedIsConsumed, PulsesFirst,
                      Single, Holds, Consuming
<1>6. ASSUME NEW k \in Ctrls,
             CreateController(k) \/ PatchController(k) \/ DeleteController(k) \/ ManualStart(k)
      PROVE  UNCHANGED <<pass, thread, opens, issue>>
  BY <1>6 DEF CreateController, PatchController, DeleteController, ManualStart, tables, observed
<1>7. ASSUME NEW r \in Rules, CreateRule(r) \/ PatchRule(r) \/ DeleteRule(r)
      PROVE  UNCHANGED <<pass, thread, opens, issue>>
  BY <1>7 DEF CreateRule, PatchRule, DeleteRule, observed
<1>8. ASSUME ManualPulse \/ ManualLog \/ Tick \/ UNCHANGED vars
      PROVE  UNCHANGED <<pass, thread, opens, issue>>
  BY <1>8 DEF ManualPulse, ManualLog, Tick, vars, tables, observed
<1>9. ~Restart
  BY DEF Restart, OneLane
<1>11. ASSUME NEW c \in Cams, QueryFails(c) PROVE OnceInv'
  <2>1. UNCHANGED <<pass, opens, issue>> /\ thread'[c].pc = "poisoned"
    BY <1>11 DEF QueryFails, Goto, Poisoned, TypeOK, tables, observed
  <2>2. \A d \in Cams : d = c
    BY DEF OneLane
  <2>3. \A v : ~Holds(c, v)' /\ Consuming(v)'
    BY <2>1 DEF Holds, Consuming
  <2>4. QED
    BY <2>1, <2>2, <2>3 DEF OnceInv, NewUntouched, RowKnows, LaneKnows, OpenedIsConsumed,
                            PulsesFirst, Single
<1>12. ASSUME NEW c \in Cams, HealthCommit(c) PROVE OnceInv'
  <2>1. UNCHANGED <<pass, opens, issue>>
    BY <1>12 DEF HealthCommit, tables, observed
  <2>2. \A d \in Cams : d = c
    BY DEF OneLane
  <2>3. /\ thread'[c].pc = thread[c].pc /\ thread[c].pc \in {"eval", "pulse"}
        /\ thread[c].pc = "pulse" =>
             thread'[c].pid = thread[c].pid /\ thread'[c].one = thread[c].one
    BY <1>12, HealthShape
  <2>4. /\ \A v : Holds(c, v)' => Holds(c, v) /\ thread'[c].one = thread[c].one
        /\ \A v : ~Consuming(v)
    BY <2>2, <2>3 DEF Holds, Consuming
  <2>5. QED
    BY <2>1, <2>2, <2>3, <2>4 DEF OnceInv, NewUntouched, RowKnows, LaneKnows, OpenedIsConsumed,
                                  PulsesFirst, Single
<1>10. QED
  BY <1>1, <1>2, <1>3, <1>4, <1>5, <1>6, <1>7, <1>8, <1>9, <1>11, <1>12, OnceFrame, OncePulses,
     OnceLogs DEF Next, ThreadStep

(* No step opens under a single-use pass under which a call has returned.   *)
LEMMA OnceOpens ==
  ASSUME TypeOK, OnceInv, [Next]_vars, NEW v \in Passes, issue[v] = "single", opens[v] >= 1
  PROVE  opens'[v] = opens[v] /\ unheard'[v] = unheard[v]
<1>1. ASSUME NEW c \in Cams, PulseRelay(c)
      PROVE  opens'[v] = opens[v] /\ unheard'[v] = unheard[v]
  <2>1. PICK t \in PulseState : t = thread[c]
    BY <1>1, ThreadShape DEF PulseRelay, TypeOK
  <2>2. t.pc = "pulse" /\ v # t.pid
    BY <1>1, <2>1 DEF PulseRelay, OnceInv, PulsesFirst, Single, Holds
  <2>3. /\ opens' = opens \/ opens' = [opens EXCEPT ![t.pid] = @ + 1]
        /\ unheard' = unheard \/ unheard' = [unheard EXCEPT ![t.pid] = @ + 1]
    BY <1>1, <2>1 DEF PulseRelay
  <2>4. QED
    BY <2>2, <2>3 DEF TypeOK
<1>2. ASSUME NEW c \in Cams, NEW p \in Plates, LoadRules(c, p) PROVE UNCHANGED <<opens, unheard>>
  BY <1>2 DEF LoadRules
<1>3. ASSUME NEW c \in Cams,
             EvalRule(c) \/ EvalDone(c) \/ LogTrigger(c) \/ QueryFails(c) \/ HealthCommit(c)
      PROVE  UNCHANGED <<opens, unheard>>
  BY <1>3 DEF EvalRule, EvalDone, LogTrigger, QueryFails, HealthCommit, observed
<1>4. ASSUME \/ Restart \/ ManualPulse \/ ManualLog \/ Tick \/ UNCHANGED vars
             \/ \E k \in Ctrls : \/ CreateController(k) \/ PatchController(k)
                                 \/ DeleteController(k) \/ ManualStart(k)
             \/ \E w \in Passes : CreatePass(w) \/ CancelPass(w)
             \/ \E r \in Rules : CreateRule(r) \/ PatchRule(r) \/ DeleteRule(r)
      PROVE  UNCHANGED <<opens, unheard>>
  BY <1>4 DEF Restart, ManualPulse, ManualLog, Tick, vars, CreateController, PatchController,
              DeleteController, ManualStart, CreatePass, CancelPass, CreateRule, PatchRule,
              DeleteRule, observed
<1>5. QED
  BY <1>1, <1>2, <1>3, <1>4 DEF Next, ThreadStep

(* On a site with one lane, once a call under a single-use pass has         *)
(* returned no gate is opened under it again, whichever calls to relays or  *)
(* to the database fail or raise after they acted, and whatever is          *)
(* cancelled and edited, as long as the process is not killed between the   *)
(* pulse and its commit and no controller is deleted (gate.py:256-286).     *)
THEOREM OneOpeningPerPass ==
  ASSUME OneLane
  PROVE  Spec => SingleUseOnce
<1> DEFINE Inv == TypeOK /\ OnceInv /\ CtrlThere
<1>1. Init => Inv
  BY TypeInit DEF Init, Idle, OnceInv, NewUntouched, RowKnows, LaneKnows, OpenedIsConsumed,
                  PulsesFirst, Single, Holds, CtrlThere
<1>2. Inv /\ [Next]_vars => Inv'
  BY OneLane, TypeStep, OnceStep, CtrlStep DEF OneLane
<1>3. Inv /\ [Next]_vars =>
        [\A v \in Passes : issue[v] = "single" /\ opens[v] >= 1
            => opens'[v] = opens[v] /\ unheard'[v] = unheard[v]]_vars
  BY OnceOpens
<1>4. QED
  BY <1>1, <1>2, <1>3, PTL DEF Spec, SingleUseOnce

(***************************************************************************)
(* Rows that nobody deletes                                                *)
(***************************************************************************)

NothingDeleted == Ops \cap {"cancel", "delete_ctrl", "delete_rule"} = {}

(* Every row a thread will refer to when it commits is still there.         *)
RowsThere(t) ==
  /\ t.pc = "eval" => \A i \in 1 .. Len(t.todo) : rule[t.todo[i]] # None
  /\ t.pc \in {"pulse", "log"} =>
       /\ rule[t.rid] # None /\ ctrl[t.kid] # None /\ (t.pid # None => pass[t.pid] # None)
       /\ \A i \in 1 .. Len(t.todo) : rule[t.todo[i]] # None

ThreadsLive == \A c \in Cams : RowsThere(thread[c])

(* Rows only appear.                                                        *)
RowsStay ==
  /\ \A v \in Passes : pass[v] # None => pass'[v] # None
  /\ \A r \in Rules : rule[r] # None => rule'[r] # None
  /\ \A k \in Ctrls : ctrl[k] # None => ctrl'[k] # None

(* Without deletions every row stays.                                       *)
LEMMA NoRowIsLost ==
  ASSUME NothingDeleted, TypeOK, [Next]_vars
  PROVE  RowsStay
<1>0. /\ \A x \in PassRow \cup RuleRow \cup CtrlRow : x # None
      /\ \A v \in Passes : pass[v] \in PassRow \cup {None}
      /\ \A r \in Rules : rule[r] \in RuleRow \cup {None}
      /\ \A k \in Ctrls : ctrl[k] \in CtrlRow \cup {None}
  BY GateAssumption DEF TypeOK
<1>1. /\ pass' \in [Passes -> PassRow \cup {None}]
      /\ rule' \in [Rules -> RuleRow \cup {None}]
      /\ ctrl' \in [Ctrls -> CtrlRow \cup {None}]
  BY TypeStep DEF TypeOK
<1>2. CASE UNCHANGED tables
  BY <1>2 DEF RowsStay, tables
<1>3. ASSUME NEW c \in Cams, LogTrigger(c) PROVE RowsStay
  <2>1. PICK t \in LogState : t = thread[c]
    BY <1>3, ThreadShape DEF LogTrigger, TypeOK
  <2>2. UNCHANGED <<rule, ctrl>> /\ pass' \in {pass, Marked(t)}
    BY <1>3, <2>1 DEF LogTrigger
  <2>3. \A v \in Passes : pass[v] # None => pass'[v] # None
    BY <2>2, MarkedType
  <2>4. QED
    BY <2>2, <2>3 DEF RowsStay
<1>4. ASSUME NEW v \in Passes, CreatePass(v) PROVE RowsStay
  <2>1. PICK p \in Plates, f \in Time, w \in 1 .. MaxTime + 1, s \in BOOLEAN :
          pass' = [pass EXCEPT ![v] =
                     [plate |-> p, from |-> f, to |-> w, single |-> s, used |-> FALSE]] /\ f < w
    BY <1>4 DEF CreatePass
  <2>2. [plate |-> p, from |-> f, to |-> w, single |-> s, used |-> FALSE] \in PassRow
    BY <2>1, GateAssumption DEF PassRow, Time
  <2>3. QED
    BY <1>0, <1>4, <2>1, <2>2 DEF CreatePass, RowsStay, TypeOK
<1>5. ASSUME NEW k \in Ctrls, CreateController(k) \/ PatchController(k) PROVE RowsStay
  <2>1. PICK on \in BOOLEAN, s \in {ctrl[k].secret} \cup Stored :
          ctrl' = [ctrl EXCEPT ![k] = [on |-> on, secret |-> s]]
    BY <1>5 DEF CreateController, PatchController
  <2>2. \A j \in Ctrls : j # k => ctrl'[j] = ctrl[j]
    BY <2>1 DEF TypeOK
  <2>3. ctrl[k] # None => ctrl[k] \in CtrlRow
    BY <1>0
  <2>4. ctrl[k] # None => [on |-> on, secret |-> s] \in CtrlRow
    BY <2>1, <2>3 DEF CtrlRow, Stored
  <2>5. ctrl'[k] = [on |-> on, secret |-> s]
    BY <2>1 DEF TypeOK
  <2>6. UNCHANGED <<pass, rule>>
    BY <1>5 DEF CreateController, PatchController
  <2>7. QED
    BY <1>0, <2>2, <2>4, <2>5, <2>6 DEF RowsStay
<1>6. ASSUME NEW r \in Rules, CreateRule(r) PROVE RowsStay
  BY <1>6 DEF CreateRule, RowsStay, TypeOK
<1>7. ASSUME NEW r \in Rules, PatchRule(r) PROVE RowsStay
  <2>1. PICK f \in RuleForms, on \in BOOLEAN :
          rule' = [rule EXCEPT ![r] = [@ EXCEPT !.prio = f.prio, !.cond = f.cond, !.on = on]]
    BY <1>7 DEF PatchRule
  <2>2. [cam |-> f.cam, ctrl |-> f.ctrl, prio |-> f.prio, on |-> TRUE, cond |-> f.cond] \in RuleRow
    BY <2>1, GateAssumption
  <2>3. f.prio \in Nat /\ f.cond \in {"any_plate", "watchlist_match", "permit_valid", "nothing"}
    BY <2>2 DEF RuleRow
  <2>4. rule[r] \in RuleRow
    BY <1>0, <1>7 DEF PatchRule
  <2>5. [rule[r] EXCEPT !.prio = f.prio, !.cond = f.cond, !.on = on] \in RuleRow
    BY <2>1, <2>3, <2>4 DEF RuleRow
  <2>6. rule'[r] \in RuleRow /\ \A x \in Rules : x # r => rule'[x] = rule[x]
    BY <2>1, <2>5 DEF TypeOK
  <2>7. QED
    BY <1>0, <1>7, <2>6 DEF PatchRule, RowsStay
<1>9. ASSUME NEW c \in Cams,
             \/ EvalRule(c) \/ EvalDone(c) \/ PulseRelay(c) \/ QueryFails(c) \/ HealthCommit(c)
             \/ \E p \in Plates : LoadRules(c, p)
      PROVE  UNCHANGED tables
  BY <1>9 DEF EvalRule, EvalDone, PulseRelay, QueryFails, HealthCommit, LoadRules
<1>10. ASSUME Restart \/ ManualPulse \/ ManualLog \/ Tick \/ UNCHANGED vars
              \/ \E k \in Ctrls : ManualStart(k)
       PROVE  UNCHANGED tables
  BY <1>10 DEF Restart, ManualPulse, ManualLog, Tick, vars, ManualStart, tables
<1>11. CASE \E v \in Passes : CancelPass(v)
  BY <1>11 DEF NothingDeleted, CancelPass
<1>12. CASE \E k \in Ctrls : DeleteController(k)
  BY <1>12 DEF NothingDeleted, DeleteController
<1>13. CASE \E r \in Rules : DeleteRule(r)
  BY <1>13 DEF NothingDeleted, DeleteRule
<1>14. QED
  BY <1>2, <1>3, <1>4, <1>5, <1>6, <1>7, <1>9, <1>10, <1>11, <1>12, <1>13 DEF Next, ThreadStep

(* A thread whose state does not change keeps its rows.                     *)
LEMMA RowsThereStays ==
  ASSUME TypeOK, RowsStay, NEW t \in ThreadState, RowsThere(t)
  PROVE  RowsThere(t)'
<1>1. t.pc = "eval" => \A i \in 1 .. Len(t.todo) : t.todo[i] \in Rules
  BY ThreadShape DEF EvalState
<1>2. t.pc \in {"pulse", "log"} =>
        /\ \A i \in 1 .. Len(t.todo) : t.todo[i] \in Rules
        /\ t.rid \in Rules /\ t.kid \in Ctrls /\ t.pid \in Passes \cup {None}
  BY ThreadShape DEF PulseState, LogState
<1>3. QED
  BY <1>1, <1>2 DEF RowsThere, RowsStay

(* Every step leaves every thread the rows it works on.                     *)
LEMMA LiveStep ==
  ASSUME NothingDeleted, TypeOK, ThreadsLive, [Next]_vars
  PROVE  ThreadsLive'
<1>1. RowsStay
  BY NoRowIsLost
<1>2. ASSUME NEW c \in Cams, thread'[c] = thread[c]
      PROVE  RowsThere(thread[c])'
  <2>1. PICK t \in ThreadState : t = thread[c]
    BY DEF TypeOK
  <2>2. RowsThere(t)
    BY <2>1 DEF ThreadsLive
  <2>3. RowsThere(t)'
    BY <1>1, <2>2, RowsThereStays
  <2>4. QED
    BY <1>2, <2>1, <2>2, <2>3 DEF RowsThere
<1>3. SUFFICES ASSUME NEW c \in Cams, thread'[c] # thread[c]
               PROVE  RowsThere(thread[c])'
  BY <1>2 DEF ThreadsLive
<1>4. ASSUME NEW p \in Plates, LoadRules(c, p)
      PROVE  RowsThere(thread[c])'
  <2>1. PICK q \in Ordered(EnabledRules(c)) :
          thread' = [thread EXCEPT ![c] = [pc |-> "eval", plate |-> p, todo |-> q, seen |-> rule]]
    BY <1>3, <1>4 DEF LoadRules, Goto
  <2>2. thread'[c].pc = "eval" /\ thread'[c].todo = q
    BY <2>1 DEF TypeOK
  <2>3. q \in Seq(Rules)
    BY OrderedType DEF EnabledRules
  <2>4. \A i \in 1 .. Len(q) : q[i] \in EnabledRules(c)
    <3>1. q \in [1 .. Cardinality(EnabledRules(c)) -> EnabledRules(c)]
      BY DEF Ordered
    <3>2. DOMAIN q = 1 .. Len(q)
      BY <2>3
    <3>3. QED
      BY <3>1, <3>2
  <2>5. \A i \in 1 .. Len(q) : rule'[q[i]] # None
    BY <1>4, <2>4 DEF EnabledRules, LoadRules, tables
  <2>6. QED
    BY <2>2, <2>5 DEF RowsThere
<1>5. ASSUME EvalRule(c) PROVE RowsThere(thread[c])'
  <2>1. PICK t \in EvalState : t = thread[c]
    BY <1>5, ThreadShape DEF EvalRule, TypeOK
  <2>2. t.todo # <<>> /\ UNCHANGED tables
    BY <1>5, <2>1 DEF EvalRule
  <2>3. \A i \in 1 .. Len(t.todo) : rule[t.todo[i]] # None
    BY <1>5, <2>1 DEF ThreadsLive, RowsThere, EvalRule
  <2>4. rule[Head(t.todo)] # None /\ \A i \in 1 .. Len(Tail(t.todo)) : rule[Tail(t.todo)[i]] # None
    BY <2>2, <2>3 DEF EvalState
  <2>5. CASE thread' = [thread EXCEPT ![c] = Idle]
    <3>1. thread'[c].pc = "idle"
      BY <2>5 DEF Idle, TypeOK
    <3>2. QED
      BY <3>1 DEF RowsThere
  <2>6. CASE thread' = [thread EXCEPT ![c] = [t EXCEPT !.todo = Tail(@)]]
    <3>1. thread'[c].pc = "eval" /\ thread'[c].todo = Tail(t.todo)
      BY <2>6 DEF EvalState, TypeOK
    <3>2. QED
      BY <2>2, <2>4, <3>1 DEF RowsThere, tables
  <2>7. ASSUME NEW v \in Matches(RuleSeen(t).cond, t.plate), RuleSeen(t) # None,
               Fires(t, RuleSeen(t)), thread' = [thread EXCEPT ![c] = Pulsing(t, RuleSeen(t), v)]
        PROVE  RowsThere(thread[c])'
    <3>1. thread'[c] = Pulsing(t, RuleSeen(t), v)
      BY <2>7 DEF TypeOK
    <3>2. /\ thread'[c].pc = "pulse" /\ thread'[c].pid = v
          /\ thread'[c].rid = Head(t.todo) /\ thread'[c].kid = RuleSeen(t).ctrl
      BY <2>2, <2>7, <3>1, PulsingType
    <3>3. thread'[c].todo = Tail(t.todo)
      BY <3>1 DEF Pulsing
    <3>4. ctrl[RuleSeen(t).ctrl] # None
      BY <2>7 DEF Fires
    <3>5. v # None => pass[v] # None
      BY MatchType DEF ValidPasses
    <3>6. QED
      BY <2>2, <2>4, <3>2, <3>3, <3>4, <3>5 DEF RowsThere, tables
  <2>8. QED
    BY <1>5, <2>1, <2>5, <2>6, <2>7 DEF EvalRule, Goto
<1>6. ASSUME EvalDone(c) PROVE RowsThere(thread[c])'
  <2>1. thread'[c].pc = "idle"
    BY <1>6 DEF EvalDone, Goto, Idle, TypeOK
  <2>2. QED
    BY <2>1 DEF RowsThere
<1>7. ASSUME PulseRelay(c) PROVE RowsThere(thread[c])'
  <2>1. /\ thread'[c].pc = "log" /\ thread'[c].rid = thread[c].rid /\ thread'[c].kid = thread[c].kid
        /\ thread'[c].pid = thread[c].pid /\ thread'[c].todo = thread[c].todo
    BY <1>7 DEF PulseRelay, Goto, TypeOK
  <2>2. thread[c].pc = "pulse" /\ UNCHANGED tables
    BY <1>7 DEF PulseRelay
  <2>3. QED
    BY <2>1, <2>2 DEF ThreadsLive, RowsThere, tables
<1>8. ASSUME LogTrigger(c) PROVE RowsThere(thread[c])'
  <2>1. PICK t \in LogState : t = thread[c]
    BY <1>8, ThreadShape DEF LogTrigger, TypeOK
  <2>2. /\ rule[t.rid] # None /\ ctrl[t.kid] # None /\ (t.pid # None => pass[t.pid] # None)
        /\ \A i \in 1 .. Len(t.todo) : rule[t.todo[i]] # None
    BY <1>8, <2>1 DEF ThreadsLive, RowsThere, LogTrigger
  <2>3. Recordable(t)
    BY <2>2 DEF Recordable, Consumes
  <2>4. \/ thread' = [thread EXCEPT ![c] =
                        [pc |-> "eval", plate |-> t.plate, todo |-> t.todo, seen |-> None]]
        \/ thread' = [thread EXCEPT ![c] = Poisoned]
    BY <1>8, <2>1, <2>3 DEF LogTrigger, Goto
  <2>5. (thread'[c].pc = "eval" /\ thread'[c].todo = t.todo) \/ thread'[c].pc = "poisoned"
    BY <2>4 DEF TypeOK, Poisoned
  <2>6. rule' = rule
    BY <1>8 DEF LogTrigger
  <2>7. QED
    BY <2>2, <2>5, <2>6 DEF RowsThere
<1>9. ASSUME Restart PROVE RowsThere(thread[c])'
  <2>1. thread'[c].pc = "idle"
    BY <1>9 DEF Restart, Idle
  <2>2. QED
    BY <2>1 DEF RowsThere
<1>13. ASSUME QueryFails(c) PROVE RowsThere(thread[c])'
  <2>1. thread'[c].pc = "poisoned"
    BY <1>13 DEF QueryFails, Goto, Poisoned, TypeOK
  <2>2. QED
    BY <2>1 DEF RowsThere
<1>14. ASSUME HealthCommit(c) PROVE RowsThere(thread[c])'
  <2>1. UNCHANGED tables
    BY <1>14 DEF HealthCommit
  <2>2. QED
    BY <1>14, <2>1, HealthShape DEF ThreadsLive, RowsThere, tables
<1>10. \/ Restart
       \/ \E d \in Cams : \/ ThreadStep(d) \/ QueryFails(d) \/ HealthCommit(d)
                          \/ \E p \in Plates : LoadRules(d, p)
       \/ thread' = thread
  BY DEF Next, CreatePass, CancelPass, CreateController, PatchController, DeleteController,
         CreateRule, PatchRule, DeleteRule, ManualStart, ManualPulse, ManualLog, Tick, vars
<1>11. ASSUME NEW d \in Cams, \/ ThreadStep(d) \/ QueryFails(d) \/ HealthCommit(d)
                              \/ \E p \in Plates : LoadRules(d, p)
       PROVE  d = c
  BY <1>3, <1>11 DEF ThreadStep, QueryFails, HealthCommit, EvalRule, EvalDone, PulseRelay, LogTrigger, LoadRules, Goto, TypeOK
<1>12. QED
  BY <1>3, <1>4, <1>5, <1>6, <1>7, <1>8, <1>9, <1>10, <1>11, <1>13, <1>14 DEF ThreadStep

(***************************************************************************)
(* Every attempt is logged, and every rule that must fire does             *)
(***************************************************************************)

(* The threads that have pulsed a controller and not logged it yet, and the *)
(* manual opening in that state.                                            *)
Logging(k) == {c \in Cams : thread[c].pc = "log" /\ thread[c].kid = k}
ByHand(k) == IF manual.pc = "log" /\ manual.kid = k THEN 1 ELSE 0

Todo(t) == {t.todo[i] : i \in 1 .. Len(t.todo)}

(* What thread t still has to do for the rules O that must fire: they are   *)
(* ahead of it, and the copy it decides on is the row.                      *)
Serves(t, O) ==
  /\ t.pc = "idle" => O = {}
  /\ t.pc \in {"eval", "log"} => O \subseteq Todo(t)
  /\ t.pc = "pulse" => O \subseteq Todo(t) \cup {t.rid}
  /\ t.pc \in {"eval", "pulse"} => t.seen = None \/ \A r \in O : t.seen[r] = rule[r]
  /\ t.pc \in {"eval", "pulse"} => t.seen = None \/ \A r \in Todo(t) : t.seen[r] # None
  /\ \A r \in O : rule[r] # None
  /\ MustFire(O) = O

ServeInv == \A c \in Cams : Serves(thread[c], owed[c])

(* The loop goes through every rule it loaded.                              *)
LEMMA OrderedCovers ==
  ASSUME NEW S \in SUBSET Rules, NEW q \in Ordered(S)
  PROVE  q \in Seq(Rules) /\ {q[i] : i \in 1 .. Len(q)} = S
<1>1. IsFiniteSet(S)
  BY FS_Subset, GateAssumption
<1>2. PICK n \in Nat : n = Cardinality(S)
  BY <1>1, FS_CardinalityType
<1>3. q \in [1 .. n -> S] /\ \A i, j \in 1 .. n : i < j => q[i] # q[j]
  BY <1>2 DEF Ordered
<1>4. q \in Injection(1 .. n, S)
  BY <1>3 DEF Injection, IsInjective
<1>5. Cardinality(1 .. n) = n
  BY FS_Interval
<1>6. q \in Surjection(1 .. n, S)
  BY <1>1, <1>2, <1>4, <1>5, FS_Injection
<1>7. \A r \in S : \E i \in 1 .. n : q[i] = r
  BY <1>6 DEF Surjection
<1>8. q \in Seq(Rules) /\ Len(q) = n
  BY <1>2, <1>3
<1>9. QED
  BY <1>3, <1>7, <1>8

(* Edits of other rules and controllers change nothing for a thread.        *)
LEMMA ServesOn ==
  ASSUME NEW t, NEW O, NEW P \in SUBSET O, Serves(t, O),
         \A r \in P : rule'[r] = rule[r] /\ ctrl'[rule[r].ctrl] = ctrl[rule[r].ctrl]
  PROVE  Serves(t, P)'
<1>1. /\ t.pc = "idle" => P = {}
      /\ t.pc \in {"eval", "log"} => P \subseteq Todo(t)
      /\ t.pc = "pulse" => P \subseteq Todo(t) \cup {t.rid}
      /\ t.pc \in {"eval", "pulse"} => t.seen = None \/ \A r \in P : t.seen[r] = rule'[r]
      /\ t.pc \in {"eval", "pulse"} => t.seen = None \/ \A r \in Todo(t) : t.seen[r] # None
  BY DEF Serves
<1>2. \A r \in P : rule'[r] # None
  BY DEF Serves
<1>3. \A r \in P : /\ rule'[r].cond = "any_plate"
                   /\ ctrl'[rule'[r].ctrl] # None /\ ctrl'[rule'[r].ctrl].on
  <2>1. \A r \in O : /\ rule[r].cond = "any_plate"
                     /\ ctrl[rule[r].ctrl] # None /\ ctrl[rule[r].ctrl].on
    BY DEF Serves, MustFire
  <2>2. QED
    BY <2>1
<1>4. MustFire(P)' = P
  BY <1>3 DEF MustFire
<1>5. QED
  BY <1>1, <1>2, <1>4 DEF Serves, Todo

(* What a rule that must fire looks like to its thread: it fires.           *)
LEMMA OwedFires ==
  ASSUME NEW t \in EvalState, t.todo # <<>>, NEW O, Serves(t, O), Head(t.todo) \in O
  PROVE  RuleSeen(t) # None /\ Fires(t, RuleSeen(t))
<1>1. PICK r : r = Head(t.todo)
  OBVIOUS
<1>2. t.pc = "eval"
  BY DEF EvalState
<1>3. rule[r] # None /\ (t.seen = None \/ t.seen[r] = rule[r])
  BY <1>1, <1>2 DEF Serves
<1>4. RuleSeen(t) = rule[r]
  BY <1>1, <1>3 DEF RuleSeen
<1>5. /\ rule[r].cond = "any_plate"
      /\ ctrl[rule[r].ctrl] # None /\ ctrl[rule[r].ctrl].on
  BY <1>1 DEF Serves, MustFire
<1>6. Matches(rule[r].cond, t.plate) = {None}
  BY <1>5 DEF Matches
<1>7. QED
  BY <1>3, <1>4, <1>5, <1>6 DEF Fires

(* A thread in an evaluation never finds one of its rules gone.             *)
LEMMA SeenThere ==
  ASSUME ThreadsLive, TypeOK, NEW c \in Cams, thread[c].pc = "eval",
         thread[c].todo # <<>>, NEW O, Serves(thread[c], O)
  PROVE  RuleSeen(thread[c]) # None
<1>1. PICK t \in EvalState : t = thread[c]
  BY ThreadShape DEF TypeOK
<1>2. t.todo \in Seq(Rules) /\ t.todo # <<>> /\ t.pc = "eval"
  BY <1>1 DEF EvalState
<1>3. Head(t.todo) = t.todo[1] /\ 1 \in 1 .. Len(t.todo)
  BY <1>2
<1>4. rule[Head(t.todo)] # None
  BY <1>1, <1>2, <1>3 DEF ThreadsLive, RowsThere
<1>5. t.seen = None \/ t.seen[Head(t.todo)] # None
  BY <1>1, <1>2, <1>3 DEF Serves, Todo
<1>6. QED
  BY <1>1, <1>4, <1>5 DEF RuleSeen

(* What lies ahead of a thread is the rule at the head and the rest.        *)
LEMMA TodoSplits ==
  ASSUME NEW q \in Seq(Rules), q # <<>>
  PROVE  {q[i] : i \in 1 .. Len(q)} = {Head(q)} \cup {Tail(q)[i] : i \in 1 .. Len(Tail(q))}
<1>1. PICK n \in Nat \ {0} : n = Len(q) /\ Head(q) = q[1] /\ Len(Tail(q)) = n - 1
  OBVIOUS
<1>2. \A i \in 1 .. n - 1 : Tail(q)[i] = q[i + 1]
  BY <1>1
<1>3. ASSUME NEW i \in 1 .. n, i # 1
      PROVE  q[i] \in {Tail(q)[j] : j \in 1 .. Len(Tail(q))}
  <2>1. PICK j \in 1 .. n - 1 : j + 1 = i
    <3>1. i - 1 \in 1 .. n - 1 /\ (i - 1) + 1 = i
      BY <1>3
    <3>2. QED
      BY <3>1
  <2>2. QED
    BY <1>1, <1>2, <2>1
<1>4. ASSUME NEW i \in 1 .. n - 1
      PROVE  Tail(q)[i] \in {q[j] : j \in 1 .. Len(q)}
  <2>1. i + 1 \in 1 .. n
    OBVIOUS
  <2>2. QED
    BY <1>1, <1>2, <2>1
<1>5. 1 \in 1 .. n
  OBVIOUS
<1>6. Head(q) \in {q[i] : i \in 1 .. Len(q)}
  BY <1>1, <1>5, Zenon
<1>7. \A i \in 1 .. Len(q) : q[i] \in {Head(q)} \cup {Tail(q)[j] : j \in 1 .. Len(Tail(q))}
  BY <1>1, <1>3
<1>8. \A i \in 1 .. Len(Tail(q)) : Tail(q)[i] \in {q[j] : j \in 1 .. Len(q)}
  BY <1>1, <1>4
<1>9. QED
  BY <1>6, <1>7, <1>8, Zenon

(* A thread's next step, seen from its own evaluation.                      *)
LEMMA ServeThread ==
  ASSUME NothingDeleted, TypeOK, ThreadsLive, NEW c \in Cams, Serves(thread[c], owed[c]),
         \/ ThreadStep(c) \/ QueryFails(c) \/ HealthCommit(c)
         \/ \E p \in Plates : LoadRules(c, p)
  PROVE  Serves(thread[c], owed[c])'
<1>0. owed[c] \in SUBSET Rules
  BY DEF TypeOK
<1>1. ASSUME NEW p \in Plates, LoadRules(c, p) PROVE Serves(thread[c], owed[c])'
  <2>0. UNCHANGED <<rule, ctrl>> /\ thread[c] = Idle
    BY <1>1 DEF LoadRules, tables
  <2>1. CASE ~licensed
    <3>1. thread' = thread /\ owed' = owed
      BY <1>1, <2>1 DEF LoadRules
    <3>2. QED
      BY <2>0, <3>1 DEF Serves, Todo, MustFire
  <2>2. CASE licensed
    <3>1. PICK S : S = EnabledRules(c)
      OBVIOUS
    <3>2. S \in SUBSET Rules /\ \A r \in S : rule[r] # None
      BY <3>1 DEF EnabledRules
    <3>3. PICK q \in Ordered(S) :
            /\ thread' = [thread EXCEPT ![c] = [pc |-> "eval", plate |-> p, todo |-> q, seen |-> rule]]
            /\ owed' = [owed EXCEPT ![c] = MustFire(S)]
      BY <1>1, <2>2, <3>1 DEF LoadRules, Goto
    <3>4. PICK t : t = [pc |-> "eval", plate |-> p, todo |-> q, seen |-> rule]
      OBVIOUS
    <3>5. t.pc = "eval" /\ t.todo = q /\ t.seen = rule /\ Todo(t) = S
      BY <3>2, <3>3, <3>4, OrderedCovers DEF Todo
    <3>6. thread'[c] = t /\ owed'[c] = MustFire(S)
      BY <3>3, <3>4 DEF TypeOK
    <3>7. /\ MustFire(S) \subseteq S /\ MustFire(MustFire(S)) = MustFire(S)
      BY DEF MustFire
    <3>8. Serves(t, MustFire(S))
      BY <3>2, <3>5, <3>7 DEF Serves
    <3>9. QED
      BY <2>0, <3>6, <3>8 DEF Serves, Todo, MustFire
  <2>3. QED
    BY <2>1, <2>2
<1>2. ASSUME EvalRule(c) PROVE Serves(thread[c], owed[c])'
  <2>1. PICK t \in EvalState : t = thread[c]
    BY <1>2, ThreadShape DEF EvalRule, TypeOK
  <2>2. /\ t.todo # <<>> /\ t.todo \in Seq(Rules) /\ t.pc = "eval"
        /\ UNCHANGED <<rule, ctrl>> /\ owed'[c] = owed[c]
    BY <1>2, <2>1 DEF EvalRule, EvalState, tables, observed
  <2>3. PICK O \in SUBSET Rules : O = owed[c]
    BY <1>0
  <2>4. Serves(t, O)
    BY <2>1, <2>3
  <2>5. RuleSeen(t) # None
    BY <2>1, <2>2, <2>4, SeenThere
  <2>6. Todo(t) = {Head(t.todo)} \cup {Tail(t.todo)[i] : i \in 1 .. Len(Tail(t.todo))}
    BY <2>2, TodoSplits DEF Todo
  <2>7. \A u : u.todo = Tail(t.todo) => Todo(u) = {Tail(t.todo)[i] : i \in 1 .. Len(Tail(t.todo))}
    BY DEF Todo
  <2>8. ASSUME NEW u, u.todo = Tail(t.todo), u.seen = t.seen,
               \/ u.pc = "eval" /\ Head(t.todo) \notin O
               \/ u.pc = "pulse" /\ u.rid = Head(t.todo)
        PROVE  Serves(u, O)
    <3>1. Todo(u) \subseteq Todo(t) /\ Todo(t) = {Head(t.todo)} \cup Todo(u)
      BY <2>6, <2>7, <2>8
    <3>2. O \subseteq Todo(t)
      BY <2>2, <2>4 DEF Serves
    <3>3. /\ t.seen = None \/ \A r \in O : t.seen[r] = rule[r]
          /\ t.seen = None \/ \A r \in Todo(t) : t.seen[r] # None
          /\ \A r \in O : rule[r] # None
          /\ MustFire(O) = O
      BY <2>2, <2>4 DEF Serves
    <3>4. QED
      BY <2>8, <3>1, <3>2, <3>3 DEF Serves
  <2>9. CASE ~Fires(t, RuleSeen(t))
    <3>1. thread' = [thread EXCEPT ![c] = [t EXCEPT !.todo = Tail(@)]]
      BY <1>2, <2>1, <2>5, <2>9 DEF EvalRule, Goto
    <3>2. PICK u : u = [t EXCEPT !.todo = Tail(@)]
      OBVIOUS
    <3>3. u.todo = Tail(t.todo) /\ u.seen = t.seen /\ u.pc = "eval"
      BY <2>2, <3>2 DEF EvalState
    <3>4. Head(t.todo) \notin O
      BY <2>2, <2>4, <2>9, OwedFires
    <3>5. Serves(u, O)
      BY <2>8, <3>3, <3>4
    <3>6. thread'[c] = u
      BY <3>1, <3>2 DEF TypeOK
    <3>7. QED
      BY <2>2, <2>3, <3>5, <3>6 DEF Serves, Todo, MustFire
  <2>10. CASE Fires(t, RuleSeen(t))
    <3>1. PICK v \in Matches(RuleSeen(t).cond, t.plate) :
            thread' = [thread EXCEPT ![c] = Pulsing(t, RuleSeen(t), v)]
      BY <1>2, <2>1, <2>5, <2>10 DEF EvalRule, Goto
    <3>2. PICK u : u = Pulsing(t, RuleSeen(t), v)
      OBVIOUS
    <3>3. u.todo = Tail(t.todo) /\ u.seen = t.seen /\ u.pc = "pulse" /\ u.rid = Head(t.todo)
      BY <3>2 DEF Pulsing
    <3>4. Serves(u, O)
      BY <2>8, <3>3
    <3>5. thread'[c] = u
      BY <3>1, <3>2 DEF TypeOK
    <3>6. QED
      BY <2>2, <2>3, <3>4, <3>5 DEF Serves, Todo, MustFire
  <2>11. QED
    BY <2>9, <2>10
<1>3. ASSUME EvalDone(c) PROVE Serves(thread[c], owed[c])'
  <2>1. /\ thread[c].pc = "eval" /\ thread[c].todo = <<>> /\ thread'[c].pc = "idle"
        /\ UNCHANGED <<rule, ctrl>> /\ owed'[c] = owed[c]
    BY <1>3 DEF EvalDone, Goto, Idle, TypeOK, tables, observed
  <2>2. Todo(thread[c]) = {}
    BY <2>1 DEF Todo
  <2>3. owed[c] = {}
    BY <2>1, <2>2 DEF Serves
  <2>4. QED
    BY <2>1, <2>3 DEF Serves, MustFire
<1>4. ASSUME PulseRelay(c) PROVE Serves(thread[c], owed[c])'
  <2>1. PICK t \in PulseState : t = thread[c]
    BY <1>4, ThreadShape DEF PulseRelay, TypeOK
  <2>2. PICK u : u = thread'[c]
    OBVIOUS
  <2>3. /\ u.pc = "log" /\ u.todo = t.todo /\ owed'[c] = owed[c] \ {t.rid}
        /\ UNCHANGED <<rule, ctrl>> /\ t.pc = "pulse"
    BY <1>4, <2>1, <2>2 DEF PulseRelay, Goto, TypeOK, tables
  <2>4. /\ owed[c] \subseteq Todo(t) \cup {t.rid} /\ \A r \in owed[c] : rule[r] # None
        /\ MustFire(owed[c]) = owed[c]
    BY <2>1, <2>3 DEF Serves
  <2>5. PICK P : P = owed[c] \ {t.rid}
    OBVIOUS
  <2>6. P \subseteq Todo(u) /\ (\A r \in P : rule[r] # None) /\ MustFire(P) = P
    BY <2>3, <2>4, <2>5 DEF Todo, MustFire
  <2>7. Serves(u, P)
    BY <2>3, <2>6 DEF Serves
  <2>8. QED
    BY <2>2, <2>3, <2>5, <2>7 DEF Serves, Todo, MustFire
<1>5. ASSUME LogTrigger(c) PROVE Serves(thread[c], owed[c])'
  <2>1. PICK t \in LogState : t = thread[c]
    BY <1>5, ThreadShape DEF LogTrigger, TypeOK
  <2>2. Recordable(t)
    BY <1>5, <2>1 DEF ThreadsLive, RowsThere, LogTrigger, Recordable, Consumes
  <2>3. \/ thread' = [thread EXCEPT ![c] =
                        [pc |-> "eval", plate |-> t.plate, todo |-> t.todo, seen |-> None]]
        \/ thread' = [thread EXCEPT ![c] = Poisoned]
    BY <1>5, <2>1, <2>2 DEF LogTrigger, Goto
  <2>4. PICK u : u = thread'[c]
    OBVIOUS
  <2>5. (u.pc = "eval" /\ u.todo = t.todo /\ u.seen = None) \/ u.pc = "poisoned"
    BY <2>3, <2>4 DEF TypeOK, Poisoned
  <2>6. t.pc = "log" /\ UNCHANGED <<rule, ctrl>> /\ owed'[c] = owed[c]
    BY <1>5, <2>1 DEF LogTrigger
  <2>7. /\ owed[c] \subseteq Todo(t) /\ \A r \in owed[c] : rule[r] # None
        /\ MustFire(owed[c]) = owed[c]
    BY <2>1, <2>6 DEF Serves
  <2>8. u.pc = "eval" => Todo(u) = Todo(t)
    BY <2>5 DEF Todo
  <2>9. Serves(u, owed[c])
    BY <2>5, <2>7, <2>8 DEF Serves
  <2>10. QED
    BY <2>4, <2>6, <2>9 DEF Serves, Todo, MustFire
<1>7. ASSUME QueryFails(c) PROVE Serves(thread[c], owed[c])'
  <2>1. /\ thread'[c].pc = "poisoned" /\ UNCHANGED <<rule, ctrl>> /\ owed'[c] = owed[c]
    BY <1>7 DEF QueryFails, Goto, Poisoned, TypeOK, tables, observed
  <2>2. QED
    BY <2>1 DEF Serves, MustFire
<1>8. ASSUME HealthCommit(c) PROVE Serves(thread[c], owed[c])'
  <2>1. PICK t, u : t = thread[c] /\ u = thread'[c]
    OBVIOUS
  <2>2. /\ u.pc = t.pc /\ t.pc \in {"eval", "pulse"} /\ u.seen = None /\ u.todo = t.todo
        /\ t.pc = "pulse" => u.rid = t.rid
    BY <1>8, <2>1, HealthShape
  <2>3. UNCHANGED <<rule, ctrl>> /\ owed'[c] = owed[c]
    BY <1>8 DEF HealthCommit, tables, observed
  <2>4. Serves(u, owed[c])
    BY <2>1, <2>2 DEF Serves, Todo
  <2>5. QED
    BY <2>1, <2>3, <2>4 DEF Serves, Todo, MustFire
<1>6. QED
  BY <1>1, <1>2, <1>3, <1>4, <1>5, <1>7, <1>8 DEF ThreadStep

(* What everybody else does to the rules a thread must fire.                *)
LEMMA ServeStep ==
  ASSUME ~CanRestart, NothingDeleted, TypeOK, ThreadsLive, ServeInv, [Next]_vars
  PROVE  ServeInv'
<1>1. SUFFICES ASSUME NEW c \in Cams PROVE Serves(thread[c], owed[c])'
  BY DEF ServeInv
<1>2. Serves(thread[c], owed[c])
  BY DEF ServeInv
<1>3. CASE \/ ThreadStep(c) \/ QueryFails(c) \/ HealthCommit(c)
           \/ \E p \in Plates : LoadRules(c, p)
  BY <1>2, <1>3, ServeThread
<1>4. SUFFICES ASSUME ~(\/ ThreadStep(c) \/ QueryFails(c) \/ HealthCommit(c)
                        \/ \E p \in Plates : LoadRules(c, p))
               PROVE  /\ thread'[c] = thread[c] /\ owed'[c] \subseteq owed[c]
                      /\ \A r \in owed'[c] :
                           rule'[r] = rule[r] /\ ctrl'[rule[r].ctrl] = ctrl[rule[r].ctrl]
  <2>1. PICK t : t = thread[c]
    OBVIOUS
  <2>2. PICK O, P : O = owed[c] /\ P = owed'[c]
    OBVIOUS
  <2>3. ASSUME thread'[c] = thread[c], owed'[c] \subseteq owed[c],
               \A r \in owed'[c] :
                 rule'[r] = rule[r] /\ ctrl'[rule[r].ctrl] = ctrl[rule[r].ctrl]
        PROVE  Serves(t, P)'
    BY <1>2, <2>1, <2>2, <2>3, ServesOn
  <2>4. Serves(t, P)' /\ thread'[c] = t => Serves(thread[c], owed[c])'
    BY <2>2 DEF Serves, Todo, MustFire
  <2>5. QED
    BY <1>3, <1>4, <2>1, <2>3, <2>4
<1>5. /\ \A r \in owed[c] : r \in Rules /\ rule[r] # None /\ rule[r].ctrl \in Ctrls
      /\ \A r \in owed[c] : ctrl[rule[r].ctrl] # None
  <2>1. \A r \in owed[c] : r \in Rules /\ rule[r] # None
    BY <1>2 DEF Serves, TypeOK
  <2>2. \A r \in owed[c] : rule[r] \in RuleRow
    BY <2>1 DEF TypeOK
  <2>3. QED
    BY <1>2, <2>1, <2>2 DEF Serves, MustFire, RuleRow
<1>6. ASSUME UNCHANGED <<rule, ctrl>>, thread'[c] = thread[c], owed'[c] = owed[c]
      PROVE  /\ thread'[c] = thread[c] /\ owed'[c] \subseteq owed[c]
             /\ \A r \in owed'[c] :
                  rule'[r] = rule[r] /\ ctrl'[rule[r].ctrl] = ctrl[rule[r].ctrl]
  BY <1>6
<1>7. ASSUME NEW d \in Cams, d # c, \/ ThreadStep(d) \/ QueryFails(d) \/ HealthCommit(d)
                                    \/ \E p \in Plates : LoadRules(d, p)
      PROVE  UNCHANGED <<rule, ctrl>> /\ thread'[c] = thread[c] /\ owed'[c] = owed[c]
  <2>1. CASE \E p \in Plates : LoadRules(d, p)
    BY <1>7, <2>1 DEF LoadRules, Goto, TypeOK, tables
  <2>2. CASE EvalRule(d)
    BY <1>7, <2>2 DEF EvalRule, Goto, TypeOK, tables, observed
  <2>3. CASE EvalDone(d)
    BY <1>7, <2>3 DEF EvalDone, Goto, TypeOK, tables, observed
  <2>4. CASE PulseRelay(d)
    BY <1>7, <2>4 DEF PulseRelay, Goto, TypeOK, tables
  <2>5. CASE LogTrigger(d)
    BY <1>7, <2>5 DEF LogTrigger, Goto, TypeOK
  <2>7. CASE QueryFails(d) \/ HealthCommit(d)
    BY <1>7, <2>7 DEF QueryFails, HealthCommit, Goto, TypeOK, tables, observed
  <2>6. QED
    BY <1>7, <2>1, <2>2, <2>3, <2>4, <2>5, <2>7 DEF ThreadStep
<1>8. ASSUME \/ ManualPulse \/ ManualLog \/ Tick \/ UNCHANGED vars
             \/ \E k \in Ctrls : ManualStart(k)
             \/ \E v \in Passes : CreatePass(v)
      PROVE  UNCHANGED <<rule, ctrl>> /\ thread'[c] = thread[c] /\ owed'[c] = owed[c]
  BY <1>8 DEF ManualPulse, ManualLog, Tick, vars, ManualStart, CreatePass, tables, observed
<1>9. /\ ~Restart /\ \A v \in Passes : ~CancelPass(v)
      /\ \A k \in Ctrls : ~DeleteController(k)
      /\ \A r \in Rules : ~DeleteRule(r)
  BY DEF Restart, CancelPass, DeleteController, DeleteRule, NothingDeleted
<1>10. ASSUME NEW k \in Ctrls, CreateController(k)
       PROVE  /\ thread'[c] = thread[c] /\ owed'[c] \subseteq owed[c]
              /\ \A r \in owed'[c] :
                   rule'[r] = rule[r] /\ ctrl'[rule[r].ctrl] = ctrl[rule[r].ctrl]
  <2>1. thread' = thread /\ owed' = owed /\ rule' = rule /\ ctrl[k] = None
    BY <1>10 DEF CreateController, observed
  <2>2. \A j \in Ctrls : j # k => ctrl'[j] = ctrl[j]
    BY <1>10 DEF CreateController, TypeOK
  <2>3. QED
    BY <1>5, <2>1, <2>2
<1>11. ASSUME NEW k \in Ctrls, PatchController(k)
       PROVE  /\ thread'[c] = thread[c] /\ owed'[c] \subseteq owed[c]
              /\ \A r \in owed'[c] :
                   rule'[r] = rule[r] /\ ctrl'[rule[r].ctrl] = ctrl[rule[r].ctrl]
  <2>1. thread' = thread /\ owed'[c] = owed[c] \ RulesOf(k) /\ rule' = rule
    BY <1>11 DEF PatchController, Released
  <2>2. \A j \in Ctrls : j # k => ctrl'[j] = ctrl[j]
    BY <1>11 DEF PatchController, TypeOK
  <2>3. QED
    BY <1>5, <2>1, <2>2 DEF RulesOf
<1>12. ASSUME NEW q \in Rules, CreateRule(q)
       PROVE  /\ thread'[c] = thread[c] /\ owed'[c] \subseteq owed[c]
              /\ \A r \in owed'[c] :
                   rule'[r] = rule[r] /\ ctrl'[rule[r].ctrl] = ctrl[rule[r].ctrl]
  <2>1. thread' = thread /\ owed' = owed /\ ctrl' = ctrl /\ rule[q] = None
    BY <1>12 DEF CreateRule, observed
  <2>2. \A r \in Rules : r # q => rule'[r] = rule[r]
    BY <1>12 DEF CreateRule, TypeOK
  <2>3. QED
    BY <1>5, <2>1, <2>2
<1>13. ASSUME NEW q \in Rules, PatchRule(q)
       PROVE  /\ thread'[c] = thread[c] /\ owed'[c] \subseteq owed[c]
              /\ \A r \in owed'[c] :
                   rule'[r] = rule[r] /\ ctrl'[rule[r].ctrl] = ctrl[rule[r].ctrl]
  <2>1. thread' = thread /\ owed'[c] = owed[c] \ {q} /\ ctrl' = ctrl
    BY <1>13 DEF PatchRule, Released
  <2>2. \A r \in Rules : r # q => rule'[r] = rule[r]
    BY <1>13 DEF PatchRule, TypeOK
  <2>3. QED
    BY <1>5, <2>1, <2>2
<1>14. QED
  BY <1>4, <1>6, <1>7, <1>8, <1>9, <1>10, <1>11, <1>12, <1>13 DEF Next

(* What is known of a controller's attempts: who recorded them, who was told *)
(* of an error, who is between the two; and the threads that were lost.      *)
Known(k) == logged[k] + refused[k] + Cardinality(Logging(k)) + ByHand(k)
Lost == {c \in Cams : thread[c].pc = "poisoned"}
Accounted(k) == Known(k) <= attempts[k] /\ attempts[k] <= Known(k) + Cardinality(Lost)

(* The threads between the two and the lost ones are finitely many.         *)
LEMMA LoggingIsFinite ==
  ASSUME NEW k
  PROVE  /\ IsFiniteSet(Logging(k)) /\ Cardinality(Logging(k)) \in Nat /\ ByHand(k) \in {0, 1}
         /\ IsFiniteSet(Lost) /\ Cardinality(Lost) \in Nat
<1>1. Logging(k) \in SUBSET Cams /\ Lost \in SUBSET Cams
  BY DEF Logging, Lost
<1>2. IsFiniteSet(Logging(k)) /\ IsFiniteSet(Lost)
  BY <1>1, FS_Subset, GateAssumption
<1>3. Cardinality(Logging(k)) \in Nat /\ Cardinality(Lost) \in Nat
  BY <1>2, FS_CardinalityType
<1>4. QED
  BY <1>2, <1>3 DEF ByHand

(* Attempts and log rows of every controller agree, up to who is between    *)
(* the pulse and the row.                                                   *)
LEMMA TrailStep ==
  ASSUME ~CanRestart, NothingDeleted, TypeOK, ThreadsLive, [Next]_vars,
         \A k \in Ctrls : Accounted(k)
  PROVE  \A k \in Ctrls : Accounted(k)'
<1> SUFFICES ASSUME NEW k \in Ctrls PROVE Accounted(k)'
  OBVIOUS
<1>1. Accounted(k) /\ attempts[k] \in Nat /\ logged[k] \in Nat /\ refused[k] \in Nat
  BY DEF TypeOK
<1>2. ASSUME UNCHANGED <<attempts, logged, refused>>, Logging(k)' = Logging(k),
             ByHand(k)' = ByHand(k), Lost' = Lost
      PROVE  Accounted(k)'
  BY <1>1, <1>2 DEF Accounted, Known
<1>4. ASSUME NEW c \in Cams, EvalRule(c) \/ EvalDone(c) \/ \E p \in Plates : LoadRules(c, p)
      PROVE  Accounted(k)'
  <2>1. UNCHANGED <<attempts, logged, refused, manual>>
    BY <1>4 DEF EvalRule, EvalDone, LoadRules, tables, observed
  <2>2. thread[c].pc # "log" /\ thread[c].pc # "poisoned"
    BY <1>4 DEF EvalRule, EvalDone, LoadRules, Idle
  <2>3. thread'[c].pc # "log" /\ thread'[c].pc # "poisoned"
    <3>1. CASE EvalDone(c)
      BY <3>1 DEF EvalDone, Goto, Idle, TypeOK
    <3>2. CASE \E p \in Plates : LoadRules(c, p)
      BY <2>2, <3>2 DEF LoadRules, Goto, TypeOK
    <3>3. CASE EvalRule(c)
      <4>1. PICK t \in EvalState : t = thread[c]
        BY <3>3, ThreadShape DEF EvalRule, TypeOK
      <4>2. PICK u : u = thread'[c]
        OBVIOUS
      <4>3. \/ u = Idle
            \/ u = [t EXCEPT !.todo = Tail(@)]
            \/ \E v : u = Pulsing(t, RuleSeen(t), v)
        BY <3>3, <4>1, <4>2 DEF EvalRule, Goto, TypeOK
      <4>4. u.pc \in {"idle", "eval", "pulse"}
        <5>1. CASE u = Idle
          BY <5>1 DEF Idle
        <5>2. CASE u = [t EXCEPT !.todo = Tail(@)]
          BY <5>2 DEF EvalState
        <5>3. ASSUME NEW v, u = Pulsing(t, RuleSeen(t), v) PROVE u.pc = "pulse"
          BY <5>3 DEF Pulsing
        <5>4. QED
          BY <4>3, <5>1, <5>2, <5>3
      <4>5. QED
        BY <4>2, <4>4
    <3>4. QED
      BY <1>4, <3>1, <3>2, <3>3
  <2>4. \A d \in Cams \ {c} : thread'[d] = thread[d]
    BY <1>4 DEF EvalRule, EvalDone, LoadRules, Goto, TypeOK
  <2>5. Logging(k)' = Logging(k) /\ Lost' = Lost
    BY <2>2, <2>3, <2>4 DEF Logging, Lost
  <2>6. ByHand(k)' = ByHand(k)
    BY <2>1 DEF ByHand
  <2>7. QED
    BY <1>2, <2>1, <2>5, <2>6
<1>5. ASSUME NEW c \in Cams, PulseRelay(c) PROVE Accounted(k)'
  <2>1. PICK t \in PulseState : t = thread[c]
    BY <1>5, ThreadShape DEF PulseRelay, TypeOK
  <2>2. /\ t.pc = "pulse" /\ t.kid \in Ctrls
        /\ UNCHANGED <<logged, refused, manual>> /\ attempts' = [attempts EXCEPT ![t.kid] = @ + 1]
    BY <1>5, <2>1 DEF PulseRelay, PulseState
  <2>3. thread'[c].pc = "log" /\ thread'[c].kid = t.kid
    BY <1>5, <2>1 DEF PulseRelay, Goto, TypeOK
  <2>4. \A d \in Cams \ {c} : thread'[d] = thread[d]
    BY <1>5 DEF PulseRelay, Goto, TypeOK
  <2>5. ByHand(k)' = ByHand(k) /\ Lost' = Lost
    BY <2>1, <2>2, <2>3, <2>4 DEF ByHand, Lost
  <2>6. CASE t.kid # k
    <3>1. Logging(k)' = Logging(k)
      BY <2>1, <2>2, <2>3, <2>4, <2>6 DEF Logging
    <3>2. attempts'[k] = attempts[k]
      BY <2>2, <2>6 DEF TypeOK
    <3>3. QED
      BY <1>1, <2>2, <2>5, <3>1, <3>2, LoggingIsFinite DEF Accounted, Known
  <2>7. CASE t.kid = k
    <3>1. Logging(k)' = Logging(k) \cup {c} /\ c \notin Logging(k)
      BY <2>1, <2>2, <2>3, <2>4, <2>7 DEF Logging
    <3>2. Cardinality(Logging(k)') = Cardinality(Logging(k)) + 1
      BY <3>1, LoggingIsFinite, FS_AddElement
    <3>3. /\ attempts'[k] = attempts[k] + 1
          /\ logged'[k] = logged[k] /\ refused'[k] = refused[k]
      BY <2>2, <2>7 DEF TypeOK
    <3>4. QED
      BY <1>1, <2>5, <3>2, <3>3, LoggingIsFinite DEF Accounted, Known
  <2>8. QED
    BY <2>6, <2>7
<1>6. ASSUME NEW c \in Cams, LogTrigger(c) PROVE Accounted(k)'
  <2>1. PICK t \in LogState : t = thread[c]
    BY <1>6, ThreadShape DEF LogTrigger, TypeOK
  <2>2. Recordable(t) /\ t.pc = "log" /\ t.kid \in Ctrls
    BY <1>6, <2>1 DEF ThreadsLive, RowsThere, LogTrigger, LogState, Recordable, Consumes
  <2>3. /\ UNCHANGED <<attempts, refused, manual>>
        /\ \A d \in Cams \ {c} : thread'[d] = thread[d]
        /\ \/ /\ logged' = [logged EXCEPT ![t.kid] = @ + 1]
              /\ thread'[c].pc \in {"eval", "poisoned"}
           \/ logged' = logged /\ thread'[c].pc = "poisoned"
    BY <1>6, <2>1, <2>2 DEF LogTrigger, Goto, Poisoned, TypeOK
  <2>4. ByHand(k)' = ByHand(k)
    BY <2>3 DEF ByHand
  <2>5. Cardinality(Lost') = Cardinality(Lost) + (IF thread'[c].pc = "poisoned" THEN 1 ELSE 0)
    <3>1. CASE thread'[c].pc = "poisoned"
      <4>1. Lost' = Lost \cup {c} /\ c \notin Lost
        BY <2>1, <2>2, <2>3, <3>1 DEF Lost
      <4>2. QED
        BY <3>1, <4>1, LoggingIsFinite, FS_AddElement
    <3>2. CASE thread'[c].pc # "poisoned"
      <4>1. Lost' = Lost
        BY <2>1, <2>2, <2>3, <3>2 DEF Lost
      <4>2. QED
        BY <3>2, <4>1, LoggingIsFinite
    <3>3. QED
      BY <3>1, <3>2
  <2>6. Cardinality(Logging(k)') = Cardinality(Logging(k)) - (IF t.kid = k THEN 1 ELSE 0)
    <3>1. CASE t.kid = k
      <4>1. Logging(k)' = Logging(k) \ {c} /\ c \in Logging(k)
        BY <2>1, <2>2, <2>3, <3>1 DEF Logging
      <4>2. QED
        BY <3>1, <4>1, LoggingIsFinite, FS_RemoveElement
    <3>2. CASE t.kid # k
      <4>1. Logging(k)' = Logging(k)
        BY <2>1, <2>2, <2>3, <3>2 DEF Logging
      <4>2. QED
        BY <3>2, <4>1, LoggingIsFinite
    <3>3. QED
      BY <3>1, <3>2
  <2>7. CASE logged' = [logged EXCEPT ![t.kid] = @ + 1]
    <3>1. logged'[k] = logged[k] + (IF t.kid = k THEN 1 ELSE 0)
      BY <1>1, <2>7 DEF TypeOK
    <3>2. QED
      BY <1>1, <2>3, <2>4, <2>5, <2>6, <3>1, LoggingIsFinite DEF Accounted, Known
  <2>8. CASE logged' = logged /\ thread'[c].pc = "poisoned"
    BY <1>1, <2>3, <2>4, <2>5, <2>6, <2>8, LoggingIsFinite DEF Accounted, Known
  <2>9. QED
    BY <2>3, <2>7, <2>8
<1>13. ASSUME NEW c \in Cams, QueryFails(c) PROVE Accounted(k)'
  <2>1. /\ UNCHANGED <<attempts, logged, refused, manual>> /\ thread'[c].pc = "poisoned"
        /\ \A d \in Cams \ {c} : thread'[d] = thread[d]
        /\ thread[c].pc \in {"idle", "eval"}
    BY <1>13 DEF QueryFails, Goto, Poisoned, TypeOK, tables, observed
  <2>2. Logging(k)' = Logging(k) /\ ByHand(k)' = ByHand(k)
    BY <2>1 DEF Logging, ByHand
  <2>3. Lost' = Lost \cup {c} /\ c \notin Lost
    BY <2>1 DEF Lost
  <2>4. Cardinality(Lost') = Cardinality(Lost) + 1
    BY <2>3, LoggingIsFinite, FS_AddElement
  <2>5. QED
    BY <1>1, <2>1, <2>2, <2>4, LoggingIsFinite DEF Accounted, Known
<1>14. ASSUME NEW c \in Cams, HealthCommit(c) PROVE Accounted(k)'
  <2>1. UNCHANGED <<attempts, logged, refused, manual>>
    BY <1>14 DEF HealthCommit, tables, observed
  <2>2. Logging(k)' = Logging(k) /\ ByHand(k)' = ByHand(k) /\ Lost' = Lost
    BY <1>14, <2>1, HealthShape DEF Logging, ByHand, Lost
  <2>3. QED
    BY <1>2, <2>1, <2>2
<1>7. ASSUME thread' = thread PROVE Logging(k)' = Logging(k) /\ Lost' = Lost
  BY <1>7 DEF Logging, Lost
<1>8. ASSUME NEW j \in Ctrls, ManualStart(j) PROVE Accounted(k)'
  <2>1. /\ manual = Idle /\ manual' = [pc |-> "pulse", kid |-> j]
        /\ UNCHANGED <<thread, attempts, logged, refused>>
    BY <1>8 DEF ManualStart
  <2>2. ByHand(k)' = ByHand(k)
    BY <2>1 DEF ByHand, Idle
  <2>3. QED
    BY <1>2, <1>7, <2>1, <2>2
<1>9. CASE ManualPulse \/ ManualLog
  <2>1. PICK m \in [pc: {"pulse", "log"}, kid: Ctrls] : m = manual
    BY <1>9 DEF ManualPulse, ManualLog, TypeOK, ManualState
  <2>2. thread' = thread
    BY <1>9 DEF ManualPulse, ManualLog
  <2>3. CASE ManualPulse
    <3>1. /\ m.pc = "pulse" /\ manual' = [m EXCEPT !.pc = "log"]
          /\ UNCHANGED <<logged, refused>>
          /\ attempts' = [attempts EXCEPT ![m.kid] = @ + 1]
      BY <2>1, <2>3 DEF ManualPulse
    <3>2. manual'.pc = "log" /\ manual'.kid = m.kid
      BY <3>1
    <3>3. /\ ByHand(k) = 0 /\ ByHand(k)' = IF m.kid = k THEN 1 ELSE 0
      BY <2>1, <3>1, <3>2 DEF ByHand
    <3>4. /\ attempts'[k] = IF m.kid = k THEN attempts[k] + 1 ELSE attempts[k]
      BY <3>1 DEF TypeOK
    <3>5. QED
      BY <1>1, <1>7, <2>2, <3>1, <3>3, <3>4, LoggingIsFinite DEF Accounted, Known
  <2>4. CASE ManualLog
    <3>1. m.pc = "log" /\ manual' = Idle /\ attempts' = attempts
      BY <2>1, <2>4 DEF ManualLog
    <3>2. \/ logged' = [logged EXCEPT ![m.kid] = @ + 1] /\ refused' = refused
          \/ refused' = [refused EXCEPT ![m.kid] = @ + 1] /\ logged' = logged
      BY <2>1, <2>4 DEF ManualLog
    <3>3. /\ ByHand(k)' = 0 /\ ByHand(k) = IF m.kid = k THEN 1 ELSE 0
      BY <2>1, <3>1 DEF ByHand, Idle
    <3>4. logged'[k] + refused'[k] = logged[k] + refused[k] + (IF m.kid = k THEN 1 ELSE 0)
      BY <1>1, <3>2 DEF TypeOK
    <3>5. /\ Logging(k)' = Logging(k) /\ Lost' = Lost
      BY <1>7, <2>2
    <3>6. logged'[k] \in Nat /\ refused'[k] \in Nat
      BY <1>1, <3>2 DEF TypeOK
    <3>7. QED
      BY <1>1, <3>1, <3>3, <3>4, <3>5, <3>6, LoggingIsFinite DEF Accounted, Known
  <2>5. QED
    BY <1>9, <2>3, <2>4
<1>10. ASSUME \/ Tick \/ UNCHANGED vars
              \/ \E v \in Passes : CreatePass(v) \/ CancelPass(v)
              \/ \E j \in Ctrls : CreateController(j) \/ PatchController(j)
              \/ \E r \in Rules : CreateRule(r) \/ PatchRule(r) \/ DeleteRule(r)
       PROVE  Accounted(k)'
  <2>1. UNCHANGED <<thread, manual, attempts, logged, refused>>
    BY <1>10 DEF Tick, vars, CreatePass, CancelPass, CreateController, PatchController,
           CreateRule, PatchRule, DeleteRule, observed
  <2>2. ByHand(k)' = ByHand(k)
    BY <2>1 DEF ByHand
  <2>3. QED
    BY <1>2, <1>7, <2>1, <2>2
<1>11. ~Restart /\ \A j \in Ctrls : ~DeleteController(j)
  BY DEF Restart, DeleteController, NothingDeleted
<1>12. QED
  BY <1>4, <1>5, <1>6, <1>8, <1>9, <1>10, <1>11, <1>13, <1>14 DEF Next, ThreadStep

(* As long as the process is not killed and nobody deletes a pass, a rule   *)
(* or a controller: every attempt to open a gate, by any camera or by hand, *)
(* failed ones too, is in the trigger log or about to be, but for openings  *)
(* by hand that ended in an error and at most one attempt of each thread    *)
(* that was lost with its session; and when an evaluation is over every     *)
(* any-plate rule that it loaded and nobody edited since has been fired     *)
(* (gate.py:233-286, routers/gates.py:249-278).                             *)
THEOREM RulesAreServedAndLogged ==
  ASSUME NothingDeleted, ~CanRestart
  PROVE  Spec => []RulesAreServed
<1> DEFINE Inv == TypeOK /\ ThreadsLive /\ ServeInv /\ \A k \in Ctrls : Accounted(k)
<1>1. Init => Inv
  <2> SUFFICES ASSUME Init PROVE Inv
    OBVIOUS
  <2>1. TypeOK
    BY TypeInit
  <2>2. ThreadsLive /\ ServeInv
    BY DEF Init, Idle, ThreadsLive, RowsThere, ServeInv, Serves, MustFire
  <2>3. Lost = {} /\ \A k \in Ctrls : Logging(k) = {} /\ ByHand(k) = 0
    BY DEF Init, Idle, Logging, ByHand, Lost
  <2>4. \A k \in Ctrls : Accounted(k)
    <3>1. \A k \in Ctrls : attempts[k] = 0 /\ logged[k] = 0 /\ refused[k] = 0
      BY DEF Init
    <3>2. Cardinality({}) = 0
      BY FS_EmptySet
    <3>3. QED
      BY <2>3, <3>1, <3>2 DEF Accounted, Known
  <2>5. QED
    BY <2>1, <2>2, <2>4
<1>2. Inv /\ [Next]_vars => Inv'
  BY NothingDeleted, ~CanRestart, TypeStep, LiveStep, ServeStep, TrailStep
<1>3. Inv => EveryAttemptLogged
  BY DEF EveryAttemptLogged, Accounted, Known, Logging, ByHand, Lost
<1>4. Inv => AllMatchingFire
  BY DEF AllMatchingFire, ServeInv, Serves
<1>5. QED
  BY <1>1, <1>2, <1>3, <1>4, PTL DEF Spec, RulesAreServed
=============================================================================
