--------------------------- MODULE License_proofs ---------------------------
(***************************************************************************)
(* Proofs about License, for any number of processes, licences and parts,  *)
(* any terms, and any history of the clock.                                *)
(***************************************************************************)
EXTENDS License, TLAPS

(***************************************************************************)
(* Types                                                                   *)
(***************************************************************************)

(* A file that is there and parses is a record of its kind.                *)
LEMMA Tokens == \A x \in Claims \cup {None, Torn} : x \notin {None, Torn} <=> x \in Claims
  BY LicenseAssumption

(* A guard file is missing, torn or whole.                                  *)
LEMMA Guards == \A x \in Guard \cup {None, Torn} : x \notin {None, Torn} <=> x \in Guard
  BY LicenseAssumption

(* A token carries claims or none.                                          *)
LEMMA Optional == \A x \in Claims \cup {None} : x # None <=> x \in Claims
  BY LicenseAssumption

(* Every evaluation ends in a verdict.                                      *)
LEMMA VerdictType ==
  /\ NotEvaluated \in Verdict
  /\ \A v : Refused(v) \in Verdict
  /\ \A c \in Claims, f \in Fingerprint, t \in Time : StateOf(c, f, t) \in LicenseState \ {"invalid"}
<1>1. NotEvaluated \in Verdict
  BY LicenseAssumption DEF NotEvaluated, Verdict, LicenseState, Time, Fingerprint
<1>2. \A v : Refused(v) \in Verdict
  BY <1>1 DEF Refused, NotEvaluated, Verdict
<1>3. \A c \in Claims, f \in Fingerprint, t \in Time : StateOf(c, f, t) \in LicenseState \ {"invalid"}
  BY DEF StateOf, LicenseState
<1> QED BY <1>1, <1>2, <1>3

(* What a process reads of the hardware is a fingerprint.                   *)
LEMMA ReadingsType == TypeOK => Readings \subseteq Fingerprint
  BY DEF TypeOK, Readings, Fingerprint

(* What the start of a process makes of the token file.                    *)
LEMMA Evaluated ==
  ASSUME NEW tok \in Claims \cup {None, Torn}, NEW seen \in Fingerprint, NEW t \in Time
  PROVE  /\ Evaluate(tok, seen, t) \in Verdict
         /\ Evaluate(tok, seen, t).claims = None \/ Evaluate(tok, seen, t).claims = tok
         /\ Evaluate(tok, seen, t).msg # "clock"
         /\ LET v == Evaluate(tok, seen, t) IN
              IF v.claims = None THEN v.state = "invalid"
              ELSE v.state = StateOf(v.claims, v.seen, v.at)
<1>1. CASE tok \in {None, Torn}
  BY <1>1, VerdictType DEF Evaluate, NotEvaluated
<1>2. CASE tok \notin {None, Torn}
  <2>1. tok \in Claims
    BY <1>2
  <2>2. StateOf(tok, seen, t) \in LicenseState
    BY <2>1, VerdictType
  <2> QED
    BY <1>2, <2>1, <2>2 DEF Evaluate, Verdict
<1> QED BY <1>1, <1>2

(* A process that is down is in a state of its own.                         *)
LEMMA DownType == Down \in ProcState
  BY VerdictType, LicenseAssumption DEF Down, ProcState, Steps, Time

(* The types hold at first.                                                 *)
LEMMA InitTypeCorrect == Init => TypeOK
<1>1. 0 \in Time
  BY LicenseAssumption DEF Time
<1> QED BY <1>1, DownType DEF Init, TypeOK

(* The process a step is about keeps its type, the others are untouched.   *)
LEMMA GotoType ==
  ASSUME TypeOK, NEW p \in Procs, NEW pc \in Steps, NEW v \in Verdict, NEW ts \in Time,
         Goto(p, pc, v, ts)
  PROVE  proc' \in [Procs -> ProcState]
  BY DEF TypeOK, Goto, ProcState

(* The fields of a process keep their types.                                *)
LEMMA ProcTyped ==
  ASSUME TypeOK, NEW p \in Procs
  PROVE  /\ proc[p].v \in Verdict /\ proc[p].ts \in Time /\ proc[p].pc \in Steps
         /\ now \in Time /\ 0 \in Time
  BY LicenseAssumption DEF TypeOK, ProcState, Time

(* A process starts and evaluates the token.                                *)
LEMMA StartType == ASSUME TypeOK, NEW p \in Procs, Start(p) PROVE TypeOK'
<1>1. PICK seen \in Readings :
        Goto(p, IF Evaluate(token, seen, now).claims = None THEN "up" ELSE "check",
             Evaluate(token, seen, now), 0)
  BY DEF Start
<1>2. Evaluate(token, seen, now) \in Verdict
  BY ReadingsType, Evaluated DEF TypeOK
<1>3. proc' \in [Procs -> ProcState]
  BY <1>1, <1>2, GotoType, ProcTyped DEF Steps
<1> QED BY <1>3 DEF Start, world, TypeOK

(* The clock guard is read.                                                 *)
LEMMA CheckType == ASSUME TypeOK, NEW p \in Procs, Check(p) PROVE TypeOK'
<1>1. Refused(proc[p].v) \in Verdict
  BY VerdictType
<1>2. proc' \in [Procs -> ProcState]
  BY <1>1, ProcTyped, GotoType DEF Check, Steps
<1> QED BY <1>2 DEF Check, world, TypeOK

(* The guard file is opened for writing, and empty.                         *)
LEMMA TruncateType == ASSUME TypeOK, NEW p \in Procs, Truncate(p) PROVE TypeOK'
<1>1. proc' \in [Procs -> ProcState]
  BY ProcTyped, GotoType DEF Truncate, Steps
<1>2. guard' \in Guard \cup {None, Torn}
  BY DEF Truncate, TypeOK
<1> QED BY <1>1, <1>2 DEF Truncate, world, TypeOK

(* The guard file is written.                                               *)
LEMMA FillType ==
  ASSUME TypeOK, NEW p \in Procs, proc[p].v.claims # None, Fill(p) PROVE TypeOK'
<1>1. proc' \in [Procs -> ProcState]
  BY ProcTyped, GotoType DEF Fill, Steps
<1>2. proc[p].v.claims \in Claims
  BY ProcTyped DEF Verdict
<1>3. guard' \in Guard \cup {None, Torn}
  BY <1>2, ProcTyped DEF Fill, Guard, Claims
<1> QED BY <1>1, <1>3 DEF Fill, world, TypeOK

(* A process ends.                                                          *)
LEMMA StopType == ASSUME TypeOK, NEW p \in Procs, Stop(p) PROVE TypeOK'
  BY DownType DEF Stop, world, TypeOK

(* The vendor issues a licence.                                             *)
LEMMA IssueType == ASSUME TypeOK, NEW i \in Ids, Issue(i) PROVE TypeOK'
<1>1. PICK fp \in Readings, t \in Terms :
        lic' = [lic EXCEPT ![i] = [id |-> i, fp |-> fp, exp |-> now + t.days * DayLen,
                                   grace |-> t.grace, warn |-> t.warn]]
  BY DEF Issue
<1>2. t.days * DayLen \in Nat /\ t.grace \in Nat /\ t.warn \in Nat
  BY LicenseAssumption
<1>3. fp \in Fingerprint /\ now + t.days * DayLen \in Nat
  BY <1>2, ReadingsType DEF TypeOK, Time
<1>4. [id |-> i, fp |-> fp, exp |-> now + t.days * DayLen,
       grace |-> t.grace, warn |-> t.warn] \in Claims
  BY <1>2, <1>3 DEF Claims
<1>5. lic' \in [Ids -> Claims \cup {None}]
  BY <1>1, <1>4 DEF TypeOK
<1> QED BY <1>5 DEF Issue, TypeOK

(* A token is installed.                                                    *)
LEMMA InstallType == ASSUME TypeOK, NEW i \in Ids, InstallToken(i) PROVE TypeOK'
  BY DEF InstallToken, TypeOK

(* The machine's files, parts and clock change.                             *)
LEMMA MachineType ==
  ASSUME TypeOK,
         SpoilToken \/ LoseGuard \/ (\E part \in Parts : SwapPart(part))
           \/ Tick \/ (\E d \in Backs : StepBack(d))
  PROVE  TypeOK'
<1>1. CASE SpoilToken
  BY <1>1 DEF SpoilToken, TypeOK
<1>2. CASE LoseGuard
  BY <1>2 DEF LoseGuard, world, TypeOK
<1>3. CASE \E part \in Parts : SwapPart(part)
  BY <1>3 DEF SwapPart, TypeOK
<1>4. CASE Tick
  BY <1>4, LicenseAssumption DEF Tick, TypeOK, Time
<1>5. CASE \E d \in Backs : StepBack(d)
  BY <1>5, LicenseAssumption DEF StepBack, TypeOK, Time
<1> QED BY <1>1, <1>2, <1>3, <1>4, <1>5

(***************************************************************************)
(* The inductive invariant                                                 *)
(***************************************************************************)

(* Being behind the furthest the clock has been counts as a jump beyond the *)
(* threshold.                                                              *)
ClockInv == now <= peak /\ (peak - now > Threshold => jumped)

(* What is in the token file, the guard and the verdicts is of an installed *)
(* licence, and no guard is dated later than the clock has ever been.      *)
OriginInv ==
  /\ \A i \in Ids : lic[i] # None => lic[i].id = i
  /\ token \in Claims => token.id \in installed
  /\ guard \in Guard => guard.id \in installed /\ guard.ts <= peak

(* What a process holds is the evaluation of its claims; only a process    *)
(* with claims is past the token.                                          *)
HoldsInv(p) ==
  LET v == proc[p].v IN
  /\ v.claims # None => v.claims.id \in installed /\ v.state = StateOf(v.claims, v.seen, v.at)
  /\ v.claims = None => v.state = "invalid"
  /\ proc[p].pc \in {"check", "truncate", "fill"} => v.claims # None
  /\ proc[p].ts <= peak
  /\ v.msg = "clock" => jumped \/ Renewed

Inv == TypeOK /\ ClockInv /\ OriginInv /\ \A p \in Procs : HoldsInv(p)

(* The invariant holds at first.                                            *)
LEMMA InitInv == Init => Inv
<1> SUFFICES ASSUME Init PROVE Inv
  OBVIOUS
<1>1. TypeOK
  BY InitTypeCorrect
<1>2. ClockInv
  BY LicenseAssumption DEF Init, ClockInv
<1>3. OriginInv
  BY LicenseAssumption DEF Init, OriginInv
<1>4. \A p \in Procs : HoldsInv(p)
  BY LicenseAssumption DEF Init, HoldsInv, Down, NotEvaluated
<1> QED BY <1>1, <1>2, <1>3, <1>4 DEF Inv

(* A process that a step leaves alone keeps what it holds, as long as the  *)
(* clock's peak and the installed licences only grow.                      *)
LEMMA OthersHold ==
  ASSUME NEW q \in Procs, HoldsInv(q), TypeOK, proc'[q] = proc[q],
         installed \subseteq installed', peak \in Nat, peak' \in Nat, peak <= peak', jumped => jumped'
  PROVE  HoldsInv(q)'
<1>1. proc[q].ts \in Nat
  BY ProcTyped DEF Time
<1>2. Renewed => Renewed'
  BY DEF Renewed
<1>3. StateOf(proc[q].v.claims, proc[q].v.seen, proc[q].v.at)'
        = StateOf(proc[q].v.claims, proc[q].v.seen, proc[q].v.at)
  BY DEF StateOf, Matches, GraceEnd, DaysUntilExpiry
<1> QED BY <1>1, <1>2, <1>3 DEF HoldsInv

(* A step of process p that moves it to pc with verdict v.                 *)
LEMMA GotoHolds ==
  ASSUME Inv, NEW p \in Procs, NEW pc, NEW v, NEW ts, Goto(p, pc, v, ts),
         UNCHANGED <<installed, peak, jumped>>,
         ts = 0 \/ ts = proc[p].ts \/ ts = now,
         v.claims # None => v.claims.id \in installed /\ v.state = StateOf(v.claims, v.seen, v.at),
         v.claims = None => v.state = "invalid",
         pc \in {"check", "truncate", "fill"} => v.claims # None,
         v.msg = "clock" => jumped \/ Renewed
  PROVE  \A q \in Procs : HoldsInv(q)'
<1>1. proc'[p] = [pc |-> pc, v |-> v, ts |-> ts]
  BY DEF Goto, Inv, TypeOK
<1>2. \A q \in Procs : q # p => proc'[q] = proc[q]
  BY DEF Goto, Inv, TypeOK
<1>3. peak \in Nat /\ now \in Nat /\ now <= peak
  BY LicenseAssumption DEF Inv, TypeOK, Time, ClockInv
<1>4. ts <= peak
  BY <1>3 DEF Inv, HoldsInv
<1>5. HoldsInv(p)'
  <2>1. StateOf(v.claims, v.seen, v.at)' = StateOf(v.claims, v.seen, v.at)
    BY DEF StateOf, Matches, GraceEnd, DaysUntilExpiry
  <2>2. proc'[p].v = v /\ proc'[p].pc = pc /\ proc'[p].ts = ts
    BY <1>1
  <2>3. Renewed' = Renewed
    BY DEF Renewed
  <2>4. (proc[p].v)' = v /\ (proc[p].pc)' = pc /\ (proc[p].ts)' = ts
    BY <2>2
  <2> QED
    BY <1>4, <2>1, <2>3, <2>4 DEF HoldsInv
<1>6. ASSUME NEW q \in Procs, q # p PROVE HoldsInv(q)'
  BY <1>2, <1>3, <1>6, OthersHold DEF Inv
<1> QED BY <1>5, <1>6

(* A start grants what the token it reads says at that moment.              *)
LEMMA StartInv == ASSUME Inv, NEW p \in Procs, Start(p) PROVE Inv'
<1>1. TypeOK'
  BY StartType DEF Inv
<1>2. ClockInv' /\ OriginInv'
  BY DEF Start, world, Inv, ClockInv, OriginInv
<1>3. PICK seen \in Readings :
        Goto(p, IF Evaluate(token, seen, now).claims = None THEN "up" ELSE "check",
             Evaluate(token, seen, now), 0)
  BY DEF Start
<1> DEFINE v == Evaluate(token, seen, now)
<1>4. seen \in Fingerprint /\ now \in Time /\ token \in Claims \cup {None, Torn}
  BY ReadingsType DEF Inv, TypeOK
<1>5. /\ v.claims = None \/ v.claims = token
      /\ v.msg # "clock"
      /\ v.claims # None => v.state = StateOf(v.claims, v.seen, v.at)
      /\ v.claims = None => v.state = "invalid"
      /\ v \in Verdict
  BY <1>4, Evaluated
<1>6. v.claims # None => v.claims.id \in installed
  BY <1>4, <1>5, Tokens DEF Inv, OriginInv, Verdict
<1>7. UNCHANGED <<installed, peak, jumped>>
  BY DEF Start, world
<1>8. \A q \in Procs : HoldsInv(q)'
  <2> HIDE DEF v
  <2> QED BY <1>3, <1>5, <1>6, <1>7, GotoHolds DEF v
<1> QED BY <1>1, <1>2, <1>8 DEF Inv

(* A refusal by the clock: the guard is of another licence, or dated more  *)
(* than the threshold ahead of the clock.                                  *)
LEMMA RefusalCause ==
  ASSUME Inv, NEW p \in Procs, proc[p].pc = "check", guard \notin {None, Torn},
         guard.id # proc[p].v.claims.id \/ guard.ts - now > Threshold
  PROVE  jumped \/ Renewed
<1>1. guard \in Guard
  BY Guards DEF Inv, TypeOK
<1>2. guard.id \in installed /\ guard.ts <= peak /\ guard.ts \in Nat /\ peak \in Nat /\ now \in Nat
  BY <1>1, LicenseAssumption DEF Inv, OriginInv, TypeOK, Guard, Time
<1>3. proc[p].v.claims.id \in installed
  BY DEF Inv, HoldsInv
<1>4. CASE guard.id # proc[p].v.claims.id
  BY <1>2, <1>3, <1>4 DEF Renewed
<1>5. CASE guard.ts - now > Threshold
  BY <1>2, <1>5, LicenseAssumption DEF Inv, ClockInv
<1> QED BY <1>4, <1>5

(* The clock guard refuses the verdict or lets it stand.                    *)
LEMMA CheckInv == ASSUME Inv, NEW p \in Procs, Check(p) PROVE Inv'
<1>1. TypeOK'
  BY CheckType DEF Inv
<1>2. ClockInv' /\ OriginInv'
  BY DEF Check, world, Inv, ClockInv, OriginInv
<1>3. UNCHANGED <<installed, peak, jumped>> /\ proc[p].pc = "check"
  BY DEF Check, world
<1>4. CASE guard \notin {None, Torn} /\ (guard.id # proc[p].v.claims.id \/ guard.ts - now > Threshold)
  <2>1. Goto(p, "up", Refused(proc[p].v), 0)
    BY <1>4 DEF Check
  <2>2. /\ Refused(proc[p].v).claims = None
        /\ Refused(proc[p].v).state = "invalid"
    BY DEF Refused, NotEvaluated
  <2>3. jumped \/ Renewed
    BY <1>3, <1>4, RefusalCause
  <2>4. \A q \in Procs : HoldsInv(q)'
    BY <1>3, <2>1, <2>2, <2>3, GotoHolds
  <2> QED BY <1>1, <1>2, <2>4 DEF Inv
<1>5. CASE ~(guard \notin {None, Torn} /\ (guard.id # proc[p].v.claims.id \/ guard.ts - now > Threshold))
  <2>1. Goto(p, "truncate", proc[p].v, now)
    BY <1>5 DEF Check
  <2>2. \A q \in Procs : HoldsInv(q)'
    BY <1>3, <2>1, GotoHolds DEF Inv, HoldsInv
  <2> QED BY <1>1, <1>2, <2>2 DEF Inv
<1> QED BY <1>4, <1>5

(* An empty guard file says nothing of the past.                            *)
LEMMA TruncateInv == ASSUME Inv, NEW p \in Procs, Truncate(p) PROVE Inv'
<1>1. TypeOK'
  BY TruncateType DEF Inv
<1>2. ClockInv' /\ UNCHANGED <<installed, peak, jumped>>
  BY DEF Truncate, world, Inv, ClockInv
<1>3. OriginInv'
  <2>1. Torn \notin Guard
    BY LicenseAssumption
  <2> QED BY <2>1 DEF Truncate, world, Inv, OriginInv
<1>4. proc[p].v.claims # None
  BY DEF Truncate, Inv, HoldsInv
<1>5. PICK pc \in {"fill", "up"}, ts \in {proc[p].ts, 0} : Goto(p, pc, proc[p].v, ts)
  BY DEF Truncate
<1>6. \A q \in Procs : HoldsInv(q)'
  BY <1>2, <1>4, <1>5, GotoHolds DEF Inv, HoldsInv
<1> QED BY <1>1, <1>2, <1>3, <1>6 DEF Inv

(* The guard file gets the time of the start it belongs to.                 *)
LEMMA FillInv == ASSUME Inv, NEW p \in Procs, Fill(p) PROVE Inv'
<1>1. proc[p].v.claims # None
  BY DEF Fill, Inv, HoldsInv
<1>2. TypeOK'
  BY <1>1, FillType DEF Inv
<1>3. ClockInv' /\ UNCHANGED <<lic, token, installed, peak, jumped>>
  BY DEF Fill, world, Inv, ClockInv
<1>4. OriginInv'
  <2>1. Torn \notin Guard
    BY LicenseAssumption
  <2>2. proc[p].v.claims.id \in installed /\ proc[p].ts <= peak
    BY <1>1 DEF Inv, HoldsInv
  <2>3. guard' \in Guard => guard'.id \in installed /\ guard'.ts <= peak
    BY <2>1, <2>2 DEF Fill
  <2> QED BY <1>3, <2>3 DEF Inv, OriginInv
<1>5. Goto(p, "up", proc[p].v, 0)
  BY DEF Fill
<1>6. \A q \in Procs : HoldsInv(q)'
  BY <1>1, <1>3, <1>5, GotoHolds DEF Inv, HoldsInv
<1> QED BY <1>2, <1>3, <1>4, <1>6 DEF Inv

(* A process that ends grants nothing.                                      *)
LEMMA StopInv == ASSUME Inv, NEW p \in Procs, Stop(p) PROVE Inv'
<1>1. TypeOK'
  BY StopType DEF Inv
<1>2. ClockInv' /\ OriginInv' /\ UNCHANGED <<installed, peak, jumped>>
  BY DEF Stop, world, Inv, ClockInv, OriginInv
<1>3. Goto(p, "down", NotEvaluated, 0)
  BY DEF Stop, Goto, Down
<1>4. NotEvaluated.claims = None /\ NotEvaluated.state = "invalid" /\ NotEvaluated.msg # "clock"
  BY DEF NotEvaluated
<1>5. \A q \in Procs : HoldsInv(q)'
  BY <1>2, <1>3, <1>4, GotoHolds
<1> QED BY <1>1, <1>2, <1>5 DEF Inv

(* A step of the world around the processes.                               *)
LEMMA WorldHolds ==
  ASSUME Inv, TypeOK', UNCHANGED proc, installed \subseteq installed', peak <= peak', jumped => jumped'
  PROVE  \A q \in Procs : HoldsInv(q)'
<1>1. peak \in Nat /\ peak' \in Nat
  BY LicenseAssumption DEF Inv, TypeOK, Time
<1> QED BY <1>1, OthersHold DEF Inv

(* Issuing a licence changes no grant.                                      *)
LEMMA IssueInv == ASSUME Inv, NEW i \in Ids, Issue(i) PROVE Inv'
<1>1. TypeOK'
  BY IssueType DEF Inv
<1>2. UNCHANGED <<token, guard, now, proc, installed, peak, jumped>>
  BY DEF Issue
<1>3. ClockInv'
  BY <1>2 DEF Inv, ClockInv
<1>4. \A j \in Ids : lic'[j] # None => lic'[j].id = j
  BY DEF Issue, Inv, OriginInv, TypeOK
<1>5. OriginInv'
  BY <1>2, <1>4 DEF Inv, OriginInv
<1>6. peak <= peak'
  BY <1>2, LicenseAssumption DEF Inv, TypeOK, Time
<1>7. \A q \in Procs : HoldsInv(q)'
  BY <1>1, <1>2, <1>6, WorldHolds
<1> QED BY <1>1, <1>3, <1>5, <1>7 DEF Inv

(* An installed token's id is recorded as installed.                        *)
LEMMA InstallInv == ASSUME Inv, NEW i \in Ids, InstallToken(i) PROVE Inv'
<1>1. TypeOK'
  BY InstallType DEF Inv
<1>2. UNCHANGED <<lic, guard, now, proc, peak, jumped>> /\ installed' = installed \cup {i}
  BY DEF InstallToken
<1>3. ClockInv'
  BY <1>2 DEF Inv, ClockInv
<1>4. token'.id = i
  BY DEF InstallToken, Inv, OriginInv
<1>5. OriginInv'
  BY <1>2, <1>4 DEF Inv, OriginInv
<1>6. peak <= peak'
  BY <1>2, LicenseAssumption DEF Inv, TypeOK, Time
<1>7. \A q \in Procs : HoldsInv(q)'
  BY <1>1, <1>2, <1>6, WorldHolds
<1> QED BY <1>1, <1>3, <1>5, <1>7 DEF Inv

(* Accidents to the machine leave every verdict as it was.                  *)
LEMMA MachineInv ==
  ASSUME Inv,
         SpoilToken \/ LoseGuard \/ (\E part \in Parts : SwapPart(part))
           \/ Tick \/ (\E d \in Backs : StepBack(d))
  PROVE  Inv'
<1>1. TypeOK'
  BY MachineType DEF Inv
<1>2. /\ UNCHANGED <<lic, proc, installed>>
      /\ guard' \in {guard, None} /\ token' \in {token, None, Torn}
  BY DEF SpoilToken, LoseGuard, SwapPart, Tick, StepBack, world
<1>3. now \in Nat /\ peak \in Nat /\ now <= peak /\ (peak - now > Threshold => jumped)
  BY LicenseAssumption DEF Inv, TypeOK, Time, ClockInv
<1>4. ClockInv' /\ peak <= peak' /\ (jumped => jumped')
  <2>1. CASE UNCHANGED <<now, peak, jumped>>
    BY <1>3, <2>1 DEF ClockInv
  <2>2. CASE Tick
    BY <1>3, <2>2, LicenseAssumption DEF Tick, ClockInv
  <2>3. CASE \E d \in Backs : StepBack(d)
    <3>1. PICK d \in Backs : StepBack(d)
      BY <2>3
    <3>2. d \in Nat /\ 0 < d /\ now' = now - d /\ peak' = peak
      BY <3>1, LicenseAssumption DEF StepBack
    <3>3. (jumped => jumped') /\ (peak - now' > Threshold => jumped')
      BY <3>1, Zenon DEF StepBack
    <3> QED BY <1>3, <3>2, <3>3 DEF ClockInv
  <2> QED BY <2>1, <2>2, <2>3 DEF SpoilToken, LoseGuard, SwapPart, world
<1>5. OriginInv'
  <2>1. None \notin Guard /\ None \notin Claims /\ Torn \notin Claims
    BY LicenseAssumption
  <2>2. guard \in Guard => guard.ts <= peak'
    <3>1. guard \in Guard => guard.ts \in Nat /\ guard.ts <= peak
      BY LicenseAssumption DEF Inv, OriginInv, Guard, Time
    <3>2. peak' \in Nat
      BY <1>1, LicenseAssumption DEF TypeOK, Time
    <3> QED BY <1>3, <1>4, <3>1, <3>2
  <2> QED BY <1>2, <2>1, <2>2 DEF Inv, OriginInv
<1>6. \A q \in Procs : HoldsInv(q)'
  BY <1>1, <1>2, <1>4, WorldHolds
<1> QED BY <1>1, <1>4, <1>5, <1>6 DEF Inv

(* Every step keeps the invariant.                                          *)
LEMMA NextInv == Inv /\ [Next]_vars => Inv'
<1> SUFFICES ASSUME Inv, [Next]_vars PROVE Inv'
  OBVIOUS
<1>1. ASSUME NEW p \in Procs, Start(p) PROVE Inv'
  BY <1>1, StartInv
<1>2. ASSUME NEW p \in Procs, StartStep(p) PROVE Inv'
  BY <1>2, CheckInv, TruncateInv, FillInv DEF StartStep
<1>3. ASSUME NEW p \in Procs, Stop(p) PROVE Inv'
  BY <1>3, StopInv
<1>4. ASSUME NEW i \in Ids, Issue(i) PROVE Inv'
  BY <1>4, IssueInv
<1>5. ASSUME NEW i \in Ids, InstallToken(i) PROVE Inv'
  BY <1>5, InstallInv
<1>6. CASE SpoilToken \/ LoseGuard \/ (\E part \in Parts : SwapPart(part))
             \/ Tick \/ (\E d \in Backs : StepBack(d))
  BY <1>6, MachineInv
<1>7. CASE UNCHANGED vars
  BY <1>7 DEF vars, Inv, TypeOK, ClockInv, OriginInv, HoldsInv, Renewed,
              StateOf, Matches, GraceEnd, DaysUntilExpiry
<1> QED BY <1>1, <1>2, <1>3, <1>4, <1>5, <1>6, <1>7 DEF Next

(* It holds in every reachable state.                                       *)
LEMMA AlwaysInv == Spec => []Inv
<1>1. Init => Inv
  BY InitInv
<1>2. Inv /\ [Next]_vars => Inv'
  BY NextInv
<1> QED BY <1>1, <1>2, PTL DEF Spec

(***************************************************************************)
(* Theorems                                                                *)
(***************************************************************************)

(* Licences, files and processes keep their types (the files and the module *)
(* state of clock_guard.py, verifier.py and enforcement.py).               *)
THEOREM TypeCorrect == Spec => []TypeOK
<1>1. Inv => TypeOK
  BY DEF Inv
<1> QED BY <1>1, AlwaysInv, PTL

(* No interleaving of starts and no kill in the middle of one refuses a    *)
(* machine whose clock was never set back beyond the threshold and whose   *)
(* licence was never replaced (clock_guard.py:60-92).                      *)
THEOREM RefusalHasCause == Spec => []RefusedForCause
<1>1. Inv => RefusedForCause
  BY DEF Inv, HoldsInv, RefusedForCause
<1> QED BY <1>1, AlwaysInv, PTL

(* A process has the terms of a licence exactly if it is not INVALID       *)
(* (enforcement.py:58-66).                                                 *)
THEOREM TermsFollowState == Spec => []NoTermsWhenInvalid
<1>1. Inv => NoTermsWhenInvalid
  <2> SUFFICES ASSUME Inv, NEW p \in Procs
               PROVE  proc[p].v.claims = None <=> proc[p].v.state = "invalid"
    BY DEF NoTermsWhenInvalid
  <2> DEFINE v == proc[p].v
  <2>1. v \in Verdict /\ HoldsInv(p)
    BY ProcTyped DEF Inv
  <2>2. CASE v.claims = None
    BY <2>1, <2>2 DEF HoldsInv
  <2>3. CASE v.claims # None
    <3>1. v.claims \in Claims /\ v.seen \in Fingerprint /\ v.at \in Time
      BY <2>1, <2>3 DEF Verdict
    <3>2. v.state = StateOf(v.claims, v.seen, v.at)
      BY <2>1, <2>3 DEF HoldsInv
    <3> QED BY <2>3, <3>1, <3>2, VerdictType
  <2> QED BY <2>2, <2>3
<1> QED BY <1>1, AlwaysInv, PTL

(* A later clock leaves no more whole days.                                *)
LEMMA DivMonotone ==
  ASSUME NEW a \in Nat, NEW b \in Nat, a <= b, NEW d \in Nat \ {0}
  PROVE  a \div d <= b \div d
  OBVIOUS

(* The severity of a licence on given hardware only grows with the clock   *)
(* (the order of the checks in verifier.py:62-90).                         *)
THEOREM SeverityMonotone ==
  ASSUME NEW c \in Claims, NEW f \in Fingerprint, NEW t \in Time, NEW u \in Time, t <= u
  PROVE  Severity[StateOf(c, f, t)] <= Severity[StateOf(c, f, u)]
<1>1. t \in Nat /\ u \in Nat /\ c.exp \in Nat /\ c.warn \in Nat
  BY LicenseAssumption DEF Time, Claims
<1>2. \A s \in LicenseState : Severity[s] \in 0 .. 5
  BY DEF LicenseState, Severity
<1>3. CASE ~Matches(c.fp, f)
  BY <1>3 DEF StateOf, Severity
<1>4. CASE Matches(c.fp, f) /\ u > GraceEnd(c)
  BY <1>4 DEF StateOf, Severity
<1>5. CASE Matches(c.fp, f) /\ ~(u > GraceEnd(c))
  <2>1. ~(t > GraceEnd(c))
    <3>1. GraceEnd(c) \in Int
      BY <1>1, LicenseAssumption DEF GraceEnd, Claims
    <3> QED BY <1>1, <1>5, <3>1
  <2>2. CASE c.exp < u
    BY <1>5, <2>1, <2>2 DEF StateOf, Severity
  <2>3. CASE ~(c.exp < u)
    <3>1. ~(c.exp < t) /\ t <= c.exp /\ u <= c.exp
      BY <1>1, <2>3
    <3>2. DaysUntilExpiry(c, u) <= DaysUntilExpiry(c, t)
      BY <1>1, <3>1, DivMonotone, LicenseAssumption DEF DaysUntilExpiry
    <3>3. DaysUntilExpiry(c, u) \in Int /\ DaysUntilExpiry(c, t) \in Int
      BY <1>1, <3>1, LicenseAssumption DEF DaysUntilExpiry
    <3>4. DaysUntilExpiry(c, t) <= c.warn => DaysUntilExpiry(c, u) <= c.warn
      BY <1>1, <3>2, <3>3
    <3> QED BY <1>5, <2>1, <2>3, <3>1, <3>4 DEF StateOf, Severity
  <2> QED BY <2>2, <2>3
<1> QED BY <1>3, <1>4, <1>5

(* Of two processes with the same licence and fingerprint, the one whose   *)
(* clock read later is at least as severe (verifier.py:4-10).              *)
THEOREM SeverityFollowsTime == Spec => []LaterStartIsNoMilder
<1>1. Inv => LaterStartIsNoMilder
  <2> SUFFICES ASSUME Inv, NEW p \in Procs, NEW q \in Procs,
                      proc[p].v.claims # None, proc[p].v.claims = proc[q].v.claims,
                      proc[p].v.seen = proc[q].v.seen, proc[p].v.at <= proc[q].v.at
               PROVE  Severity[proc[p].v.state] <= Severity[proc[q].v.state]
    BY DEF LaterStartIsNoMilder
  <2>1. /\ proc[p].v.claims \in Claims /\ proc[p].v.seen \in Fingerprint
        /\ proc[p].v.at \in Time /\ proc[q].v.at \in Time
    BY ProcTyped DEF Inv, Verdict
  <2>2. /\ proc[p].v.state = StateOf(proc[p].v.claims, proc[p].v.seen, proc[p].v.at)
        /\ proc[q].v.state = StateOf(proc[p].v.claims, proc[p].v.seen, proc[q].v.at)
    BY DEF Inv, HoldsInv
  <2> QED BY <2>1, <2>2, SeverityMonotone
<1> QED BY <1>1, AlwaysInv, PTL

=============================================================================
