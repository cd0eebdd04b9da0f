------------------------------ MODULE License ------------------------------
(***************************************************************************)
(* The offline licence of one installation.                                *)
(*                                                                         *)
(* The API and the pipeline each evaluate the token file once, when they   *)
(* start (enforcement.initialize), and keep the verdict for as long as     *)
(* they run.  Both check the clock against one guard file, which they read *)
(* and then rewrite without a lock.  Around them the operator installs     *)
(* tokens, hardware is replaced and the clock is corrected.                *)
(***************************************************************************)
EXTENDS Integers, FiniteSets

CONSTANTS
  Procs,       \* processes that call initialize
  Ids,         \* licence ids, a pool of uuid4 values
  Parts,       \* motherboard, cpu, disk, mac
  Serials,     \* what a part may identify itself as
  Unknown,     \* the identifier of a part whose tool gave no answer
  Quorum,      \* parts that must agree
  Terms,       \* the [days, grace, warn] a licence may be sold with
  DayLen,      \* clock units in a day
  Threshold,   \* ROLLBACK_THRESHOLD_S in clock units
  Backs,       \* how far the clock may be set back at once
  ToolsFail,   \* whether reading a part may give no answer
  None, Torn,  \* no file; a file that does not parse
  MaxTime      \* bound on the clock

VARIABLES
  lic,     \* licences the vendor has issued: id -> claims, or None
  token,   \* the token file of the installation
  guard,   \* the clock guard file
  hw,      \* what each part of the machine identifies itself as
  now,     \* wall clock
  proc,    \* each process: where it is in initialize, and its verdict
  (* observations *)
  installed,  \* ids of the tokens the operator ever put in place
  peak,       \* the furthest the clock has been
  jumped      \* the clock was set back by more than the threshold

vars == <<lic, token, guard, hw, now, proc, installed, peak, jumped>>
world == <<lic, token, hw, now, installed, peak, jumped>>

Time == 0 .. MaxTime

Fingerprint == [Parts -> Serials \cup {Unknown}]

Claims == [id: Ids, fp: Fingerprint, exp: Nat, grace: Nat, warn: Nat]

Guard == [id: Ids, ts: Time]

LicenseState == {"valid", "warning", "grace", "expired", "hardware_mismatch", "invalid"}

(* enforcement._state, _claims and the kind of _message; with claims, also  *)
(* the clock and the fingerprint they were computed from                    *)
Verdict == [state: LicenseState, claims: Claims \cup {None},
            msg: {"terms", "no_token", "clock"}, at: Time, seen: Fingerprint]

ASSUME LicenseAssumption ==
  /\ \A t \in Terms : t.days \in Nat /\ t.grace \in Nat /\ t.warn \in Nat
  /\ DayLen \in Nat \ {0} /\ Threshold \in Nat /\ MaxTime \in Nat /\ Quorum \in Nat
  /\ Backs \subseteq Nat
  /\ IsFiniteSet(Parts)
  /\ ToolsFail \in BOOLEAN
  /\ None # Torn /\ {None, Torn} \cap (Claims \cup Guard) = {}

(* The singleton of a process that has not called initialize, or has found  *)
(* no token that verifies.                                                  *)
NotEvaluated == [state |-> "invalid", claims |-> None, msg |-> "no_token",
                 at |-> 0, seen |-> [p \in Parts |-> Unknown]]

Down == [pc |-> "down", v |-> NotEvaluated, ts |-> 0]

Steps == {"down", "check", "truncate", "fill", "up"}

(* ts: the clock the guard will be written with *)
ProcState == [pc: Steps, v: Verdict, ts: Time]

TypeOK ==
  /\ lic \in [Ids -> Claims \cup {None}]
  /\ token \in Claims \cup {None, Torn}
  /\ guard \in Guard \cup {None, Torn}
  /\ hw \in [Parts -> Serials]
  /\ now \in Time
  /\ proc \in [Procs -> ProcState]
  /\ installed \subseteq Ids
  /\ peak \in Time
  /\ jumped \in BOOLEAN

Init ==
  /\ lic = [i \in Ids |-> None]
  /\ token = None
  /\ guard = None
  /\ hw \in [Parts -> Serials]
  /\ now = 0
  /\ proc = [p \in Procs |-> Down]
  /\ installed = {}
  /\ peak = 0
  /\ jumped = FALSE

(***************************************************************************)
(* The terms of a licence (token.py, fingerprint.py, verifier.py)          *)
(***************************************************************************)

(* matches *)
Matches(fp, seen) == Cardinality({p \in Parts : fp[p] = seen[p]}) >= Quorum

(* days_until_expiry: int() rounds towards zero *)
DaysUntilExpiry(c, t) ==
  IF t <= c.exp THEN (c.exp - t) \div DayLen ELSE -((t - c.exp) \div DayLen)

GraceEnd(c) == c.exp + c.grace * DayLen

BugStateOfExactDay(c, seen, t) ==
  IF ~Matches(c.fp, seen) THEN "hardware_mismatch"
  ELSE IF t > GraceEnd(c) THEN "expired"
  ELSE IF c.exp < t THEN "grace"
  ELSE IF DaysUntilExpiry(c, t) = c.warn + 1 THEN "warning"
  ELSE "valid"

(* evaluate_state for a token that verifies: the first reason found counts  *)
StateOf(c, seen, t) ==
  IF ~Matches(c.fp, seen) THEN "hardware_mismatch"
  ELSE IF t > GraceEnd(c) THEN "expired"
  ELSE IF c.exp < t THEN "grace"
  ELSE IF DaysUntilExpiry(c, t) <= c.warn THEN "warning"
  ELSE "valid"

(* evaluate_state: no token, or one that does not verify, is INVALID        *)
Evaluate(tok, seen, t) ==
  IF tok \in {None, Torn} THEN NotEvaluated
  ELSE [state |-> StateOf(tok, seen, t), claims |-> tok, msg |-> "terms",
        at |-> t, seen |-> seen]

(* generate_fingerprint: a tool that fails or times out gives "unknown"     *)
Readings ==
  IF ToolsFail THEN {f \in Fingerprint : \A p \in Parts : f[p] \in {hw[p], Unknown}}
               ELSE {hw}

(***************************************************************************)
(* A process starts: initialize                                            *)
(***************************************************************************)

Goto(p, pc, v, ts) == proc' = [proc EXCEPT ![p] = [pc |-> pc, v |-> v, ts |-> ts]]

(* The clock is read, then the token, then the hardware.  Without claims    *)
(* there is no key for the guard and its check is skipped.                  *)
Start(p) ==
  /\ proc[p].pc = "down"
  /\ \E seen \in Readings :
       LET v == Evaluate(token, seen, now)
       IN Goto(p, IF v.claims = None THEN "up" ELSE "check", v, 0)
  /\ UNCHANGED <<world, guard>>

(* The verdict of a process whose clock check raised ClockTamperError. *)
Refused(v) == [NotEvaluated EXCEPT !.msg = "clock"]

BugCheckTornIsTamper(p) ==
  LET v == proc[p].v IN
  /\ proc[p].pc = "check"
  /\ IF guard = Torn \/ (guard # None /\ (guard.id # v.claims.id \/ guard.ts - now > Threshold))
       THEN Goto(p, "up", Refused(v), 0)
       ELSE Goto(p, "truncate", v, now)
  /\ UNCHANGED <<world, guard>>

(* check_and_update, the read: a guard signed for another licence id, or a  *)
(* clock too far behind it, refuses; a guard that is missing or does not    *)
(* parse is written anew.  The file is read right after the clock: nothing  *)
(* the size of the threshold happens in between.                            *)
Check(p) ==
  LET v == proc[p].v IN
  /\ proc[p].pc = "check"
  /\ IF guard \notin {None, Torn} /\ (guard.id # v.claims.id \/ guard.ts - now > Threshold)
       THEN Goto(p, "up", Refused(v), 0)
       ELSE Goto(p, "truncate", v, now)
  /\ UNCHANGED <<world, guard>>

(* check_and_update, the write: write_bytes opens the file, which empties   *)
(* it; an OSError is logged and skipped                                     *)
Truncate(p) ==
  /\ proc[p].pc = "truncate"
  /\ \/ guard' = Torn /\ Goto(p, "fill", proc[p].v, proc[p].ts)
     \/ guard' = guard /\ Goto(p, "up", proc[p].v, 0)
  /\ UNCHANGED world

BugFillWritesExpiry(p) ==
  /\ proc[p].pc = "fill"
  /\ guard' = [id |-> proc[p].v.claims.id, ts |-> proc[p].v.claims.exp]
  /\ Goto(p, "up", proc[p].v, 0)
  /\ UNCHANGED world

(* ... and puts the signed timestamp there.  Over what another process      *)
(* wrote since, the tail of a longer record may stay and spoil the file.    *)
Fill(p) ==
  /\ proc[p].pc = "fill"
  /\ \/ guard' = [id |-> proc[p].v.claims.id, ts |-> proc[p].ts]
     \/ guard' = Torn
  /\ Goto(p, "up", proc[p].v, 0)
  /\ UNCHANGED world

(* A process stops, or is killed wherever it is.                            *)
Stop(p) ==
  /\ proc[p].pc # "down"
  /\ proc' = [proc EXCEPT ![p] = Down]
  /\ UNCHANGED <<world, guard>>

(***************************************************************************)
(* The vendor, the operator and the machine                                *)
(***************************************************************************)

(* cli.issue: a new id, the fingerprint the client's machine reported       *)
Issue(i) ==
  /\ lic[i] = None
  /\ \E fp \in Readings, t \in Terms :
       lic' = [lic EXCEPT ![i] =
                 [id |-> i, fp |-> fp, exp |-> now + t.days * DayLen,
                  grace |-> t.grace, warn |-> t.warn]]
  /\ UNCHANGED <<token, guard, hw, now, proc, installed, peak, jumped>>

(* The operator copies a token to LICENSE_TOKEN_PATH. *)
InstallToken(i) ==
  /\ lic[i] # None /\ token # lic[i]
  /\ token' = lic[i]
  /\ installed' = installed \cup {i}
  /\ UNCHANGED <<lic, guard, hw, now, proc, peak, jumped>>

(* The token file is lost or damaged. *)
SpoilToken ==
  /\ token \notin {None, Torn}
  /\ token' \in {None, Torn}
  /\ UNCHANGED <<lic, guard, hw, now, proc, installed, peak, jumped>>

(* The guard file goes with the container it lives in.                      *)
LoseGuard ==
  /\ guard # None
  /\ guard' = None
  /\ UNCHANGED <<world, proc>>

SwapPart(part) ==
  /\ hw' \in {[hw EXCEPT ![part] = s] : s \in Serials \ {hw[part]}}
  /\ UNCHANGED <<lic, token, guard, now, proc, installed, peak, jumped>>

Tick ==
  /\ now < MaxTime
  /\ now' = now + 1
  /\ peak' = IF now' > peak THEN now' ELSE peak
  /\ UNCHANGED <<lic, token, guard, hw, proc, installed, jumped>>

(* The clock is corrected backwards, by NTP or by hand. *)
StepBack(d) ==
  /\ 0 < d /\ d <= now
  /\ now' = now - d
  /\ jumped' = (jumped \/ peak - now' > Threshold)
  /\ UNCHANGED <<lic, token, guard, hw, proc, installed, peak>>

StartStep(p) == Check(p) \/ Truncate(p) \/ Fill(p)

Next ==
  \/ \E p \in Procs : Start(p) \/ StartStep(p) \/ Stop(p)
  \/ \E i \in Ids : Issue(i) \/ InstallToken(i)
  \/ SpoilToken
  \/ LoseGuard
  \/ \E part \in Parts : SwapPart(part)
  \/ Tick
  \/ \E d \in Backs : StepBack(d)

Spec == Init /\ [][Next]_vars

(***************************************************************************)
(* Properties                                                              *)
(***************************************************************************)

Renewed == \E i, j \in installed : i # j

(* A machine whose clock was never set back by more than the threshold, and *)
(* that has only ever had one licence, is never refused for its clock:      *)
(* neither processes that rewrite the guard at the same time, nor one that  *)
(* is killed between emptying and filling it, nor a lost guard can do that  *)
(* (clock_guard.py:60-92, "preventing false positives").                    *)
RefusedForCause ==
  \A p \in Procs : proc[p].v.msg = "clock" => jumped \/ Renewed

(* Of two processes that saw the same licence on the same hardware, the one *)
(* whose clock read later holds no milder a state: the dashboard of an API  *)
(* that started last never shows a better licence than the pipeline acts on *)
(* ("ordered by severity", verifier.py:4-10).                               *)
Severity == [valid |-> 0, warning |-> 1, grace |-> 2, expired |-> 3,
             hardware_mismatch |-> 4, invalid |-> 5]

LaterStartIsNoMilder ==
  \A p, q \in Procs :
    LET u == proc[p].v  w == proc[q].v IN
    (u.claims # None /\ u.claims = w.claims /\ u.seen = w.seen /\ u.at <= w.at)
      => Severity[u.state] <= Severity[w.state]

(* A process has the terms of a licence, its camera limit and its features, *)
(* exactly if it is not INVALID: a refusal by the clock takes back what the *)
(* evaluation had granted (enforcement.py:58-66).                           *)
NoTermsWhenInvalid ==
  \A p \in Procs : proc[p].v.claims = None <=> proc[p].v.state = "invalid"

(* "the guard resets automatically when a new license is issued"            *)
(* (clock_guard.py:8-9): only a clock that was set back is refused.         *)
RenewalIsAccepted == \A p \in Procs : proc[p].v.msg = "clock" => jumped
=============================================================================
