--------------------------- MODULE ParkingSession ---------------------------
(***************************************************************************)
(* The parking-session lifecycle of one site.                              *)
(*                                                                         *)
(* Three parties write a session row: the entry and exit camera threads of *)
(* the pipeline process (parking_session.py) and the operator's requests   *)
(* to the API process (routers/parking.py).  They agree on which session a *)
(* plate has open through one Redis key per plate, which only the pipeline *)
(* reads and writes; the row itself lives in PostgreSQL.  No lock spans    *)
(* the two stores, so every call that touches one of them is a step.       *)
(***************************************************************************)
EXTENDS Integers, FiniteSets

CONSTANTS
  EntryCams,    \* cameras with role parking_entry, one pipeline thread each
  ExitCams,     \* cameras with role parking_exit
  Plates,       \* plate texts after _normalise
  Sids,         \* session ids, a pool of uuid4 values
  Tariffs,      \* the rules_json values a tariff of the site may hold
  NoTariff,     \* no active tariff
  None,         \* a NULL column, an absent key
  Charge(_, _), \* Charge(t, d): what rules t ask for d units of time
  DeskOps,      \* the operator requests of this instance
  CanCrash,     \* whether the pipeline process may be killed
  CallsFail,    \* whether a call to Redis or PostgreSQL may raise
  MaxTime,      \* bound on the clock
  KeyTTL        \* _OPEN_SESSION_TTL_S in clock units

Cams == EntryCams \cup ExitCams
Time == 0 .. MaxTime

VARIABLES
  row,     \* the parking_sessions table: session id -> row, or None
  key,     \* Redis parking:open:{site}:{plate}: plate -> key value, or None
  cam,     \* what each camera thread is doing with its current read
  desk,    \* the request the API event loop is executing
  tariff,  \* rules of the newest active tariff, or NoTariff
  siteUp,  \* FALSE once the site, and by cascade its rows, are deleted
  now      \* wall clock

vars == <<row, key, cam, desk, tariff, siteUp, now>>

(* A row's exit event is identified by the camera and the time that made it. *)
ExitEvent == ExitCams \X Time

Row == [plate: Plates, entryTs: Time,
        exitEv: ExitEvent \cup {None}, dur: Time \cup {None},
        snap: Tariffs \cup {NoTariff, None}, amount: Nat \cup {None},
        pay: {"pending", "paid", "waived"}]

KeyValue == [sid: Sids, entry: Time, exp: Nat]

ASSUME ParkingAssumption ==
  /\ EntryCams \cap ExitCams = {}
  /\ MaxTime \in Nat
  /\ KeyTTL \in Nat \ {0}
  /\ CanCrash \in BOOLEAN
  /\ CallsFail \in BOOLEAN
  /\ DeskOps \subseteq {"close", "paid", "waive"}
  /\ NoTariff \notin Tariffs
  /\ \A d \in Time : Charge(NoTariff, d) = 0
  /\ \A t \in Tariffs, d \in Time : Charge(t, d) \in Nat

(* None is a value of its own *)
ASSUME NoneAssumption ==
  None \notin Sids \cup Tariffs \cup {NoTariff} \cup Int \cup ExitEvent \cup Row \cup KeyValue

Idle == [pc |-> "idle"]
Poisoned == [pc |-> "poisoned"]
Down == [pc |-> "down"]

ReadState == [pc: {"read", "checked"}, plate: Plates, ts: Time]
InsertedState == [pc: {"inserted"}, plate: Plates, sid: Sids]
FetchedState == [pc: {"fetched"}, plate: Plates, ts: Time, sid: Sids, entry: Time]
LoadedState == [pc: {"loaded"}, plate: Plates, sid: Sids, seen: Row, new: Row]
ClosedState == [pc: {"closed"}, plate: Plates, sid: Sids]

CamState == {Idle, Poisoned, Down} \cup ReadState \cup InsertedState
              \cup FetchedState \cup LoadedState \cup ClosedState

DeskState == {Idle} \cup [pc: DeskOps, sid: Sids, seen: Row, new: Row]

TypeOK ==
  /\ row \in [Sids -> Row \cup {None}]
  /\ key \in [Plates -> KeyValue \cup {None}]
  /\ cam \in [Cams -> CamState]
  /\ desk \in DeskState
  /\ tariff \in Tariffs \cup {NoTariff}
  /\ siteUp \in BOOLEAN
  /\ now \in Time

Init ==
  /\ row = [s \in Sids |-> None]
  /\ key = [p \in Plates |-> None]
  /\ cam = [c \in Cams |-> Idle]
  /\ desk = Idle
  /\ tariff \in Tariffs \cup {NoTariff}
  /\ siteUp = TRUE
  /\ now = 0

(***************************************************************************)
(* Helpers                                                                 *)
(***************************************************************************)

(* Definitions whose name starts with Bug are variants of the definition    *)
(* that follows them with one plausible mistake; no specification uses them. *)

BugMergeWholeRow(current, seen, new) == new

(* The UPDATE the ORM emits for an object loaded as seen and assigned new:  *)
(* only columns whose value changed are written over the current row.       *)
Merge(current, seen, new) ==
  [f \in DOMAIN current |-> IF new[f] # seen[f] THEN new[f] ELSE current[f]]

BugBillNoSnapshot(r, d, t) == [r EXCEPT !.dur = d, !.amount = Charge(t, d)]

(* Duration, tariff snapshot and charge are always assigned together.       *)
Bill(r, d, t) ==
  [r EXCEPT !.dur = d,
            !.snap = IF t = NoTariff THEN None ELSE t,
            !.amount = Charge(t, d)]

Goto(c, state) == cam' = [cam EXCEPT ![c] = state]

(* uuid4 never repeats an id, stored or about to be stored. *)
FreshSids == {s \in Sids : row[s] = None}

(***************************************************************************)
(* A camera thread takes one read through on_plate_read.  The event of the *)
(* read is committed just before; with the site gone that insert fails.    *)
(***************************************************************************)

ReadPlate(c, p) ==
  /\ cam[c].pc = "idle"
  /\ siteUp
  /\ c \in EntryCams => FreshSids # {}       \* bound: the id pool
  /\ Goto(c, [pc |-> "read", plate |-> p, ts |-> now])
  /\ UNCHANGED <<row, key, desk, tariff, siteUp, now>>

BugOpenCheckSkipped(c) ==
  /\ c \in EntryCams /\ cam[c].pc = "read"
  /\ Goto(c, [cam[c] EXCEPT !.pc = "checked"])
  /\ UNCHANGED <<row, key, desk, tariff, siteUp, now>>

BugOpenCheckReserves(c) ==
  /\ c \in EntryCams /\ cam[c].pc = "read"
  /\ key[cam[c].plate] = None
  /\ \E s \in FreshSids :
       key' = [key EXCEPT ![cam[c].plate] = [sid |-> s, entry |-> now, exp |-> now + KeyTTL]]
  /\ Goto(c, [cam[c] EXCEPT !.pc = "checked"])
  /\ UNCHANGED <<row, desk, tariff, siteUp, now>>

(* _open_session: the guard, r.exists *)
OpenCheck(c) ==
  /\ c \in EntryCams /\ cam[c].pc = "read"
  /\ Goto(c, IF key[cam[c].plate] # None THEN Idle
             ELSE [cam[c] EXCEPT !.pc = "checked"])
  /\ UNCHANGED <<row, key, desk, tariff, siteUp, now>>

Inserted(c, s) ==
  [row EXCEPT ![s] = [plate |-> cam[c].plate, entryTs |-> cam[c].ts, exitEv |-> None,
                      dur |-> None, snap |-> None, amount |-> None, pay |-> "pending"]]

(* _open_session: db.add and db.commit.  A foreign key on a deleted site    *)
(* fails the flush; nobody rolls the thread's session back.                 *)
OpenCommit(c, s) ==
  /\ c \in EntryCams /\ cam[c].pc = "checked"
  /\ s \in FreshSids
  /\ IF siteUp
       THEN /\ row' = Inserted(c, s)
            /\ Goto(c, [pc |-> "inserted", plate |-> cam[c].plate, sid |-> s])
       ELSE /\ Goto(c, Poisoned)
            /\ UNCHANGED row
  /\ UNCHANGED <<key, desk, tariff, siteUp, now>>

BugOpenStoreShortTTL(c) ==
  /\ c \in EntryCams /\ cam[c].pc = "inserted"
  /\ key' = [key EXCEPT ![cam[c].plate] =
               [sid |-> cam[c].sid, entry |-> now, exp |-> now + 1]]
  /\ Goto(c, Idle)
  /\ UNCHANGED <<row, desk, tariff, siteUp, now>>

(* _open_session: r.setex, unconditional *)
OpenStore(c) ==
  /\ c \in EntryCams /\ cam[c].pc = "inserted"
  /\ key' = [key EXCEPT ![cam[c].plate] =
               [sid |-> cam[c].sid, entry |-> now, exp |-> now + KeyTTL]]
  /\ Goto(c, Idle)
  /\ UNCHANGED <<row, desk, tariff, siteUp, now>>

BugCloseFetchPops(c) ==
  /\ c \in ExitCams /\ cam[c].pc = "read"
  /\ LET k == key[cam[c].plate] IN
     Goto(c, IF k = None THEN Idle
             ELSE [pc |-> "fetched", plate |-> cam[c].plate, ts |-> cam[c].ts,
                   sid |-> k.sid, entry |-> k.entry])
  /\ key' = [key EXCEPT ![cam[c].plate] = None]
  /\ UNCHANGED <<row, desk, tariff, siteUp, now>>

(* _close_session: r.get; an exit with no open session is only logged *)
CloseFetch(c) ==
  /\ c \in ExitCams /\ cam[c].pc = "read"
  /\ LET k == key[cam[c].plate] IN
     Goto(c, IF k = None THEN Idle
             ELSE [pc |-> "fetched", plate |-> cam[c].plate, ts |-> cam[c].ts,
                   sid |-> k.sid, entry |-> k.entry])
  /\ UNCHANGED <<row, key, desk, tariff, siteUp, now>>

BugCloseMissingBilled(c) ==
  /\ c \in ExitCams /\ cam[c].pc = "fetched"
  /\ row[cam[c].sid] # None => row[cam[c].sid].dur # None
  /\ key' = [key EXCEPT ![cam[c].plate] = None]
  /\ Goto(c, Idle)
  /\ UNCHANGED <<row, desk, tariff, siteUp, now>>

(* _close_session: db.get finds no row, the key is dropped *)
CloseMissing(c) ==
  /\ c \in ExitCams /\ cam[c].pc = "fetched"
  /\ row[cam[c].sid] = None
  /\ key' = [key EXCEPT ![cam[c].plate] = None]
  /\ Goto(c, Idle)
  /\ UNCHANGED <<row, desk, tariff, siteUp, now>>

BugCloseLoadNegative(c) ==
  /\ c \in ExitCams /\ cam[c].pc = "fetched"
  /\ LET r == row[cam[c].sid]
         d == cam[c].entry - now
     IN /\ r # None
        /\ Goto(c, [pc |-> "loaded", plate |-> cam[c].plate,
                    sid |-> cam[c].sid, seen |-> r,
                    new |-> [Bill(r, d, tariff) EXCEPT !.exitEv = <<c, cam[c].ts>>]])
  /\ UNCHANGED <<row, key, desk, tariff, siteUp, now>>

(* _close_session: db.get, the duration since the key's entry_ts, the tariff *)
CloseLoad(c) ==
  /\ c \in ExitCams /\ cam[c].pc = "fetched"
  /\ LET r == row[cam[c].sid]
         d == now - cam[c].entry
     IN /\ r # None
        /\ Goto(c, [pc |-> "loaded", plate |-> cam[c].plate,
                    sid |-> cam[c].sid, seen |-> r,
                    new |-> [Bill(r, d, tariff) EXCEPT !.exitEv = <<c, cam[c].ts>>]])
  /\ UNCHANGED <<row, key, desk, tariff, siteUp, now>>

Updated(c) == [row EXCEPT ![cam[c].sid] = Merge(@, cam[c].seen, cam[c].new)]

(* _close_session: db.commit.  An UPDATE that matches no row fails the flush. *)
CloseCommit(c) ==
  /\ c \in ExitCams /\ cam[c].pc = "loaded"
  /\ IF row[cam[c].sid] # None
       THEN /\ row' = Updated(c)
            /\ Goto(c, [pc |-> "closed", plate |-> cam[c].plate, sid |-> cam[c].sid])
       ELSE /\ Goto(c, Poisoned)
            /\ UNCHANGED row
  /\ UNCHANGED <<key, desk, tariff, siteUp, now>>

BugCloseDeleteForgotten(c) ==
  /\ c \in ExitCams /\ cam[c].pc = "closed"
  /\ Goto(c, Idle)
  /\ UNCHANGED <<row, key, desk, tariff, siteUp, now>>

(* _close_session: r.delete, whatever the key holds by now *)
CloseDelete(c) ==
  /\ c \in ExitCams /\ cam[c].pc = "closed"
  /\ key' = [key EXCEPT ![cam[c].plate] = None]
  /\ Goto(c, Idle)
  /\ UNCHANGED <<row, desk, tariff, siteUp, now>>

(* A call to Redis raises, or the id of the row just committed, expired by  *)
(* that commit, is read back and the row is gone.  main.py:122 swallows     *)
(* either: the rest of the read is dropped and the thread takes the next.   *)
(* (A command Redis ran before its answer was lost is the action itself.)   *)
RedisFails(c) ==
  /\ \/ CallsFail /\ cam[c].pc \in {"read", "inserted", "closed"}
     \/ CallsFail /\ cam[c].pc = "fetched" /\ row[cam[c].sid] = None
     \/ cam[c].pc = "inserted" /\ row[cam[c].sid] = None
  /\ Goto(c, Idle)
  /\ UNCHANGED <<row, key, desk, tariff, siteUp, now>>

(* A query or a commit raises, before PostgreSQL has committed or after.    *)
(* main.py:122 swallows it too, but nothing rolls the thread's session back *)
(* and every later use of it raises.                                        *)
DatabaseFails(c) ==
  /\ CallsFail
  /\ cam[c].pc \in {"checked", "inserted", "fetched", "loaded"}
  /\ Goto(c, Poisoned)
  /\ \/ UNCHANGED row
     \/ /\ c \in EntryCams /\ cam[c].pc = "checked" /\ siteUp
        /\ \E s \in FreshSids : row' = Inserted(c, s)
     \/ /\ c \in ExitCams /\ cam[c].pc = "loaded" /\ row[cam[c].sid] # None
        /\ row' = Updated(c)
  /\ UNCHANGED <<key, desk, tariff, siteUp, now>>

(***************************************************************************)
(* The operator's desk.  A handler holds the API's event loop from db.get  *)
(* to db.commit, so one request is in progress at a time; the pipeline is  *)
(* another process and runs in between.                                    *)
(***************************************************************************)

(* close_session, up to the commit: 409 if an exit event is set, duration   *)
(* since the entry event's timestamp                                        *)
DeskClose(s) ==
  /\ "close" \in DeskOps
  /\ desk = Idle
  /\ row[s] # None
  /\ row[s].exitEv = None
  /\ desk' = [pc |-> "close", sid |-> s, seen |-> row[s],
              new |-> Bill(row[s], now - row[s].entryTs, tariff)]
  /\ UNCHANGED <<row, key, cam, tariff, siteUp, now>>

(* mark_paid, up to the commit *)
DeskPaid(s) ==
  /\ "paid" \in DeskOps
  /\ desk = Idle
  /\ row[s] # None
  /\ desk' = [pc |-> "paid", sid |-> s, seen |-> row[s],
              new |-> [row[s] EXCEPT !.pay = "paid"]]
  /\ UNCHANGED <<row, key, cam, tariff, siteUp, now>>

(* waive_session, up to the commit *)
DeskWaive(s) ==
  /\ "waive" \in DeskOps
  /\ desk = Idle
  /\ row[s] # None
  /\ desk' = [pc |-> "waive", sid |-> s, seen |-> row[s],
              new |-> [row[s] EXCEPT !.pay = "waived", !.amount = 0]]
  /\ UNCHANGED <<row, key, cam, tariff, siteUp, now>>

(* the handler's db.commit; a row deleted meanwhile is a failed request *)
DeskCommit ==
  /\ desk # Idle
  /\ row' = IF row[desk.sid] = None THEN row
            ELSE [row EXCEPT ![desk.sid] = Merge(@, desk.seen, desk.new)]
  /\ desk' = Idle
  /\ UNCHANGED <<key, cam, tariff, siteUp, now>>

(* the handler's db.commit raises, or the request is cancelled before it: a *)
(* session of its own, closed with the request                              *)
DeskFails ==
  /\ CallsFail
  /\ desk # Idle
  /\ desk' = Idle
  /\ UNCHANGED <<row, key, cam, tariff, siteUp, now>>

(***************************************************************************)
(* The rest of the site                                                    *)
(***************************************************************************)

(* create_tariff, patch_tariff, delete_tariff change the newest active one *)
TariffChange(t) ==
  /\ siteUp
  /\ tariff # t
  /\ tariff' = t
  /\ UNCHANGED <<row, key, cam, desk, siteUp, now>>

(* A superuser deletes the site in the Django panel, which issues a plain   *)
(* DELETE: ON DELETE CASCADE takes the sessions and the tariffs, the Redis  *)
(* keys stay.  (delete_site of the API, sites.py:120-128, goes through the  *)
(* ORM, which first sets the site_id of its cameras to NULL; the column is   *)
(* NOT NULL, so a site that has cameras is refused there.)                  *)
DeleteSite ==
  /\ siteUp
  /\ siteUp' = FALSE
  /\ row' = [s \in Sids |-> None]
  /\ tariff' = NoTariff
  /\ UNCHANGED <<key, cam, desk, now>>

(* The pipeline process is killed: every thread's progress is lost, the     *)
(* stores keep what was written.                                            *)
Crash ==
  /\ CanCrash
  /\ \E c \in Cams : cam[c] \notin {Idle, Down}
  /\ cam' = [c \in Cams |-> Down]
  /\ UNCHANGED <<row, key, desk, tariff, siteUp, now>>

(* ... and started again, one fresh thread per camera.                      *)
Restart ==
  /\ cam = [c \in Cams |-> Down]
  /\ cam' = [c \in Cams |-> Idle]
  /\ UNCHANGED <<row, key, desk, tariff, siteUp, now>>

(* Time passes; Redis drops keys whose TTL has run out. *)
Tick ==
  /\ now < MaxTime
  /\ now' = now + 1
  /\ key' = [p \in Plates |->
               IF key[p] # None /\ key[p].exp <= now' THEN None ELSE key[p]]
  /\ UNCHANGED <<row, cam, desk, tariff, siteUp>>

CameraStep(c) ==
  \/ OpenCheck(c)
  \/ \E s \in Sids : OpenCommit(c, s)
  \/ OpenStore(c)
  \/ CloseFetch(c)
  \/ CloseMissing(c)
  \/ CloseLoad(c)
  \/ CloseCommit(c)
  \/ CloseDelete(c)

Next ==
  \/ \E c \in Cams, p \in Plates : ReadPlate(c, p)
  \/ \E c \in Cams : CameraStep(c) \/ RedisFails(c) \/ DatabaseFails(c)
  \/ \E s \in Sids : DeskClose(s) \/ DeskPaid(s) \/ DeskWaive(s)
  \/ DeskCommit
  \/ DeskFails
  \/ \E t \in Tariffs \cup {NoTariff} : TariffChange(t)
  \/ DeleteSite
  \/ Crash
  \/ Restart
  \/ Tick

Spec == Init /\ [][Next]_vars

(* A thread that has a read finishes it: nothing in on_plate_read waits for *)
(* anybody.  The API likewise runs a request it has begun to its commit.    *)
Fairness ==
  /\ \A c \in Cams : WF_vars(CameraStep(c))
  /\ WF_vars(DeskCommit)

FairSpec == Spec /\ Fairness

(***************************************************************************)
(* Properties                                                              *)
(***************************************************************************)

IsOpen(s) == row[s] # None /\ row[s].exitEv = None

OpenSids(p) == {s \in Sids : IsOpen(s) /\ row[s].plate = p}

(* One lane in, one lane out, no crash, no call that raises, and no key     *)
(* outliving its TTL within the bound: the deployment the two-store         *)
(* protocol is written for.                                                 *)
SingleLane ==
  /\ \A c, d \in EntryCams : c = d
  /\ \A c, d \in ExitCams : c = d
  /\ ~CanCrash
  /\ ~CallsFail
  /\ MaxTime < KeyTTL

(* A Redis key never names a session of another plate, nor one that was     *)
(* never committed: once set it leads to a row of its own plate or, after   *)
(* the cascade of a site deletion, to no row.  Holds through crashes, key   *)
(* expiry and any number of lanes because the row is committed before the   *)
(* key is set (parking_session.py:118,121).                                 *)
KeyNamesOwnSession ==
  \A p \in Plates : key[p] # None =>
    IF siteUp THEN row[key[p].sid] # None /\ row[key[p].sid].plate = p
              ELSE row[key[p].sid] = None

(* A plate is in the car park at most once: no two of its sessions lack an  *)
(* exit event (the exists guard of _open_session, parking_session.py:103).  *)
AtMostOneOpenStay ==
  \A p \in Plates : \A s, t \in OpenSids(p) : s = t

(* No open session is out of the exit camera's reach: the plate's key names *)
(* it, or the entry thread that inserted it is about to set the key.        *)
OpenStayIsTracked ==
  \A s \in Sids : IsOpen(s) =>
    \/ key[row[s].plate] # None /\ key[row[s].plate].sid = s
    \/ \E c \in EntryCams : cam[c].pc = "inserted" /\ cam[c].sid = s

(* The open stays of the rows and the keys are one and the same: what the   *)
(* entry guard promises and what the exit camera relies on.                 *)
OneReachableStay == AtMostOneOpenStay /\ OpenStayIsTracked

(* The inductive invariant behind the two properties above, for SingleLane: *)
(* what the two lanes know of each other through the key alone.             *)
InHands(c, pcs) == cam[c].pc \in pcs

KeysOutlast == \A p \in Plates : key[p] # None => key[p].exp > MaxTime

EntrySide ==
  \A c \in EntryCams :
    /\ ~InHands(c, {"fetched", "loaded", "closed"})
    /\ InHands(c, {"checked", "inserted"}) => key[cam[c].plate] = None
    /\ (InHands(c, {"inserted"}) /\ siteUp) => IsOpen(cam[c].sid)

ExitSide ==
  \A x \in ExitCams :
    /\ ~InHands(x, {"checked", "inserted"})
    /\ InHands(x, {"fetched", "loaded", "closed"}) =>
         key[cam[x].plate] # None /\ key[cam[x].plate].sid = cam[x].sid
    /\ InHands(x, {"loaded"}) => cam[x].seen.exitEv = None /\ cam[x].new.exitEv # None
    /\ InHands(x, {"closed"}) => ~IsOpen(cam[x].sid)

KeyedIsOpen ==
  \A p \in Plates : (key[p] # None /\ siteUp) =>
    \/ IsOpen(key[p].sid)
    \/ \E x \in ExitCams : InHands(x, {"closed"}) /\ cam[x].plate = p

DeskKeepsExit == desk # Idle => desk.new.exitEv = desk.seen.exitEv

LaneInv ==
  KeysOutlast /\ EntrySide /\ ExitSide /\ KeyedIsOpen /\ DeskKeepsExit /\ OpenStayIsTracked

(* An exit read is dropped for want of a key only if no session of the      *)
(* plate is open, or the entry of that very moment is still being recorded  *)
(* (the early return at parking_session.py:149-151).                        *)
ExitReadNotLost ==
  [][\A c \in ExitCams :
       (cam[c].pc = "read" /\ cam'[c] = Idle) =>
         \A s \in OpenSids(cam[c].plate) :
           \E e \in EntryCams : cam[e].pc = "inserted" /\ cam[e].sid = s]_vars

(* A session that has an exit event keeps one: neither a late commit of the *)
(* desk nor of a second exit camera reopens it, although both write over a  *)
(* row they loaded while it was open.                                       *)
ClosedStaysClosed ==
  [][\A s \in Sids : (row[s] # None /\ ~IsOpen(s) /\ row'[s] # None)
                        => row'[s].exitEv # None]_vars

(* The charge of a session the pipeline or the desk has billed is the       *)
(* charge of the stored duration under the stored snapshot, unless it was   *)
(* waived.  The three columns are written by one UPDATE, but only the ones  *)
(* that changed since the writer's SELECT.                                  *)
BillMatchesDuration ==
  \A s \in Sids : (row[s] # None /\ row[s].dur # None /\ row[s].pay # "waived") =>
    row[s].amount =
      Charge(IF row[s].snap = None THEN NoTariff ELSE row[s].snap, row[s].dur)

(* Of two sessions billed under the same tariff snapshot, waived ones       *)
(* apart, the longer one costs at least as much: the tiers, the grace       *)
(* period and the daily cap never make it pay to be billed later            *)
(* (parking_session.py:42-73).                                              *)
LongerStayCostsNoLess ==
  LET Billed(s) == row[s] # None /\ row[s].dur # None /\ row[s].pay # "waived" IN
  \A s, t \in Sids :
    (Billed(s) /\ Billed(t) /\ row[s].snap = row[t].snap /\ row[s].dur <= row[t].dur)
      => row[s].amount <= row[t].amount

(* A stored bill is the charge of its own columns, and a longer stay's is   *)
(* not the smaller one.                                                     *)
BillsAreRight == BillMatchesDuration /\ LongerStayCostsNoLess

(* A payment or a waiver at the desk is not undone by an exit camera that   *)
(* loaded the session before it (writes of both overlap, parking.py:214 against    *)
(* parking_session.py:179-183).                                             *)
PaymentNotLost ==
  [][\A s \in Sids : (row[s] # None /\ row[s].pay # "pending" /\ row'[s] # None)
                        => row'[s].pay # "pending"]_vars

(* Neither a late camera nor a late request takes back what the other has   *)
(* decided about a row both have loaded.                                    *)
DecisionsStand == ClosedStaysClosed /\ PaymentNotLost

(* POST /waive waives the charge: a waived session owes nothing.            *)
WaivedOwesNothing ==
  \A s \in Sids : (row[s] # None /\ row[s].pay = "waived") => row[s].amount = 0

(* POST /close closes an open session: the response leaves it out of the    *)
(* open ones (list_active filters on the exit event).                       *)
DeskCloseEndsStay ==
  [][\A s \in Sids :
       (desk # Idle /\ desk.pc = "close" /\ desk.sid = s /\ desk' = Idle)
         => ~(row'[s] # None /\ row'[s].exitEv = None)]_vars

(* Every read a thread takes is finished, whatever the others do: the       *)
(* thread gets back to its frames or is stuck on a failed transaction.      *)
ReadsAreFinished ==
  \A c \in Cams : cam[c].pc = "read" ~> cam[c].pc \in {"idle", "poisoned", "down"}

(* An exit read that found an open session never gets back to its frames    *)
(* with that session open: a thread that could not close it is stuck or     *)
(* dead.  The desk and the other lanes write the same row between its       *)
(* SELECT, its UPDATE and its DELETE (parking_session.py:148-185).          *)
ExitEndsClosed ==
  [][\A x \in ExitCams :
       (InHands(x, {"fetched", "loaded", "closed"}) /\ cam'[x] = Idle /\ siteUp')
         => row'[cam[x].sid] # None /\ row'[cam[x].sid].exitEv # None]_vars

(* An exit read that found an open session ends with the session closed and *)
(* its key released, unless the site disappears, PostgreSQL fails the       *)
(* thread or the process is killed.  Where calls may raise the key may      *)
(* stay, since a failing DELETE (parking_session.py:185) leaves it.         *)
ExitClosesSession ==
  \A c \in ExitCams, p \in Plates, s \in Sids :
    (cam[c].pc = "fetched" /\ cam[c].plate = p /\ cam[c].sid = s)
      ~> \/ ~siteUp
         \/ cam[c].pc \in {"poisoned", "down"}
         \/ /\ row[s] # None /\ ~IsOpen(s)
            /\ CallsFail \/ key[p] = None \/ key[p].sid # s

(***************************************************************************)
(* What the component promises: a ledger of stays.                         *)
(***************************************************************************)

OpenLedger == [p \in Plates |-> OpenSids(p)]

DoneLedger == [p \in Plates |-> {s \in Sids : row[s] # None /\ ~IsOpen(s) /\ row[s].plate = p}]

Ledger == INSTANCE ParkingLedger WITH open <- OpenLedger, done <- DoneLedger

(* With one lane each way the two stores together behave as the ledger.     *)
ImplementsLedger == Ledger!LedgerSpec
=============================================================================
