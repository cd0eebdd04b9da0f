----------------------- MODULE ParkingSession_proofs -----------------------
(***************************************************************************)
(* Proofs about ParkingSession for every set of cameras, plates, sessions  *)
(* and tariffs, every clock bound and every TTL, and about the charge of   *)
(* Tariff for every rules and duration.                                    *)
(***************************************************************************)
EXTENDS ParkingSession, Tariff, FiniteSetTheorems, WellFoundedInduction, TLAPS

USE DEF Inserted, Updated

(* No stored time lies in the future, so every duration is a Time.          *)
Past ==
  /\ \A p \in Plates : key[p] # None => key[p].entry <= now
  /\ \A s \in Sids : row[s] # None => row[s].entryTs <= now
  /\ \A c \in Cams : cam[c].pc = "fetched" => cam[c].entry <= now
  /\ \A c \in Cams : cam[c].pc \in {"read", "checked"} => cam[c].ts <= now

(* A writer's assignments leave the plate and the entry of its row alone.   *)
Keeps(seen, new) == new.plate = seen.plate /\ new.entryTs = seen.entryTs

WritersKeep ==
  /\ \A c \in Cams : cam[c].pc = "loaded" => Keeps(cam[c].seen, cam[c].new)
  /\ desk # Idle => Keeps(desk.seen, desk.new)

TypeInv == TypeOK /\ Past /\ WritersKeep

(* What a thread's program counter says about the rest of its state.        *)
LEMMA CamShape ==
  ASSUME NEW x \in CamState
  PROVE  /\ x.pc \in {"read", "checked"} => x \in ReadState
         /\ x.pc = "inserted" => x \in InsertedState
         /\ x.pc = "fetched" => x \in FetchedState
         /\ x.pc = "loaded" => x \in LoadedState
         /\ x.pc = "closed" => x \in ClosedState
  BY DEF CamState, Idle, Poisoned, Down, ReadState, InsertedState, FetchedState,
         LoadedState, ClosedState

(* A request in progress holds a row and what it makes of it.               *)
LEMMA DeskShape ==
  ASSUME TypeOK, desk # Idle
  PROVE  desk \in [pc: DeskOps, sid: Sids, seen: Row, new: Row]
  BY DEF TypeOK, DeskState

(* Billing a row with a non-negative duration within the bound gives a row. *)
LEMMA BillType ==
  ASSUME NEW r \in Row, NEW d \in Time, NEW t \in Tariffs \cup {NoTariff}
  PROVE  /\ Bill(r, d, t) \in Row
         /\ Bill(r, d, t).plate = r.plate
         /\ Bill(r, d, t).exitEv = r.exitEv
         /\ Bill(r, d, t).entryTs = r.entryTs
<1>1. Charge(t, d) \in Nat
  BY ParkingAssumption
<1>2. QED
  BY <1>1 DEF Bill, Row

(* The ORM's partial UPDATE writes a row over a row.                        *)
LEMMA MergeType ==
  ASSUME NEW a \in Row, NEW b \in Row, NEW c \in Row
  PROVE  /\ Merge(a, b, c) \in Row
         /\ Merge(a, b, c).exitEv = IF c.exitEv # b.exitEv THEN c.exitEv ELSE a.exitEv
         /\ Keeps(b, c) => Keeps(a, Merge(a, b, c))
<1>1. DOMAIN a = {"plate", "entryTs", "exitEv", "dur", "snap", "amount", "pay"}
  BY DEF Row
<1>2. Merge(a, b, c) = [plate |-> IF c.plate # b.plate THEN c.plate ELSE a.plate,
                        entryTs |-> IF c.entryTs # b.entryTs THEN c.entryTs ELSE a.entryTs,
                        exitEv |-> IF c.exitEv # b.exitEv THEN c.exitEv ELSE a.exitEv,
                        dur |-> IF c.dur # b.dur THEN c.dur ELSE a.dur,
                        snap |-> IF c.snap # b.snap THEN c.snap ELSE a.snap,
                        amount |-> IF c.amount # b.amount THEN c.amount ELSE a.amount,
                        pay |-> IF c.pay # b.pay THEN c.pay ELSE a.pay]
  BY <1>1 DEF Merge, Row
<1>3. QED
  BY <1>2 DEF Row, Keeps

(* A failing call to Redis ends the read and writes nothing.                *)
LEMMA RedisFailure ==
  ASSUME NEW c \in Cams, RedisFails(c)
  PROVE  /\ cam' = [cam EXCEPT ![c] = Idle]
         /\ UNCHANGED <<row, key, desk, tariff, siteUp, now>>
         /\ CallsFail \/ (cam[c].pc = "inserted" /\ row[cam[c].sid] = None)
  BY DEF RedisFails, Goto

(* A failing call to PostgreSQL ends the thread, with the row left alone or *)
(* inserted or updated all the same.                                        *)
LEMMA DatabaseFailure ==
  ASSUME TypeInv, NEW c \in Cams, DatabaseFails(c)
  PROVE  /\ CallsFail
         /\ cam' = [cam EXCEPT ![c] = Poisoned]
         /\ UNCHANGED <<key, desk, tariff, siteUp, now>>
         /\ \/ row' = row
            \/ \E s \in Sids, r \in Row :
                 /\ siteUp /\ row[s] = None /\ row' = [row EXCEPT ![s] = r]
                 /\ r # None /\ r.entryTs <= now /\ r.dur = None /\ r.pay = "pending"
            \/ /\ c \in ExitCams /\ cam[c].pc = "loaded" /\ cam[c] \in LoadedState
               /\ row[cam[c].sid] # None
               /\ row' = [row EXCEPT ![cam[c].sid] = Merge(@, cam[c].seen, cam[c].new)]
<1> USE DEF TypeInv, TypeOK, Past
<1>1. CASE row' = row
  BY <1>1 DEF DatabaseFails, Goto
<1>2. CASE /\ c \in EntryCams /\ cam[c].pc = "checked" /\ siteUp
           /\ \E s \in FreshSids : row' = Inserted(c, s)
  <2>1. cam[c] \in ReadState /\ cam[c].ts <= now
    BY <1>2, CamShape
  <2> DEFINE r == [plate |-> cam[c].plate, entryTs |-> cam[c].ts, exitEv |-> None,
                   dur |-> None, snap |-> None, amount |-> None, pay |-> "pending"]
  <2>2. r \in Row /\ r.entryTs <= now /\ r.dur = None /\ r.pay = "pending"
    BY <2>1 DEF Row, ReadState
  <2>3. r # None
    BY <2>2, NoneAssumption
  <2>4. PICK s \in FreshSids : row' = [row EXCEPT ![s] = r]
    BY <1>2
  <2> HIDE DEF r
  <2>5. \E s2 \in Sids, r2 \in Row :
                 /\ siteUp /\ row[s2] = None /\ row' = [row EXCEPT ![s2] = r2]
                 /\ r2 # None /\ r2.entryTs <= now /\ r2.dur = None /\ r2.pay = "pending"
    BY <1>2, <2>2, <2>3, <2>4 DEF FreshSids
  <2>6. QED
    BY <2>5 DEF DatabaseFails, Goto
<1>3. CASE /\ c \in ExitCams /\ cam[c].pc = "loaded" /\ row[cam[c].sid] # None
           /\ row' = Updated(c)
  BY <1>3, CamShape DEF DatabaseFails, Goto
<1>4. QED
  BY <1>1, <1>2, <1>3 DEF DatabaseFails

(* The types hold at first.                                                 *)
LEMMA InitType == Init => TypeInv
  BY ParkingAssumption, NoneAssumption
  DEF Init, TypeInv, TypeOK, Past, WritersKeep, CamState, DeskState, Idle, Time

(* Every step keeps the types, and no stored time overtakes the clock.      *)
LEMMA StepType == TypeInv /\ [Next]_vars => TypeInv'
<1> SUFFICES ASSUME TypeInv, [Next]_vars PROVE TypeInv'
  OBVIOUS
<1> USE DEF TypeInv, TypeOK, Past, WritersKeep
<1>1. ASSUME NEW c \in Cams, NEW p \in Plates, ReadPlate(c, p) PROVE TypeInv'
  <2> DEFINE r == [pc |-> "read", plate |-> p, ts |-> now]
  <2>1. r \in ReadState /\ r.pc = "read" /\ r.ts = now
    BY DEF ReadState
  <2>2. cam' = [cam EXCEPT ![c] = r] /\ UNCHANGED <<row, key, desk, tariff, siteUp, now>>
    BY <1>1 DEF ReadPlate, Goto
  <2> HIDE DEF r
  <2>3. cam' \in [Cams -> CamState]
    BY <2>1, <2>2 DEF CamState
  <2>4. now <= now
    BY DEF Time
  <2>5. QED
    BY <2>1, <2>2, <2>3, <2>4
<1>2. ASSUME NEW c \in Cams, OpenCheck(c) PROVE TypeInv'
  <2>1. cam[c] \in ReadState
    BY <1>2, CamShape DEF OpenCheck
  <2>2. [cam[c] EXCEPT !.pc = "checked"] \in ReadState
        /\ [cam[c] EXCEPT !.pc = "checked"].ts = cam[c].ts
    BY <2>1 DEF ReadState
  <2>3. QED
    BY <1>2, <2>1, <2>2 DEF OpenCheck, Goto, CamState, Idle
<1>3. ASSUME NEW c \in Cams, NEW s \in Sids, OpenCommit(c, s) PROVE TypeInv'
  <2>1. cam[c] \in ReadState /\ cam[c].ts <= now
    BY <1>3, CamShape DEF OpenCommit
  <2> DEFINE r == [plate |-> cam[c].plate, entryTs |-> cam[c].ts, exitEv |-> None,
                   dur |-> None, snap |-> None, amount |-> None, pay |-> "pending"]
  <2>2. r \in Row /\ r.entryTs <= now
    BY <2>1 DEF Row, ReadState
  <2>3. [pc |-> "inserted", plate |-> cam[c].plate, sid |-> s] \in InsertedState
    BY <2>1 DEF ReadState, InsertedState
  <2>4. CASE siteUp
    BY <1>3, <2>2, <2>3, <2>4 DEF OpenCommit, Goto, CamState
  <2>5. CASE ~siteUp
    BY <1>3, <2>5 DEF OpenCommit, Goto, CamState, Poisoned
  <2>6. QED
    BY <2>4, <2>5
<1>4. ASSUME NEW c \in Cams, OpenStore(c) PROVE TypeInv'
  <2>1. cam[c] \in InsertedState
    BY <1>4, CamShape DEF OpenStore
  <2> DEFINE k == [sid |-> cam[c].sid, entry |-> now, exp |-> now + KeyTTL]
  <2>2. k \in KeyValue /\ k.entry <= now
    BY <2>1, ParkingAssumption DEF InsertedState, KeyValue, Time
  <2>3. QED
    BY <1>4, <2>2 DEF OpenStore, Goto, CamState, Idle
<1>5. ASSUME NEW c \in Cams, CloseFetch(c) PROVE TypeInv'
  <2>1. cam[c] \in ReadState
    BY <1>5, CamShape DEF CloseFetch
  <2> DEFINE k == key[cam[c].plate]
             f == [pc |-> "fetched", plate |-> cam[c].plate, ts |-> cam[c].ts,
                   sid |-> k.sid, entry |-> k.entry]
  <2>2. CASE k = None
    BY <1>5, <2>2 DEF CloseFetch, Goto, CamState, Idle
  <2>3. CASE k # None
    <3>1. k \in KeyValue /\ k.entry <= now
      BY <2>1, <2>3 DEF ReadState
    <3>2. k.entry \in Time
      BY <3>1 DEF KeyValue
    <3>3. f \in FetchedState /\ f.entry <= now
      BY <2>1, <3>1, <3>2 DEF FetchedState, ReadState, KeyValue
    <3>4. cam' = [cam EXCEPT ![c] = f] /\ UNCHANGED <<row, key, desk, tariff, siteUp, now>>
      BY <1>5, <2>3 DEF CloseFetch, Goto
    <3> HIDE DEF f
    <3>5. cam' \in [Cams -> CamState]
      BY <3>3, <3>4 DEF CamState
    <3>6. f.pc = "fetched"
      BY DEF f
    <3>7. QED
      BY <3>3, <3>4, <3>5, <3>6
  <2>4. QED
    BY <2>2, <2>3
<1>6. ASSUME NEW c \in Cams, CloseMissing(c) PROVE TypeInv'
  BY <1>6 DEF CloseMissing, Goto, CamState, Idle
<1>7. ASSUME NEW c \in Cams, CloseLoad(c) PROVE TypeInv'
  <2>1. cam[c] \in FetchedState /\ cam[c].entry <= now
    BY <1>7, CamShape DEF CloseLoad
  <2> DEFINE r == row[cam[c].sid]
             d == now - cam[c].entry
             n == [Bill(r, d, tariff) EXCEPT !.exitEv = <<c, cam[c].ts>>]
             l == [pc |-> "loaded", plate |-> cam[c].plate,
                   sid |-> cam[c].sid, seen |-> r, new |-> n]
  <2>2. r \in Row
    BY <1>7, <2>1 DEF CloseLoad, FetchedState
  <2>3. d \in Time
    BY <2>1, ParkingAssumption DEF FetchedState, Time
  <2>4. Bill(r, d, tariff) \in Row
    BY <2>2, <2>3, BillType
  <2>5. n \in Row /\ Keeps(r, n)
    BY <1>7, <2>1, <2>2, <2>3, <2>4, BillType DEF Row, ExitEvent, FetchedState, CloseLoad, Keeps
  <2>6. l \in LoadedState
    BY <2>1, <2>2, <2>5 DEF FetchedState, LoadedState
  <2>7. cam' = [cam EXCEPT ![c] = l] /\ UNCHANGED <<row, key, desk, tariff, siteUp, now>>
    BY <1>7 DEF CloseLoad, Goto
  <2>8. l.pc = "loaded" /\ Keeps(l.seen, l.new)
    BY <2>5
  <2> HIDE DEF l
  <2>9. cam' \in [Cams -> CamState]
    BY <2>6, <2>7 DEF CamState
  <2>10. QED
    BY <2>7, <2>8, <2>9
<1>8. ASSUME NEW c \in Cams, CloseCommit(c) PROVE TypeInv'
  <2>1. cam[c] \in LoadedState
    BY <1>8, CamShape DEF CloseCommit
  <2> DEFINE k == cam[c]
  <2>2. CASE row[k.sid] = None
    BY <1>8, <2>2 DEF CloseCommit, Goto, CamState, Poisoned
  <2>3. CASE row[k.sid] # None
    <3> DEFINE m == Merge(row[k.sid], k.seen, k.new)
    <3>1. k.sid \in Sids /\ k.seen \in Row /\ k.new \in Row /\ row[k.sid] \in Row
      BY <2>1, <2>3 DEF LoadedState
    <3>2. m \in Row
      BY <3>1, MergeType
    <3>3. Keeps(row[k.sid], m)
      BY <1>8, <2>1, <3>1, MergeType DEF CloseCommit
    <3> DEFINE x == [pc |-> "closed", plate |-> k.plate, sid |-> k.sid]
    <3>4. x \in ClosedState /\ x.pc = "closed"
      BY <2>1 DEF LoadedState, ClosedState
    <3>5. /\ row' = [row EXCEPT ![k.sid] = m]
          /\ cam' = [cam EXCEPT ![c] = x]
          /\ UNCHANGED <<key, desk, tariff, siteUp, now>>
      BY <1>8, <2>3 DEF CloseCommit, Goto
    <3> HIDE DEF x, m
    <3>6. cam' \in [Cams -> CamState]
      BY <3>4, <3>5 DEF CamState
    <3>7. m.entryTs <= now
      BY <3>1, <3>3, <2>3 DEF Keeps
    <3>8. QED
      BY <3>1, <3>2, <3>4, <3>5, <3>6, <3>7
  <2>4. QED
    BY <2>2, <2>3
<1>9. ASSUME NEW c \in Cams, CloseDelete(c) PROVE TypeInv'
  BY <1>9 DEF CloseDelete, Goto, CamState, Idle
<1>10. ASSUME NEW s \in Sids, DeskClose(s) PROVE TypeInv'
  <2> DEFINE d == now - row[s].entryTs
             n == Bill(row[s], d, tariff)
             q == [pc |-> "close", sid |-> s, seen |-> row[s], new |-> n]
  <2>1. row[s] \in Row /\ row[s].entryTs <= now
    BY <1>10 DEF DeskClose
  <2>2. d \in Time
    BY <2>1, ParkingAssumption DEF Row, Time
  <2>3. n \in Row /\ Keeps(row[s], n)
    BY <2>1, <2>2, BillType DEF Keeps
  <2> HIDE DEF n
  <2>4. q \in [pc: DeskOps, sid: Sids, seen: Row, new: Row] /\ Keeps(q.seen, q.new)
    BY <1>10, <2>1, <2>3 DEF DeskClose
  <2>5. desk' = q /\ UNCHANGED <<row, key, cam, tariff, siteUp, now>>
    BY <1>10 DEF DeskClose, n
  <2> HIDE DEF q
  <2>6. QED
    BY <2>4, <2>5 DEF DeskState
<1>11. ASSUME NEW s \in Sids, DeskPaid(s) PROVE TypeInv'
  <2> DEFINE n == [row[s] EXCEPT !.pay = "paid"]
             q == [pc |-> "paid", sid |-> s, seen |-> row[s], new |-> n]
  <2>1. row[s] \in Row
    BY <1>11 DEF DeskPaid
  <2>2. n \in Row /\ Keeps(row[s], n)
    BY <2>1 DEF Row, Keeps
  <2>3. q \in [pc: DeskOps, sid: Sids, seen: Row, new: Row] /\ Keeps(q.seen, q.new)
    BY <1>11, <2>1, <2>2 DEF DeskPaid
  <2>4. desk' = q /\ UNCHANGED <<row, key, cam, tariff, siteUp, now>>
    BY <1>11 DEF DeskPaid
  <2> HIDE DEF q
  <2>5. QED
    BY <2>3, <2>4 DEF DeskState
<1>12. ASSUME NEW s \in Sids, DeskWaive(s) PROVE TypeInv'
  <2> DEFINE n == [row[s] EXCEPT !.pay = "waived", !.amount = 0]
             q == [pc |-> "waive", sid |-> s, seen |-> row[s], new |-> n]
  <2>1. row[s] \in Row
    BY <1>12 DEF DeskWaive
  <2>2. n \in Row /\ Keeps(row[s], n)
    BY <2>1 DEF Row, Keeps
  <2>3. q \in [pc: DeskOps, sid: Sids, seen: Row, new: Row] /\ Keeps(q.seen, q.new)
    BY <1>12, <2>1, <2>2 DEF DeskWaive
  <2>4. desk' = q /\ UNCHANGED <<row, key, cam, tariff, siteUp, now>>
    BY <1>12 DEF DeskWaive
  <2> HIDE DEF q
  <2>5. QED
    BY <2>3, <2>4 DEF DeskState
<1>13. ASSUME DeskCommit PROVE TypeInv'
  <2>1. desk \in [pc: DeskOps, sid: Sids, seen: Row, new: Row]
    BY <1>13, DeskShape DEF DeskCommit
  <2>2. CASE row[desk.sid] = None
    BY <1>13, <2>2 DEF DeskCommit, DeskState
  <2>3. CASE row[desk.sid] # None
    <3> DEFINE m == Merge(row[desk.sid], desk.seen, desk.new)
    <3>1. row[desk.sid] \in Row /\ row[desk.sid].entryTs <= now
      BY <2>1, <2>3
    <3>2. m \in Row /\ Keeps(row[desk.sid], m)
      BY <1>13, <2>1, <3>1, MergeType DEF DeskCommit
    <3>3. row' = [row EXCEPT ![desk.sid] = m] /\ desk' = Idle
          /\ UNCHANGED <<key, cam, tariff, siteUp, now>>
      BY <1>13, <2>3 DEF DeskCommit
    <3> HIDE DEF m
    <3>4. QED
      BY <2>1, <3>1, <3>2, <3>3 DEF Keeps, DeskState
  <2>4. QED
    BY <2>2, <2>3
<1>14. ASSUME NEW t \in Tariffs \cup {NoTariff}, TariffChange(t) PROVE TypeInv'
  BY <1>14 DEF TariffChange
<1>15. ASSUME DeleteSite PROVE TypeInv'
  BY <1>15 DEF DeleteSite
<1>16. ASSUME Crash \/ Restart PROVE TypeInv'
  BY <1>16 DEF Crash, Restart, CamState, Idle, Down
<1>17. ASSUME Tick PROVE TypeInv'
  <2>1. now' \in Time /\ \A t \in Time : t <= now => t <= now'
    BY <1>17, ParkingAssumption DEF Tick, Time
  <2>2. /\ UNCHANGED <<row, cam, desk, tariff, siteUp>>
        /\ \A p \in Plates : key'[p] = key[p] \/ key'[p] = None
        /\ key' \in [Plates -> KeyValue \cup {None}]
    BY <1>17 DEF Tick
  <2>3. /\ \A p \in Plates : key[p] # None => key[p].entry \in Time
        /\ \A s \in Sids : row[s] # None => row[s].entryTs \in Time
    BY DEF KeyValue, Row
  <2>4. \A c \in Cams : /\ cam[c].pc = "fetched" => cam[c].entry \in Time
                        /\ cam[c].pc \in {"read", "checked"} => cam[c].ts \in Time
    BY CamShape DEF FetchedState, ReadState
  <2>5. QED
    BY <2>1, <2>2, <2>3, <2>4
<1>18. ASSUME NEW c \in Cams, RedisFails(c) PROVE TypeInv'
  BY <1>18, RedisFailure DEF CamState, Idle
<1>19. ASSUME NEW c \in Cams, DatabaseFails(c) PROVE TypeInv'
  <2>1. /\ cam' = [cam EXCEPT ![c] = Poisoned]
        /\ UNCHANGED <<key, desk, tariff, siteUp, now>>
    BY <1>19, DatabaseFailure
  <2>2. row' \in [Sids -> Row \cup {None}] /\ \A s \in Sids : row'[s] # None => row'[s].entryTs <= now
    <3>1. CASE row' = row
      BY <3>1
    <3>2. ASSUME NEW s \in Sids, NEW r \in Row, row' = [row EXCEPT ![s] = r], r.entryTs <= now
          PROVE  /\ row' \in [Sids -> Row \cup {None}]
                 /\ \A u \in Sids : row'[u] # None => row'[u].entryTs <= now
      BY <3>2
    <3>3. CASE /\ cam[c].pc = "loaded" /\ cam[c] \in LoadedState /\ row[cam[c].sid] # None
               /\ row' = [row EXCEPT ![cam[c].sid] = Merge(@, cam[c].seen, cam[c].new)]
      <4>1. /\ cam[c].sid \in Sids /\ cam[c].seen \in Row /\ cam[c].new \in Row
            /\ row[cam[c].sid] \in Row /\ Keeps(cam[c].seen, cam[c].new)
        BY <3>3 DEF LoadedState
      <4> DEFINE m == Merge(row[cam[c].sid], cam[c].seen, cam[c].new)
      <4>2. m \in Row /\ Keeps(row[cam[c].sid], m)
        BY <4>1, MergeType
      <4>3. row' = [row EXCEPT ![cam[c].sid] = m]
        BY <3>3
      <4> HIDE DEF m
      <4>4. m.entryTs <= now
        BY <3>3, <4>1, <4>2 DEF Keeps
      <4>5. QED
        BY <3>2, <4>1, <4>2, <4>3, <4>4
    <3>4. QED
      BY <1>19, <3>1, <3>2, <3>3, DatabaseFailure
  <2>3. QED
    BY <2>1, <2>2 DEF CamState, Poisoned
<1>20. ASSUME DeskFails PROVE TypeInv'
  BY <1>20 DEF DeskFails, DeskState
<1>21. CASE UNCHANGED vars
  BY <1>21 DEF vars
<1>22. QED
  BY <1>1, <1>2, <1>3, <1>4, <1>5, <1>6, <1>7, <1>8, <1>9, <1>10, <1>11, <1>12, <1>13,
     <1>14, <1>15, <1>16, <1>17, <1>18, <1>19, <1>20, <1>21 DEF Next, CameraStep

(* Rows, keys, threads and requests keep their types in every reachable     *)
(* state: in particular no session is ever billed for a negative duration.  *)
THEOREM TypeCorrect == Spec => []TypeOK
<1>1. Spec => []TypeInv
  BY InitType, StepType, PTL DEF Spec
<1>2. TypeInv => TypeOK
  BY DEF TypeInv
<1>3. QED
  BY <1>1, <1>2, PTL

(***************************************************************************)
(* Keys and rows                                                           *)
(***************************************************************************)

(* A site's rows go with it, an entry thread about to set a key has its row *)
(* in the table, and every key leads to a row of its own plate.             *)
KeyInv ==
  /\ ~siteUp => \A s \in Sids : row[s] = None
  /\ \A c \in EntryCams : (cam[c].pc = "inserted" /\ siteUp) =>
       row[cam[c].sid] # None /\ row[cam[c].sid].plate = cam[c].plate
  /\ KeyNamesOwnSession

(* There are no keys and no rows at first.                                  *)
LEMMA InitKey == Init => KeyInv
  BY DEF Init, KeyInv, KeyNamesOwnSession, Idle, Cams

(* The effect on the rows of the two actions that merge an update.          *)
LEMMA MergeKeepsPlates ==
  ASSUME TypeInv, NEW s \in Sids, row[s] # None,
         NEW b \in Row, NEW n \in Row, Keeps(b, n),
         row' = [row EXCEPT ![s] = Merge(@, b, n)]
  PROVE  /\ \A u \in Sids : (row'[u] # None) <=> (row[u] # None)
         /\ \A u \in Sids : row[u] # None => row'[u].plate = row[u].plate
<1>1. row[s] \in Row
  BY DEF TypeInv, TypeOK
<1>2. Merge(row[s], b, n) \in Row /\ Keeps(row[s], Merge(row[s], b, n))
  BY <1>1, MergeType
<1>3. Merge(row[s], b, n) # None
  BY <1>2, NoneAssumption
<1>4. QED
  BY <1>2, <1>3 DEF Keeps, TypeInv, TypeOK

(* Steps that leave every row's existence and plate, every key and the      *)
(* site alone, and insert no new thread about to set a key, keep KeyInv.    *)
LEMMA KeyFrame ==
  ASSUME KeyInv, TypeInv,
         \A s \in Sids : (row'[s] # None) <=> (row[s] # None),
         \A s \in Sids : row[s] # None => row'[s].plate = row[s].plate,
         \A p \in Plates : key'[p] = key[p] \/ key'[p] = None,
         siteUp' = siteUp,
         \A c \in EntryCams : cam'[c].pc = "inserted" => cam'[c] = cam[c]
  PROVE  KeyInv'
<1>1. \A p \in Plates : key[p] # None => key[p].sid \in Sids
  BY DEF TypeInv, TypeOK, KeyValue
<1>2. \A c \in EntryCams : cam[c].pc = "inserted" => cam[c].sid \in Sids
  BY CamShape DEF TypeInv, TypeOK, InsertedState, Cams
<1>3. KeyNamesOwnSession'
  BY <1>1 DEF KeyInv, KeyNamesOwnSession
<1>4. QED
  BY <1>2, <1>3 DEF KeyInv

(* Every step keeps the keys on rows of their own plates.                   *)
LEMMA StepKey == TypeInv /\ KeyInv /\ [Next]_vars => KeyInv'
<1> SUFFICES ASSUME TypeInv, KeyInv, [Next]_vars PROVE KeyInv'
  OBVIOUS
<1> USE DEF TypeInv, TypeOK
<1>1. ASSUME NEW c \in Cams, NEW p \in Plates, ReadPlate(c, p) PROVE KeyInv'
  BY <1>1, KeyFrame DEF ReadPlate, Goto, Cams
<1>2. ASSUME NEW c \in Cams, OpenCheck(c) PROVE KeyInv'
  <2>1. cam[c] \in ReadState
    BY <1>2, CamShape DEF OpenCheck
  <2>2. cam'[c].pc # "inserted" /\ \A d \in Cams \ {c} : cam'[d] = cam[d]
    BY <1>2, <2>1 DEF OpenCheck, Goto, Idle, ReadState
  <2>3. QED
    BY <1>2, <2>2, KeyFrame DEF OpenCheck, Cams
<1>3. ASSUME NEW c \in Cams, NEW s \in Sids, OpenCommit(c, s) PROVE KeyInv'
  <2>1. cam[c] \in ReadState
    BY <1>3, CamShape DEF OpenCommit
  <2>2. CASE ~siteUp
    BY <1>3, <2>2, KeyFrame DEF OpenCommit, Goto, Cams, Poisoned
  <2>3. CASE siteUp
    <3> DEFINE r == [plate |-> cam[c].plate, entryTs |-> cam[c].ts, exitEv |-> None,
                     dur |-> None, snap |-> None, amount |-> None, pay |-> "pending"]
    <3>1. r \in Row /\ r.plate = cam[c].plate
      BY <2>1 DEF Row, ReadState
    <3>2. r # None
      BY <3>1, NoneAssumption
    <3>3. /\ row[s] = None
          /\ row' = [row EXCEPT ![s] = r]
          /\ cam' = [cam EXCEPT ![c] =
                       [pc |-> "inserted", plate |-> cam[c].plate, sid |-> s]]
          /\ UNCHANGED <<key, siteUp>>
      BY <1>3, <2>3 DEF OpenCommit, Goto, FreshSids
    <3> HIDE DEF r
    <3>4. KeyNamesOwnSession'
      BY <2>3, <3>3 DEF KeyInv, KeyNamesOwnSession, KeyValue
    <3>5. \A d \in EntryCams : cam'[d].pc = "inserted" =>
            row'[cam'[d].sid] # None /\ row'[cam'[d].sid].plate = cam'[d].plate
      <4>1. TAKE d \in EntryCams
      <4>2. CASE d = c
        BY <3>1, <3>2, <3>3, <4>2
      <4>3. CASE d # c
        <5>1. cam'[d] = cam[d]
          BY <3>3, <4>3 DEF Cams
        <5>2. cam[d].pc = "inserted" => cam[d].sid \in Sids /\ cam[d].sid # s
          BY <2>3, <3>3, CamShape DEF KeyInv, InsertedState, Cams
        <5>3. QED
          BY <2>3, <3>3, <5>1, <5>2 DEF KeyInv
      <4>4. QED
        BY <4>2, <4>3
    <3>6. QED
      BY <2>3, <3>3, <3>4, <3>5 DEF KeyInv
  <2>4. QED
    BY <2>2, <2>3
<1>4. ASSUME NEW c \in Cams, OpenStore(c) PROVE KeyInv'
  <2>1. cam[c] \in InsertedState /\ c \in EntryCams
    BY <1>4, CamShape DEF OpenStore
  <2>2. cam[c].sid \in Sids /\ cam[c].plate \in Plates
    BY <2>1 DEF InsertedState
  <2>3. KeyNamesOwnSession'
    BY <1>4, <2>2 DEF OpenStore, KeyInv, KeyNamesOwnSession
  <2>4. \A d \in EntryCams : cam'[d].pc = "inserted" => cam'[d] = cam[d]
    BY <1>4 DEF OpenStore, Goto, Idle, Cams
  <2>5. QED
    BY <1>4, <2>3, <2>4 DEF OpenStore, KeyInv
<1>5. ASSUME NEW c \in Cams, CloseFetch(c) PROVE KeyInv'
  BY <1>5, KeyFrame DEF CloseFetch, Goto, Idle, Cams
<1>6. ASSUME NEW c \in Cams, CloseMissing(c) PROVE KeyInv'
  BY <1>6, KeyFrame DEF CloseMissing, Goto, Idle, Cams
<1>7. ASSUME NEW c \in Cams, CloseLoad(c) PROVE KeyInv'
  BY <1>7, KeyFrame DEF CloseLoad, Goto, Cams
<1>8. ASSUME NEW c \in Cams, CloseCommit(c) PROVE KeyInv'
  <2>1. cam[c] \in LoadedState
    BY <1>8, CamShape DEF CloseCommit
  <2>2. \A d \in EntryCams : cam'[d].pc = "inserted" => cam'[d] = cam[d]
    BY <1>8 DEF CloseCommit, Goto, Poisoned, Cams
  <2>3. CASE row[cam[c].sid] = None
    BY <1>8, <2>2, <2>3, KeyFrame DEF CloseCommit
  <2>4. CASE row[cam[c].sid] # None
    <3>1. /\ cam[c].sid \in Sids /\ cam[c].seen \in Row /\ cam[c].new \in Row
          /\ Keeps(cam[c].seen, cam[c].new)
      BY <1>8, <2>1 DEF LoadedState, WritersKeep, CloseCommit
    <3>2. row' = [row EXCEPT ![cam[c].sid] = Merge(@, cam[c].seen, cam[c].new)]
          /\ UNCHANGED <<key, siteUp>>
      BY <1>8, <2>4 DEF CloseCommit
    <3>3. /\ \A u \in Sids : (row'[u] # None) <=> (row[u] # None)
          /\ \A u \in Sids : row[u] # None => row'[u].plate = row[u].plate
      BY <2>4, <3>1, <3>2, MergeKeepsPlates
    <3>4. QED
      BY <2>2, <3>2, <3>3, KeyFrame
  <2>5. QED
    BY <2>3, <2>4
<1>9. ASSUME NEW c \in Cams, CloseDelete(c) PROVE KeyInv'
  BY <1>9, KeyFrame DEF CloseDelete, Goto, Idle, Cams
<1>10. ASSUME NEW s \in Sids, DeskClose(s) \/ DeskPaid(s) \/ DeskWaive(s) PROVE KeyInv'
  BY <1>10, KeyFrame DEF DeskClose, DeskPaid, DeskWaive
<1>11. ASSUME DeskCommit PROVE KeyInv'
  <2>1. CASE row[desk.sid] = None
    BY <1>11, <2>1, KeyFrame DEF DeskCommit
  <2>2. CASE row[desk.sid] # None
    <3>1. /\ desk.sid \in Sids /\ desk.seen \in Row /\ desk.new \in Row
          /\ Keeps(desk.seen, desk.new)
      BY <1>11, DeskShape DEF DeskCommit, WritersKeep
    <3>2. row' = [row EXCEPT ![desk.sid] = Merge(@, desk.seen, desk.new)]
          /\ UNCHANGED <<key, cam, siteUp>>
      BY <1>11, <2>2 DEF DeskCommit
    <3>3. /\ \A u \in Sids : (row'[u] # None) <=> (row[u] # None)
          /\ \A u \in Sids : row[u] # None => row'[u].plate = row[u].plate
      BY <2>2, <3>1, <3>2, MergeKeepsPlates
    <3>4. QED
      BY <3>2, <3>3, KeyFrame
  <2>3. QED
    BY <2>1, <2>2
<1>12. ASSUME NEW t \in Tariffs \cup {NoTariff}, TariffChange(t) PROVE KeyInv'
  BY <1>12, KeyFrame DEF TariffChange
<1>13. ASSUME DeleteSite PROVE KeyInv'
  BY <1>13 DEF DeleteSite, KeyInv, KeyNamesOwnSession, KeyValue
<1>14. ASSUME Crash \/ Restart PROVE KeyInv'
  BY <1>14, KeyFrame DEF Crash, Restart, Idle, Down, Cams
<1>15. ASSUME Tick PROVE KeyInv'
  BY <1>15, KeyFrame DEF Tick
<1>16. ASSUME NEW c \in Cams, RedisFails(c) PROVE KeyInv'
  BY <1>16, RedisFailure, KeyFrame DEF Idle, Cams
<1>17. ASSUME NEW c \in Cams, DatabaseFails(c) PROVE KeyInv'
  <2>1. /\ cam' = [cam EXCEPT ![c] = Poisoned]
        /\ UNCHANGED <<key, siteUp>>
    BY <1>17, DatabaseFailure
  <2>2. \A d \in EntryCams : cam'[d].pc = "inserted" => cam'[d] = cam[d]
    BY <2>1 DEF Poisoned, Cams
  <2>3. CASE row' = row
    BY <2>1, <2>2, <2>3, KeyFrame
  <2>4. ASSUME NEW s \in Sids, NEW r \in Row, siteUp, row[s] = None, row' = [row EXCEPT ![s] = r]
        PROVE  KeyInv'
    <3>1. KeyNamesOwnSession'
      BY <2>1, <2>4 DEF KeyInv, KeyNamesOwnSession, KeyValue
    <3>2. \A d \in EntryCams : cam'[d].pc = "inserted" =>
            row'[cam'[d].sid] # None /\ row'[cam'[d].sid].plate = cam'[d].plate
      <4>1. TAKE d \in EntryCams
      <4>2. cam[d].pc = "inserted" => cam[d].sid \in Sids /\ cam[d].sid # s
        BY <2>4, CamShape DEF KeyInv, InsertedState, Cams
      <4>3. QED
        BY <2>2, <2>4, <4>2 DEF KeyInv
    <3>3. QED
      BY <2>1, <2>4, <3>1, <3>2 DEF KeyInv
  <2>5. CASE /\ cam[c].pc = "loaded" /\ cam[c] \in LoadedState /\ row[cam[c].sid] # None
             /\ row' = [row EXCEPT ![cam[c].sid] = Merge(@, cam[c].seen, cam[c].new)]
    <3>1. /\ cam[c].sid \in Sids /\ cam[c].seen \in Row /\ cam[c].new \in Row
          /\ Keeps(cam[c].seen, cam[c].new)
      BY <2>5 DEF LoadedState, WritersKeep
    <3>2. /\ \A u \in Sids : (row'[u] # None) <=> (row[u] # None)
          /\ \A u \in Sids : row[u] # None => row'[u].plate = row[u].plate
      BY <2>5, <3>1, MergeKeepsPlates
    <3>3. QED
      BY <2>1, <2>2, <3>2, KeyFrame
  <2>6. QED
    BY <1>17, <2>3, <2>4, <2>5, DatabaseFailure
<1>18. ASSUME DeskFails PROVE KeyInv'
  BY <1>18, KeyFrame DEF DeskFails
<1>19. CASE UNCHANGED vars
  BY <1>19, KeyFrame DEF vars
<1>20. QED
  BY <1>1, <1>2, <1>3, <1>4, <1>5, <1>6, <1>7, <1>8, <1>9, <1>10, <1>11, <1>12,
     <1>13, <1>14, <1>15, <1>16, <1>17, <1>18, <1>19 DEF Next, CameraStep

(* However many lanes, crashes and expiries: a key never leads an exit      *)
(* camera to another plate's session or to one that was not committed.      *)
THEOREM KeysNameSessions == Spec => []KeyNamesOwnSession
<1>1. Spec => [](TypeInv /\ KeyInv)
  BY InitType, StepType, InitKey, StepKey, PTL DEF Spec
<1>2. TypeInv /\ KeyInv => KeyNamesOwnSession
  BY DEF KeyInv
<1>3. QED
  BY <1>1, <1>2, PTL

(***************************************************************************)
(* One lane in, one lane out                                               *)
(***************************************************************************)

AllInv == TypeInv /\ KeyInv /\ LaneInv

(* The lanes know nothing of each other at first.                           *)
LEMMA InitLane == Init => LaneInv
  BY DEF Init, LaneInv, KeysOutlast, EntrySide, ExitSide, KeyedIsOpen,
         DeskKeepsExit, OpenStayIsTracked, IsOpen, InHands, Idle, Cams

(* A merged update of an existing row opens no session, and closes it       *)
(* exactly when the writer assigned an exit event to a row without one.     *)
LEMMA MergeExit ==
  ASSUME TypeInv, NEW s \in Sids, row[s] # None,
         NEW b \in Row, NEW n \in Row, Keeps(b, n),
         row' = [row EXCEPT ![s] = Merge(@, b, n)]
  PROVE  /\ row'[s] # None
         /\ row'[s].exitEv = IF n.exitEv # b.exitEv THEN n.exitEv ELSE row[s].exitEv
         /\ row'[s].plate = row[s].plate
         /\ \A u \in Sids : u # s => row'[u] = row[u]
<1>1. row[s] \in Row
  BY DEF TypeInv, TypeOK
<1>2. QED
  BY <1>1, MergeType, NoneAssumption DEF Keeps, TypeInv, TypeOK

(* What the invariants say of the only entry thread, when it is c.          *)
LEMMA OneEntry ==
  ASSUME SingleLane, TypeInv, NEW c \in EntryCams, NEW z,
         cam' = [cam EXCEPT ![c] = z]
  PROVE  /\ \A e \in EntryCams : e = c
         /\ cam'[c] = z
         /\ \A x \in ExitCams : cam'[x] = cam[x]
  BY ParkingAssumption DEF SingleLane, TypeInv, TypeOK, Cams

(* A step of the one exit camera is all the exit side does.                 *)
LEMMA OneExit ==
  ASSUME SingleLane, TypeInv, NEW c \in ExitCams, NEW z,
         cam' = [cam EXCEPT ![c] = z]
  PROVE  /\ \A x \in ExitCams : x = c
         /\ cam'[c] = z
         /\ \A e \in EntryCams : cam'[e] = cam[e]
  BY ParkingAssumption DEF SingleLane, TypeInv, TypeOK, Cams

(* Keys and threads name sessions.                                          *)
LEMMA SidsOf ==
  ASSUME TypeInv
  PROVE  /\ \A p \in Plates : key[p] # None => key[p].sid \in Sids
         /\ \A c \in Cams : cam[c].pc \in {"inserted", "fetched", "loaded", "closed"}
                              => cam[c].sid \in Sids /\ cam[c].plate \in Plates
  BY CamShape DEF TypeInv, TypeOK, KeyValue, InsertedState, FetchedState, LoadedState, ClosedState

(* Every step keeps what the two lanes know of each other.                  *)
LEMMA StepLane == SingleLane /\ AllInv /\ [Next]_vars => LaneInv'
<1> SUFFICES ASSUME SingleLane, AllInv, [Next]_vars PROVE LaneInv'
  OBVIOUS
<1> USE DEF AllInv, LaneInv, IsOpen, InHands
<1>0. TypeInv /\ KeyInv /\ TypeOK
  BY DEF TypeInv
<1>1. ASSUME NEW c \in Cams, NEW p \in Plates, ReadPlate(c, p) PROVE LaneInv'
  BY <1>0, <1>1, ParkingAssumption
  DEF ReadPlate, Goto, Cams, TypeOK, KeysOutlast, EntrySide, ExitSide, KeyedIsOpen,
      DeskKeepsExit, OpenStayIsTracked
<1>2. ASSUME NEW c \in Cams, OpenCheck(c) PROVE LaneInv'
  <2> DEFINE z == IF key[cam[c].plate] # None THEN Idle ELSE [cam[c] EXCEPT !.pc = "checked"]
  <2>1. cam[c] \in ReadState /\ c \in EntryCams
    BY <1>0, <1>2, CamShape DEF OpenCheck, TypeOK
  <2>2. cam' = [cam EXCEPT ![c] = z] /\ UNCHANGED <<row, key, desk, siteUp, now>>
    BY <1>2 DEF OpenCheck, Goto
  <2>3. z.pc \notin {"inserted", "fetched", "loaded", "closed"}
        /\ (z.pc = "checked" => key[z.plate] = None)
    BY <2>1 DEF Idle, ReadState
  <2> HIDE DEF z
  <2>4. /\ \A e \in EntryCams : e = c
        /\ cam'[c] = z
        /\ \A x \in ExitCams : cam'[x] = cam[x]
    BY <1>0, <2>1, <2>2, OneEntry
  <2>5. cam[c].pc = "read"
    BY <1>2 DEF OpenCheck
  <2>6. QED
    BY <2>1, <2>2, <2>3, <2>4, <2>5
    DEF KeysOutlast, EntrySide, ExitSide, KeyedIsOpen, DeskKeepsExit, OpenStayIsTracked
<1>3. ASSUME NEW c \in Cams, NEW s \in Sids, OpenCommit(c, s) PROVE LaneInv'
  <2>1. cam[c] \in ReadState /\ c \in EntryCams /\ cam[c].pc = "checked" /\ cam[c].plate \in Plates
    BY <1>0, <1>3, CamShape DEF OpenCommit, TypeOK, ReadState
  <2>2. UNCHANGED <<key, desk, siteUp, now>> /\ row[s] = None
    BY <1>3 DEF OpenCommit, FreshSids
  <2>3. CASE ~siteUp
    <3>1. cam' = [cam EXCEPT ![c] = Poisoned] /\ row' = row
      BY <1>3, <2>3 DEF OpenCommit, Goto
    <3>2. /\ \A e \in EntryCams : e = c
          /\ cam'[c] = Poisoned
          /\ \A x \in ExitCams : cam'[x] = cam[x]
      BY <1>0, <2>1, <3>1, OneEntry
    <3>3. QED
      BY <2>1, <2>2, <3>1, <3>2
      DEF KeysOutlast, EntrySide, ExitSide, KeyedIsOpen, DeskKeepsExit, OpenStayIsTracked, Poisoned
  <2>4. CASE siteUp
    <3> DEFINE r == [plate |-> cam[c].plate, entryTs |-> cam[c].ts, exitEv |-> None,
                     dur |-> None, snap |-> None, amount |-> None, pay |-> "pending"]
               z == [pc |-> "inserted", plate |-> cam[c].plate, sid |-> s]
    <3>1. r # None /\ r.exitEv = None /\ r.plate = cam[c].plate
      <4>1. r \in Row
        BY <2>1 DEF Row, ReadState
      <4>2. QED
        BY <4>1, NoneAssumption
    <3>2. cam' = [cam EXCEPT ![c] = z] /\ row' = [row EXCEPT ![s] = r]
      BY <1>3, <2>4 DEF OpenCommit, Goto
    <3>3. z.pc = "inserted" /\ z.plate = cam[c].plate /\ z.sid = s
      OBVIOUS
    <3> HIDE DEF r, z
    <3>4. /\ \A e \in EntryCams : e = c
          /\ cam'[c] = z
          /\ \A x \in ExitCams : cam'[x] = cam[x]
      BY <1>0, <2>1, <3>2, OneEntry
    <3>5. row'[s] = r /\ \A u \in Sids \ {s} : row'[u] = row[u]
      BY <1>0, <3>2 DEF TypeOK
    <3>6. \A p \in Plates : key[p] # None => key[p].sid \in Sids \ {s}
      BY <1>0, <2>2, <2>4, SidsOf DEF KeyInv, KeyNamesOwnSession
    <3>7. EntrySide'
      BY <2>1, <2>2, <3>1, <3>3, <3>4, <3>5 DEF EntrySide
    <3>8. ExitSide'
      BY <1>0, <2>2, <3>4, <3>5, <3>6, SidsOf DEF ExitSide, Cams
    <3>9. KeyedIsOpen'
      BY <2>2, <3>4, <3>5, <3>6 DEF KeyedIsOpen
    <3>10. OpenStayIsTracked'
      BY <2>1, <2>2, <3>3, <3>4, <3>5 DEF OpenStayIsTracked
    <3>11. QED
      BY <2>2, <3>7, <3>8, <3>9, <3>10 DEF KeysOutlast, DeskKeepsExit
  <2>5. QED
    BY <2>3, <2>4
<1>4. ASSUME NEW c \in Cams, OpenStore(c) PROVE LaneInv'
  <2> DEFINE k == [sid |-> cam[c].sid, entry |-> now, exp |-> now + KeyTTL]
  <2>1. c \in EntryCams /\ cam[c].pc = "inserted" /\ cam[c].plate \in Plates /\ cam[c].sid \in Sids
    BY <1>0, <1>4, SidsOf DEF OpenStore
  <2>2. /\ cam' = [cam EXCEPT ![c] = Idle]
        /\ key' = [key EXCEPT ![cam[c].plate] = k]
        /\ UNCHANGED <<row, desk, siteUp, now>>
    BY <1>4 DEF OpenStore, Goto
  <2>3. k.sid = cam[c].sid /\ k.exp > MaxTime /\ k # None
    <3>1. k \in KeyValue
      BY <1>0, <2>1, ParkingAssumption DEF KeyValue, TypeOK, Time
    <3>2. QED
      BY <1>0, <3>1, ParkingAssumption, NoneAssumption DEF SingleLane, TypeOK, Time
  <2> HIDE DEF k
  <2>4. /\ \A e \in EntryCams : e = c
        /\ cam'[c] = Idle
        /\ \A x \in ExitCams : cam'[x] = cam[x]
    BY <1>0, <2>1, <2>2, OneEntry
  <2>5. key'[cam[c].plate] = k /\ \A p \in Plates : p # cam[c].plate => key'[p] = key[p]
    BY <1>0, <2>1, <2>2 DEF TypeOK
  <2>6. key[cam[c].plate] = None
    BY <2>1 DEF EntrySide
  <2>7. \A s \in Sids : row[s] # None => siteUp
    BY <1>0 DEF KeyInv
  <2>8. KeysOutlast'
    BY <2>3, <2>5 DEF KeysOutlast
  <2>9. EntrySide'
    BY <2>4 DEF EntrySide, Idle
  <2>10. ExitSide'
    BY <1>0, <2>2, <2>4, <2>5, <2>6, SidsOf DEF ExitSide, Cams
  <2>11. KeyedIsOpen'
    BY <2>1, <2>2, <2>3, <2>4, <2>5, <2>6 DEF KeyedIsOpen, EntrySide
  <2>12. OpenStayIsTracked'
    <3>1. ASSUME NEW s \in Sids, IsOpen(s) PROVE key'[row[s].plate] # None /\ key'[row[s].plate].sid = s
      <4>1. row[s].plate \in Plates
        BY <1>0, <3>1 DEF TypeOK, Row
      <4>2. CASE cam[c].sid = s
        BY <1>0, <2>1, <2>3, <2>5, <2>7, <3>1, <4>2 DEF KeyInv
      <4>3. CASE cam[c].sid # s
        BY <2>4, <2>5, <2>6, <3>1, <4>1, <4>3 DEF OpenStayIsTracked
      <4>4. QED
        BY <4>2, <4>3
    <3>2. QED
      BY <2>2, <3>1 DEF OpenStayIsTracked
  <2>13. QED
    BY <2>2, <2>8, <2>9, <2>10, <2>11, <2>12 DEF DeskKeepsExit
<1>5. ASSUME NEW c \in Cams, CloseFetch(c) PROVE LaneInv'
  <2> DEFINE k == key[cam[c].plate]
             z == IF k = None THEN Idle
                  ELSE [pc |-> "fetched", plate |-> cam[c].plate, ts |-> cam[c].ts,
                        sid |-> k.sid, entry |-> k.entry]
  <2>1. c \in ExitCams /\ cam[c].pc = "read"
    BY <1>5 DEF CloseFetch
  <2>2. cam' = [cam EXCEPT ![c] = z] /\ UNCHANGED <<row, key, desk, siteUp, now>>
    BY <1>5 DEF CloseFetch, Goto
  <2>3. /\ z.pc \notin {"checked", "inserted", "loaded", "closed"}
        /\ z.pc = "fetched" => key[z.plate] # None /\ key[z.plate].sid = z.sid
    BY DEF Idle
  <2> HIDE DEF z
  <2>4. /\ \A x \in ExitCams : x = c
        /\ cam'[c] = z
        /\ \A e \in EntryCams : cam'[e] = cam[e]
    BY <1>0, <2>1, <2>2, OneExit
  <2>5. QED
    BY <2>1, <2>2, <2>3, <2>4
    DEF KeysOutlast, EntrySide, ExitSide, KeyedIsOpen, DeskKeepsExit, OpenStayIsTracked
<1>6. ASSUME NEW c \in Cams, CloseMissing(c) \/ CloseDelete(c) PROVE LaneInv'
  <2>1. /\ c \in ExitCams /\ cam[c].pc \in {"fetched", "closed"}
        /\ cam[c].plate \in Plates /\ cam[c].sid \in Sids
    BY <1>0, <1>6, SidsOf DEF CloseMissing, CloseDelete
  <2>2. ~IsOpen(cam[c].sid)
    BY <1>6, <2>1 DEF CloseMissing, CloseDelete, ExitSide
  <2>3. /\ cam' = [cam EXCEPT ![c] = Idle]
        /\ key' = [key EXCEPT ![cam[c].plate] = None]
        /\ UNCHANGED <<row, desk, siteUp, now>>
    BY <1>6 DEF CloseMissing, CloseDelete, Goto
  <2>4. /\ \A x \in ExitCams : x = c
        /\ cam'[c] = Idle
        /\ \A e \in EntryCams : cam'[e] = cam[e]
    BY <1>0, <2>1, <2>3, OneExit
  <2>5. key'[cam[c].plate] = None /\ \A p \in Plates : p # cam[c].plate => key'[p] = key[p]
    BY <1>0, <2>1, <2>3 DEF TypeOK
  <2>6. key[cam[c].plate].sid = cam[c].sid
    BY <2>1 DEF ExitSide
  <2>7. EntrySide'
    <3>1. \A e \in EntryCams : cam[e].pc \in {"checked", "inserted"} => cam[e].plate \in Plates
      BY <1>0, CamShape DEF TypeOK, Cams, ReadState, InsertedState
    <3>2. QED
      BY <2>3, <2>4, <2>5, <3>1 DEF EntrySide
  <2>8. ExitSide'
    BY <2>4 DEF ExitSide, Idle
  <2>9. KeyedIsOpen'
    BY <2>3, <2>4, <2>5 DEF KeyedIsOpen
  <2>10. OpenStayIsTracked'
    <3>1. \A s \in Sids : IsOpen(s) => row[s].plate \in Plates
      BY <1>0 DEF TypeOK, Row
    <3>2. QED
      BY <2>2, <2>3, <2>4, <2>5, <2>6, <3>1 DEF OpenStayIsTracked
  <2>11. QED
    BY <2>3, <2>5, <2>7, <2>8, <2>9, <2>10 DEF KeysOutlast, DeskKeepsExit
<1>7. ASSUME NEW c \in Cams, CloseLoad(c) PROVE LaneInv'
  <2> DEFINE r == row[cam[c].sid]
             d == now - cam[c].entry
             n == [Bill(r, d, tariff) EXCEPT !.exitEv = <<c, cam[c].ts>>]
             z == [pc |-> "loaded", plate |-> cam[c].plate,
                   sid |-> cam[c].sid, seen |-> r, new |-> n]
  <2>1. /\ c \in ExitCams /\ cam[c].pc = "fetched" /\ r # None
        /\ cam[c].plate \in Plates /\ cam[c].sid \in Sids /\ cam[c].ts \in Time /\ d \in Time
    <3>1. cam[c] \in FetchedState /\ cam[c].entry <= now
      BY <1>0, <1>7, CamShape DEF CloseLoad, TypeOK, TypeInv, Past
    <3>2. d \in Time
      BY <1>0, <3>1, ParkingAssumption DEF FetchedState, TypeOK, Time
    <3>3. QED
      BY <1>7, <3>1, <3>2 DEF CloseLoad, FetchedState
  <2>2. r.exitEv = None
    <3>1. siteUp
      BY <1>0, <2>1 DEF KeyInv
    <3>2. \A x \in ExitCams : x = c
      BY <2>1 DEF SingleLane
    <3>3. QED
      BY <2>1, <3>1, <3>2 DEF ExitSide, KeyedIsOpen
  <2>3. n.exitEv # None
    <3>1. Bill(r, d, tariff) \in Row
      BY <1>0, <2>1, BillType DEF TypeOK
    <3>2. <<c, cam[c].ts>> \in ExitEvent
      BY <2>1 DEF ExitEvent
    <3>3. n.exitEv = <<c, cam[c].ts>>
      BY <3>1 DEF Row
    <3>4. QED
      BY <3>2, <3>3, NoneAssumption
  <2>4. cam' = [cam EXCEPT ![c] = z] /\ UNCHANGED <<row, key, desk, siteUp, now>>
    BY <1>7 DEF CloseLoad, Goto
  <2> HIDE DEF n
  <2>5. /\ z.pc = "loaded" /\ z.plate = cam[c].plate /\ z.sid = cam[c].sid
        /\ z.seen.exitEv = None /\ z.new.exitEv # None
    BY <2>2, <2>3
  <2> HIDE DEF z
  <2>6. /\ \A x \in ExitCams : x = c
        /\ cam'[c] = z
        /\ \A e \in EntryCams : cam'[e] = cam[e]
    BY <1>0, <2>1, <2>4, OneExit
  <2>7. QED
    BY <2>1, <2>4, <2>5, <2>6
    DEF KeysOutlast, EntrySide, ExitSide, KeyedIsOpen, DeskKeepsExit, OpenStayIsTracked
<1>8. ASSUME NEW c \in Cams, CloseCommit(c) PROVE LaneInv'
  <2>1. /\ c \in ExitCams /\ cam[c].pc = "loaded" /\ cam[c] \in LoadedState
        /\ UNCHANGED <<key, desk, siteUp, now>>
    BY <1>0, <1>8, CamShape DEF CloseCommit, TypeOK
  <2> DEFINE s == cam[c].sid
             q == cam[c].plate
  <2>2. /\ s \in Sids /\ q \in Plates /\ cam[c].seen \in Row /\ cam[c].new \in Row
        /\ Keeps(cam[c].seen, cam[c].new)
    BY <1>0, <2>1 DEF LoadedState, TypeInv, WritersKeep, Cams
  <2>3. key[q] # None /\ key[q].sid = s /\ cam[c].seen.exitEv = None /\ cam[c].new.exitEv # None
    BY <2>1 DEF ExitSide
  <2>4. CASE row[s] = None
    <3>1. cam' = [cam EXCEPT ![c] = Poisoned] /\ row' = row
      BY <1>8, <2>4 DEF CloseCommit, Goto
    <3>2. /\ \A x \in ExitCams : x = c
          /\ cam'[c] = Poisoned
          /\ \A e \in EntryCams : cam'[e] = cam[e]
      BY <1>0, <2>1, <3>1, OneExit
    <3>3. QED
      BY <2>1, <3>1, <3>2
      DEF KeysOutlast, EntrySide, ExitSide, KeyedIsOpen, DeskKeepsExit, OpenStayIsTracked, Poisoned
  <2>5. CASE row[s] # None
    <3> DEFINE z == [pc |-> "closed", plate |-> q, sid |-> s]
    <3>1. /\ cam' = [cam EXCEPT ![c] = z]
          /\ row' = [row EXCEPT ![s] = Merge(@, cam[c].seen, cam[c].new)]
      BY <1>8, <2>5 DEF CloseCommit, Goto
    <3>2. z.pc = "closed" /\ z.plate = q /\ z.sid = s
      OBVIOUS
    <3> HIDE DEF z
    <3>3. /\ \A x \in ExitCams : x = c
          /\ cam'[c] = z
          /\ \A e \in EntryCams : cam'[e] = cam[e]
      BY <1>0, <2>1, <3>1, OneExit
    <3>4. row'[s].exitEv # None /\ \A u \in Sids : u # s => row'[u] = row[u]
      <4>1. /\ row'[s].exitEv = IF cam[c].new.exitEv # cam[c].seen.exitEv
                                 THEN cam[c].new.exitEv ELSE row[s].exitEv
            /\ \A u \in Sids : u # s => row'[u] = row[u]
        <5> HIDE DEF s
        <5>1. QED
          BY <1>0, <2>2, <2>5, <3>1, MergeExit
      <4>2. QED
        BY <2>3, <4>1
    <3>5. siteUp
      BY <1>0, <2>2, <2>5 DEF KeyInv
    <3>6. row[s].plate = q
      BY <1>0, <2>2, <2>3, <3>5 DEF KeyInv, KeyNamesOwnSession
    <3>7. EntrySide'
      <4>1. \A e \in EntryCams : cam[e].pc = "inserted" =>
               cam[e].sid \in Sids /\ row[cam[e].sid].plate = cam[e].plate
        BY <1>0, <3>5, SidsOf DEF KeyInv, Cams
      <4>2. \A e \in EntryCams : cam[e].pc = "inserted" => cam[e].sid # s
        BY <2>3, <3>6, <4>1 DEF EntrySide
      <4> HIDE DEF s, q
      <4>3. QED
        BY <2>1, <3>3, <3>4, <4>1, <4>2 DEF EntrySide
    <3>8. ExitSide'
      BY <2>1, <2>2, <2>3, <3>2, <3>3, <3>4 DEF ExitSide
    <3>9. KeyedIsOpen'
      <4>1. \A p \in Plates : key[p] # None => key[p].sid \in Sids /\ row[key[p].sid].plate = p
        BY <1>0, <3>5, SidsOf DEF KeyInv, KeyNamesOwnSession
      <4> HIDE DEF s, q
      <4>2. QED
        BY <2>1, <3>2, <3>3, <3>4, <3>6, <4>1 DEF KeyedIsOpen
    <3>10. OpenStayIsTracked'
      <4> HIDE DEF s, q
      <4>1. QED
        BY <2>1, <3>3, <3>4 DEF OpenStayIsTracked
    <3>11. QED
      BY <2>1, <3>7, <3>8, <3>9, <3>10 DEF KeysOutlast, DeskKeepsExit
  <2>6. QED
    BY <2>4, <2>5
<1>9. ASSUME NEW s \in Sids, DeskClose(s) \/ DeskPaid(s) \/ DeskWaive(s) PROVE LaneInv'
  <2>1. UNCHANGED <<row, key, cam, siteUp, now>>
    BY <1>9 DEF DeskClose, DeskPaid, DeskWaive
  <2>2. row[s] \in Row
    BY <1>0, <1>9 DEF DeskClose, DeskPaid, DeskWaive, TypeOK
  <2>3. desk'.new.exitEv = desk'.seen.exitEv
    <3>1. CASE DeskClose(s)
      <4>1. now - row[s].entryTs \in Time
        BY <1>0, <2>2, <3>1, ParkingAssumption DEF DeskClose, Row, TypeInv, Past, TypeOK, Time
      <4>2. Bill(row[s], now - row[s].entryTs, tariff).exitEv = row[s].exitEv
        BY <1>0, <2>2, <4>1, BillType DEF TypeOK
      <4>3. QED
        BY <3>1, <4>2 DEF DeskClose
    <3>2. CASE DeskPaid(s)
      BY <2>2, <3>2 DEF DeskPaid, Row
    <3>3. CASE DeskWaive(s)
      BY <2>2, <3>3 DEF DeskWaive, Row
    <3>4. QED
      BY <1>9, <3>1, <3>2, <3>3
  <2>4. QED
    BY <2>1, <2>3
    DEF KeysOutlast, EntrySide, ExitSide, KeyedIsOpen, DeskKeepsExit, OpenStayIsTracked
<1>10. ASSUME DeskCommit PROVE LaneInv'
  <2>1. /\ desk.sid \in Sids /\ desk.seen \in Row /\ desk.new \in Row
        /\ Keeps(desk.seen, desk.new) /\ desk.new.exitEv = desk.seen.exitEv
    BY <1>0, <1>10, DeskShape DEF DeskCommit, TypeInv, WritersKeep, DeskKeepsExit
  <2>2. desk' = Idle /\ UNCHANGED <<key, cam, siteUp, now>>
    BY <1>10 DEF DeskCommit
  <2>3. \A u \in Sids : /\ (row'[u] # None) <=> (row[u] # None)
                        /\ row[u] # None => /\ row'[u].exitEv = row[u].exitEv
                                            /\ row'[u].plate = row[u].plate
    <3>1. CASE row[desk.sid] = None
      BY <1>10, <3>1 DEF DeskCommit
    <3>2. CASE row[desk.sid] # None
      <4>1. row' = [row EXCEPT ![desk.sid] = Merge(@, desk.seen, desk.new)]
        BY <1>10, <3>2 DEF DeskCommit
      <4>2. /\ row'[desk.sid] # None
            /\ row'[desk.sid].exitEv = row[desk.sid].exitEv
            /\ row'[desk.sid].plate = row[desk.sid].plate
            /\ \A u \in Sids : u # desk.sid => row'[u] = row[u]
        <5>1. row[desk.sid] \in Row
          BY <1>0, <2>1, <3>2 DEF TypeOK
        <5>2. /\ Merge(row[desk.sid], desk.seen, desk.new) \in Row
              /\ Merge(row[desk.sid], desk.seen, desk.new).exitEv = row[desk.sid].exitEv
              /\ Merge(row[desk.sid], desk.seen, desk.new).plate = row[desk.sid].plate
          BY <2>1, <5>1, MergeType DEF Keeps
        <5>3. QED
          BY <1>0, <2>1, <4>1, <5>2, NoneAssumption DEF TypeOK
      <4>3. QED
        BY <3>2, <4>2
    <3>3. QED
      BY <3>1, <3>2
  <2>4. EntrySide' /\ ExitSide'
    BY <1>0, <2>2, <2>3, SidsOf DEF EntrySide, ExitSide, Cams
  <2>5. KeyedIsOpen' /\ OpenStayIsTracked'
    BY <1>0, <2>2, <2>3, SidsOf DEF KeyedIsOpen, OpenStayIsTracked
  <2>6. QED
    BY <2>2, <2>4, <2>5 DEF KeysOutlast, DeskKeepsExit
<1>11. ASSUME NEW t \in Tariffs \cup {NoTariff}, TariffChange(t) PROVE LaneInv'
  BY <1>11 DEF TariffChange, KeysOutlast, EntrySide, ExitSide, KeyedIsOpen,
               DeskKeepsExit, OpenStayIsTracked
<1>12. ASSUME DeleteSite PROVE LaneInv'
  <2>1. UNCHANGED <<key, cam, desk>> /\ ~siteUp' /\ \A s \in Sids : row'[s] = None
    BY <1>12 DEF DeleteSite
  <2>2. QED
    BY <1>0, <2>1, SidsOf
    DEF KeysOutlast, EntrySide, ExitSide, KeyedIsOpen, DeskKeepsExit, OpenStayIsTracked, Cams
<1>13. ASSUME Crash PROVE LaneInv'
  BY <1>13 DEF Crash, SingleLane
<1>a. ASSUME Restart PROVE LaneInv'
  BY <1>a DEF Restart, KeysOutlast, EntrySide, ExitSide, KeyedIsOpen, DeskKeepsExit,
              OpenStayIsTracked, Idle, Down, Cams
<1>b. ASSUME NEW c \in Cams, RedisFails(c) PROVE LaneInv'
  <2>1. /\ cam' = [cam EXCEPT ![c] = Idle]
        /\ UNCHANGED <<row, key, desk, siteUp, now>>
        /\ cam[c].pc = "inserted" /\ row[cam[c].sid] = None
    BY <1>b, RedisFailure DEF SingleLane
  <2>2. c \in EntryCams
    BY <2>1 DEF ExitSide, Cams
  <2>3. /\ \A e \in EntryCams : e = c
        /\ cam'[c] = Idle
        /\ \A x \in ExitCams : cam'[x] = cam[x]
    BY <1>0, <2>1, <2>2, OneEntry
  <2>4. QED
    BY <2>1, <2>2, <2>3
    DEF KeysOutlast, EntrySide, ExitSide, KeyedIsOpen, DeskKeepsExit, OpenStayIsTracked, Idle
<1>c. ASSUME NEW c \in Cams, DatabaseFails(c) PROVE LaneInv'
  BY <1>c DEF DatabaseFails, SingleLane
<1>d. ASSUME DeskFails PROVE LaneInv'
  BY <1>d DEF DeskFails, SingleLane
<1>14. ASSUME Tick PROVE LaneInv'
  <2>1. \A p \in Plates : key[p] # None => key[p].exp > MaxTime /\ key[p].exp \in Nat
    BY <1>0 DEF KeysOutlast, TypeOK, KeyValue
  <2>2. now' \in Time
    BY <1>0, <1>14, ParkingAssumption DEF Tick, TypeOK, Time
  <2>3. key' = key
    BY <1>0, <1>14, <2>1, <2>2, ParkingAssumption DEF Tick, TypeOK, Time
  <2>4. UNCHANGED <<row, cam, desk, siteUp>>
    BY <1>14 DEF Tick
  <2>5. QED
    BY <2>3, <2>4
    DEF KeysOutlast, EntrySide, ExitSide, KeyedIsOpen, DeskKeepsExit, OpenStayIsTracked
<1>15. CASE UNCHANGED vars
  BY <1>15 DEF vars, KeysOutlast, EntrySide, ExitSide, KeyedIsOpen,
               DeskKeepsExit, OpenStayIsTracked
<1>16. QED
  BY <1>1, <1>2, <1>3, <1>4, <1>5, <1>6, <1>7, <1>8, <1>9, <1>10, <1>11,
     <1>12, <1>13, <1>14, <1>15, <1>a, <1>b, <1>c, <1>d DEF Next, CameraStep

(* So it holds in every reachable state.                                    *)
LEMMA InvsHold ==
  ASSUME SingleLane
  PROVE  Spec => []AllInv
<1>1. Init => AllInv
  BY InitType, InitKey, InitLane DEF AllInv
<1>2. AllInv /\ [Next]_vars => AllInv'
  BY SingleLane, StepType, StepKey, StepLane DEF AllInv
<1>3. QED
  BY <1>1, <1>2, PTL DEF Spec

(* Two open sessions would have to share one key.                           *)
LEMMA TrackedIsUnique == SingleLane /\ AllInv => AtMostOneOpenStay
<1> SUFFICES ASSUME SingleLane, AllInv, NEW p \in Plates,
                    NEW s \in OpenSids(p), NEW t \in OpenSids(p)
             PROVE  s = t
  BY DEF AtMostOneOpenStay
<1>1. /\ s \in Sids /\ t \in Sids /\ IsOpen(s) /\ IsOpen(t)
      /\ row[s].plate = p /\ row[t].plate = p
  BY DEF OpenSids
<1>2. siteUp
  BY <1>1 DEF IsOpen, AllInv, KeyInv
<1>3. ASSUME NEW u \in Sids, IsOpen(u), row[u].plate = p,
             NEW e \in EntryCams, cam[e].pc = "inserted", cam[e].sid = u
      PROVE  key[p] = None
  BY <1>2, <1>3 DEF AllInv, KeyInv, LaneInv, EntrySide, InHands
<1>4. \A e, f \in EntryCams : e = f
  BY DEF SingleLane
<1>5. QED
  BY <1>1, <1>3, <1>4 DEF AllInv, LaneInv, OpenStayIsTracked

(* With one lane each way no plate ever has two open stays, and every open  *)
(* stay can be found by its exit, whatever operators, tariffs, the deletion *)
(* of the site and the interleaving of the threads do.                      *)
THEOREM OneOpenStay ==
  ASSUME SingleLane
  PROVE  Spec => []OneReachableStay
<1>1. Spec => []AllInv
  BY SingleLane, InvsHold
<1>2. AllInv => OneReachableStay
  BY SingleLane, TrackedIsUnique DEF AllInv, LaneInv, OneReachableStay
<1>3. QED
  BY <1>1, <1>2, PTL

(* A thread gives an exit read up only on finding no key for its plate.     *)
LEMMA GivesUpOnNoKey ==
  ASSUME SingleLane, TypeInv, [Next]_vars, NEW c \in ExitCams,
         cam[c].pc = "read", cam'[c] = Idle
  PROVE  key[cam[c].plate] = None
<1> USE DEF Goto, Idle, Cams, TypeInv, TypeOK
<1>1. c \in Cams /\ c \notin EntryCams
  BY ParkingAssumption
<1>2. ASSUME NEW d \in Cams, NEW p \in Plates, ReadPlate(d, p) PROVE FALSE
  BY <1>1, <1>2 DEF ReadPlate
<1>3. ASSUME NEW d \in Cams, CloseFetch(d) PROVE key[cam[c].plate] = None
  BY <1>1, <1>3 DEF CloseFetch
<1>4. ASSUME NEW d \in Cams, OpenCheck(d) \/ OpenStore(d) \/ CloseMissing(d)
                               \/ CloseLoad(d) \/ CloseCommit(d) \/ CloseDelete(d)
      PROVE FALSE
  BY <1>1, <1>4 DEF OpenCheck, OpenStore, CloseMissing, CloseLoad, CloseCommit, CloseDelete
<1>5. ASSUME NEW d \in Cams, NEW s \in Sids, OpenCommit(d, s) PROVE FALSE
  BY <1>1, <1>5 DEF OpenCommit
<1>6. ASSUME UNCHANGED cam PROVE FALSE
  BY <1>1, <1>6
<1>7. ~Crash /\ \A d \in Cams : ~DatabaseFails(d)
  BY DEF Crash, DatabaseFails, SingleLane
<1>8. ~Restart
  BY <1>1 DEF Restart, Down
<1>9. ASSUME NEW d \in Cams, RedisFails(d) PROVE FALSE
  BY <1>1, <1>9, RedisFailure DEF SingleLane
<1>10. QED
  BY <1>2, <1>3, <1>4, <1>5, <1>6, <1>7, <1>8, <1>9
  DEF Next, CameraStep, DeskClose, DeskPaid, DeskWaive, DeskCommit, DeskFails, TariffChange,
      DeleteSite, Tick, vars

(* With one lane each way an exit read is never dropped while the plate has *)
(* a stay to close, save the one whose entry is being recorded.             *)
THEOREM ExitReadsCount ==
  ASSUME SingleLane
  PROVE  Spec => ExitReadNotLost
<1>1. Spec => []AllInv
  BY SingleLane, InvsHold
<1>2. AllInv /\ [Next]_vars =>
        \A c \in ExitCams :
          (cam[c].pc = "read" /\ cam'[c] = Idle) =>
            \A s \in OpenSids(cam[c].plate) :
              \E e \in EntryCams : cam[e].pc = "inserted" /\ cam[e].sid = s
  BY SingleLane, GivesUpOnNoKey DEF AllInv, LaneInv, OpenStayIsTracked, OpenSids
<1>3. Spec => [][\A c \in ExitCams :
          (cam[c].pc = "read" /\ cam'[c] = Idle) =>
            \A s \in OpenSids(cam[c].plate) :
              \E e \in EntryCams : cam[e].pc = "inserted" /\ cam[e].sid = s]_vars
  BY <1>1, <1>2, PTL DEF Spec
<1>4. QED
  BY <1>3 DEF ExitReadNotLost

(***************************************************************************)
(* The two stores implement the ledger                                     *)
(***************************************************************************)

(* A step that neither adds, removes, closes nor reopens a row is a stutter *)
(* of the ledger.                                                           *)
LEMMA LedgerStutters ==
  ASSUME \A u \in Sids : (row'[u] # None) <=> (row[u] # None),
         \A u \in Sids : row[u] # None =>
           /\ row'[u].plate = row[u].plate
           /\ (row'[u].exitEv = None) <=> (row[u].exitEv = None)
  PROVE  UNCHANGED <<OpenLedger, DoneLedger>>
<1>1. \A p \in Plates : OpenSids(p)' = OpenSids(p)
  BY DEF OpenSids, IsOpen
<1>2. \A p \in Plates : {s \in Sids : row[s] # None /\ ~IsOpen(s) /\ row[s].plate = p}'
                          = {s \in Sids : row[s] # None /\ ~IsOpen(s) /\ row[s].plate = p}
  BY DEF IsOpen
<1>3. QED
  BY <1>1, <1>2 DEF OpenLedger, DoneLedger

(* A session without a row is in neither book.                              *)
LEMMA LedgerKnows ==
  ASSUME NEW s \in Sids, row[s] = None
  PROVE  s \notin Ledger!Known
  BY DEF Ledger!Known, OpenLedger, DoneLedger, OpenSids, IsOpen

(* Every step is one of the ledger or leaves it alone.                      *)
LEMMA LedgerStep ==
  ASSUME SingleLane, AllInv, [Next]_vars
  PROVE  [Ledger!LedgerNext]_(Ledger!ledgerVars)
<1> USE DEF Ledger!ledgerVars
<1>0. TypeInv /\ TypeOK /\ KeyInv
  BY DEF AllInv, TypeInv
<1>1. CASE row' = row
  BY <1>1, LedgerStutters
<1>2. ASSUME NEW c \in Cams, NEW s \in Sids, OpenCommit(c, s) PROVE [Ledger!LedgerNext]_(Ledger!ledgerVars)
  <2>1. CASE ~siteUp
    BY <1>1, <1>2, <2>1 DEF OpenCommit
  <2>2. CASE siteUp
    <3>1. cam[c] \in ReadState /\ c \in EntryCams /\ cam[c].pc = "checked"
      BY <1>0, <1>2, CamShape DEF OpenCommit, TypeOK
    <3>a. PICK p \in Plates : p = cam[c].plate
      BY <3>1 DEF ReadState
    <3>b. PICK r : r = [plate |-> p, entryTs |-> cam[c].ts, exitEv |-> None,
                        dur |-> None, snap |-> None, amount |-> None, pay |-> "pending"]
      OBVIOUS
    <3>2. r # None /\ r.plate = p /\ r.exitEv = None
      <4>1. r \in Row
        BY <3>1, <3>b DEF ReadState, Row
      <4>2. QED
        BY <3>b, <4>1, NoneAssumption
    <3>3. row[s] = None /\ row'[s] = r /\ \A u \in Sids : u # s => row'[u] = row[u]
      BY <1>0, <1>2, <2>2, <3>a, <3>b DEF OpenCommit, FreshSids, TypeOK
    <3>4. OpenSids(p)' = OpenSids(p) \cup {s}
      BY <3>2, <3>3 DEF OpenSids, IsOpen
    <3>5. OpenSids(p) = {}
      <4>1. key[p] = None
        BY <3>1, <3>a DEF AllInv, LaneInv, EntrySide, InHands
      <4>2. \A e \in EntryCams : cam[e].pc # "inserted"
        BY <3>1 DEF SingleLane
      <4>3. QED
        BY <4>1, <4>2 DEF AllInv, LaneInv, OpenStayIsTracked, OpenSids
    <3>6. \A q \in Plates : q # p => OpenSids(q)' = OpenSids(q)
      BY <3>2, <3>3 DEF OpenSids, IsOpen
    <3>7. OpenLedger' = [OpenLedger EXCEPT ![p] = {s}] /\ OpenLedger[p] = {}
      BY <3>2, <3>4, <3>5, <3>6 DEF OpenLedger
    <3>8. DoneLedger' = DoneLedger
      <4>1. \A q \in Plates : {u \in Sids : row[u] # None /\ ~IsOpen(u) /\ row[u].plate = q}'
                                = {u \in Sids : row[u] # None /\ ~IsOpen(u) /\ row[u].plate = q}
        BY <3>2, <3>3 DEF IsOpen
      <4>2. QED
        BY <4>1 DEF DoneLedger
    <3>9. Ledger!Enter(p, s)
      BY <3>3, <3>7, <3>8, LedgerKnows DEF Ledger!Enter
    <3>10. QED
      BY <3>2, <3>9 DEF Ledger!LedgerNext
  <2>3. QED
    BY <2>1, <2>2
<1>3. ASSUME NEW c \in Cams, CloseCommit(c) PROVE [Ledger!LedgerNext]_(Ledger!ledgerVars)
  <2>a. PICK s \in Sids, p \in Plates : s = cam[c].sid /\ p = cam[c].plate
    BY <1>0, <1>3, SidsOf DEF CloseCommit
  <2>1. /\ c \in ExitCams /\ cam[c].pc = "loaded"
        /\ cam[c].seen \in Row /\ cam[c].new \in Row /\ Keeps(cam[c].seen, cam[c].new)
    BY <1>0, <1>3, CamShape DEF CloseCommit, LoadedState, TypeOK, TypeInv, WritersKeep
  <2>2. /\ key[p] # None /\ key[p].sid = s
        /\ cam[c].seen.exitEv = None /\ cam[c].new.exitEv # None
    BY <2>a, <2>1 DEF AllInv, LaneInv, ExitSide, InHands
  <2>3. CASE row[s] = None
    BY <1>1, <1>3, <2>a, <2>3 DEF CloseCommit
  <2>4. CASE row[s] # None
    <3>1. row' = [row EXCEPT ![s] = Merge(@, cam[c].seen, cam[c].new)]
      BY <1>3, <2>a, <2>4 DEF CloseCommit
    <3>2. /\ row'[s] # None
          /\ row'[s].exitEv = IF cam[c].new.exitEv # cam[c].seen.exitEv
                              THEN cam[c].new.exitEv ELSE row[s].exitEv
          /\ row'[s].plate = row[s].plate
          /\ \A u \in Sids : u # s => row'[u] = row[u]
      BY <1>0, <2>1, <2>4, <3>1, MergeExit
    <3>3. siteUp
      BY <1>0, <2>1, <2>4 DEF KeyInv
    <3>4. row[s].plate = p
      BY <1>0, <2>1, <2>2, <3>3 DEF KeyInv, KeyNamesOwnSession
    <3>5. IsOpen(s)
      <4>1. \A x \in ExitCams : x = c
        BY <2>1 DEF SingleLane
      <4>2. QED
        BY <2>1, <2>2, <3>3, <4>1 DEF AllInv, LaneInv, KeyedIsOpen, InHands
    <3>6. row'[s].exitEv # None
      BY <2>2, <3>2
    <3>7. OpenSids(p)' = OpenSids(p) \ {s} /\ s \in OpenSids(p)
      BY <2>1, <3>2, <3>4, <3>5, <3>6 DEF OpenSids, IsOpen
    <3>8. \A q \in Plates : q # p => OpenSids(q)' = OpenSids(q)
      BY <3>2, <3>4, <3>5 DEF OpenSids, IsOpen
    <3>9. DoneLedger'[p] = DoneLedger[p] \cup {s}
      BY <3>2, <3>4, <3>6 DEF DoneLedger, IsOpen
    <3>10. \A q \in Plates : q # p => DoneLedger'[q] = DoneLedger[q]
      BY <3>2, <3>4 DEF DoneLedger, IsOpen
    <3>11. DoneLedger = [q \in Plates |-> DoneLedger[q]] /\ DoneLedger' = [q \in Plates |-> DoneLedger'[q]]
      BY DEF DoneLedger
    <3>12. DoneLedger' = [DoneLedger EXCEPT ![p] = @ \cup {s}]
      BY <3>9, <3>10, <3>11
    <3>13. OpenLedger' = [OpenLedger EXCEPT ![p] = @ \ {s}] /\ s \in OpenLedger[p]
      BY <2>1, <3>7, <3>8 DEF OpenLedger
    <3>14. Ledger!Leave(p, s)
      BY <3>12, <3>13 DEF Ledger!Leave
    <3>15. QED
      BY <2>1, <3>14 DEF Ledger!LedgerNext
  <2>5. QED
    BY <2>3, <2>4
<1>4. ASSUME DeskCommit PROVE [Ledger!LedgerNext]_(Ledger!ledgerVars)
  <2>1. /\ desk.sid \in Sids /\ desk.seen \in Row /\ desk.new \in Row
        /\ Keeps(desk.seen, desk.new) /\ desk.new.exitEv = desk.seen.exitEv
    BY <1>0, <1>4, DeskShape DEF DeskCommit, TypeInv, WritersKeep, DeskKeepsExit, AllInv, LaneInv
  <2>2. CASE row[desk.sid] = None
    BY <1>1, <1>4, <2>2 DEF DeskCommit
  <2>3. CASE row[desk.sid] # None
    <3>1. row' = [row EXCEPT ![desk.sid] = Merge(@, desk.seen, desk.new)]
      BY <1>4, <2>3 DEF DeskCommit
    <3>2. /\ row'[desk.sid] # None
          /\ row'[desk.sid].exitEv = row[desk.sid].exitEv
          /\ row'[desk.sid].plate = row[desk.sid].plate
          /\ \A u \in Sids : u # desk.sid => row'[u] = row[u]
      <4>1. /\ row'[desk.sid] # None
            /\ row'[desk.sid].exitEv = IF desk.new.exitEv # desk.seen.exitEv
                                       THEN desk.new.exitEv ELSE row[desk.sid].exitEv
            /\ row'[desk.sid].plate = row[desk.sid].plate
            /\ \A u \in Sids : u # desk.sid => row'[u] = row[u]
        BY <1>0, <2>1, <2>3, <3>1, MergeExit
      <4>2. QED
        BY <2>1, <4>1
    <3>3. QED
      BY <2>3, <3>2, LedgerStutters
  <2>4. QED
    BY <2>2, <2>3
<1>5. ASSUME DeleteSite PROVE [Ledger!LedgerNext]_(Ledger!ledgerVars)
  <2>1. \A s \in Sids : row'[s] = None
    BY <1>5 DEF DeleteSite
  <2>2. /\ OpenLedger' = [p \in Plates |-> {}]
        /\ DoneLedger' = [p \in Plates |-> {}]
    BY <2>1 DEF OpenLedger, DoneLedger, OpenSids, IsOpen
  <2>3. QED
    BY <2>2 DEF Ledger!Forget, Ledger!LedgerNext
<1>6. \A c \in Cams : ~DatabaseFails(c)
  BY DEF DatabaseFails, SingleLane
<1>7. ASSUME NEW c \in Cams, RedisFails(c) PROVE row' = row
  BY <1>7, RedisFailure
<1>8. QED
  BY <1>1, <1>2, <1>3, <1>4, <1>5, <1>6, <1>7
  DEF Next, CameraStep, ReadPlate, OpenCheck, OpenStore, CloseFetch, CloseMissing,
      CloseLoad, CloseDelete, DeskClose, DeskPaid, DeskWaive, DeskFails, TariffChange, Crash,
      Restart, Tick, vars

(* With one lane each way the rows and keys of any site, with any number of *)
(* plates, behave as the ledger of stays.                                   *)
THEOREM ImplementsTheLedger ==
  ASSUME SingleLane
  PROVE  Spec => ImplementsLedger
<1>1. Init => Ledger!LedgerInit
  BY DEF Init, Ledger!LedgerInit, OpenLedger, DoneLedger, OpenSids, IsOpen
<1>2. AllInv /\ [Next]_vars => [Ledger!LedgerNext]_(Ledger!ledgerVars)
  BY SingleLane, LedgerStep
<1>3. Spec => []AllInv
  BY SingleLane, InvsHold
<1>4. Spec => Ledger!LedgerSpec
  BY <1>1, <1>2, <1>3, PTL DEF Spec, Ledger!LedgerSpec
<1>5. QED
  BY <1>4 DEF ImplementsLedger

(***************************************************************************)
(* Who writes a row                                                        *)
(***************************************************************************)

(* A row appears, goes with its site, or is merged with what a writer has   *)
(* made of it.                                                              *)
LEMMA RowStep ==
  ASSUME TypeInv, Next, NEW s \in Sids, row'[s] # row[s]
  PROVE  \/ /\ row[s] = None /\ siteUp /\ siteUp' = siteUp
            /\ row'[s].dur = None /\ row'[s].pay = "pending"
         \/ row'[s] = None /\ ~siteUp'
         \/ \E c \in ExitCams :
              /\ cam'[c].pc # "loaded" /\ cam[c].pc = "loaded" /\ cam[c].sid = s
              /\ row[s] # None /\ row'[s] = Merge(row[s], cam[c].seen, cam[c].new)
         \/ /\ DeskCommit /\ desk # Idle /\ desk.sid = s
            /\ row[s] # None /\ row'[s] = Merge(row[s], desk.seen, desk.new)
<1> USE DEF TypeInv, TypeOK
<1>1. ASSUME NEW c \in Cams, NEW t \in Sids, OpenCommit(c, t)
      PROVE  /\ row[s] = None /\ siteUp /\ siteUp' = siteUp
             /\ row'[s].dur = None /\ row'[s].pay = "pending"
  BY <1>1 DEF OpenCommit, FreshSids
<1>2. CASE DeleteSite
  BY <1>2 DEF DeleteSite
<1>3. ASSUME NEW c \in Cams, CloseCommit(c)
      PROVE  /\ c \in ExitCams /\ cam'[c].pc # "loaded" /\ cam[c].pc = "loaded" /\ cam[c].sid = s
             /\ row[s] # None /\ row'[s] = Merge(row[s], cam[c].seen, cam[c].new)
  BY <1>3 DEF CloseCommit, Goto
<1>4. CASE DeskCommit
  BY <1>4 DEF DeskCommit
<1>5. ASSUME NEW c \in Cams
      PROVE  /\ \A p \in Plates : ~ReadPlate(c, p)
             /\ ~OpenCheck(c) /\ ~OpenStore(c) /\ ~CloseFetch(c) /\ ~CloseMissing(c)
             /\ ~CloseLoad(c) /\ ~CloseDelete(c)
  BY DEF ReadPlate, OpenCheck, OpenStore, CloseFetch, CloseMissing, CloseLoad, CloseDelete
<1>6. /\ \A t \in Sids : ~DeskClose(t) /\ ~DeskPaid(t) /\ ~DeskWaive(t)
      /\ \A t \in Tariffs \cup {NoTariff} : ~TariffChange(t)
      /\ ~Crash /\ ~Restart /\ ~Tick /\ ~DeskFails
      /\ \A c \in Cams : ~RedisFails(c)
  BY DEF DeskClose, DeskPaid, DeskWaive, DeskFails, TariffChange, Crash, Restart, Tick, RedisFails
<1>7. ASSUME NEW c \in Cams, DatabaseFails(c)
      PROVE  \/ /\ row[s] = None /\ siteUp /\ siteUp' = siteUp
                /\ row'[s].dur = None /\ row'[s].pay = "pending"
             \/ /\ c \in ExitCams /\ cam'[c].pc # "loaded" /\ cam[c].pc = "loaded" /\ cam[c].sid = s
                /\ row[s] # None /\ row'[s] = Merge(row[s], cam[c].seen, cam[c].new)
  <2>1. cam'[c].pc # "loaded" /\ siteUp' = siteUp
    BY <1>7, DatabaseFailure DEF Poisoned
  <2>2. ASSUME NEW t \in Sids, NEW r \in Row, siteUp, row[t] = None, row' = [row EXCEPT ![t] = r],
               r.dur = None, r.pay = "pending"
        PROVE  row[s] = None /\ row'[s].dur = None /\ row'[s].pay = "pending"
    BY <2>2
  <2>3. CASE /\ c \in ExitCams /\ cam[c].pc = "loaded" /\ cam[c] \in LoadedState
             /\ row[cam[c].sid] # None
             /\ row' = [row EXCEPT ![cam[c].sid] = Merge(@, cam[c].seen, cam[c].new)]
    BY <2>1, <2>3 DEF LoadedState
  <2>4. QED
    BY <1>7, <2>1, <2>2, <2>3, DatabaseFailure
<1>8. QED
  BY <1>1, <1>2, <1>3, <1>4, <1>5, <1>6, <1>7 DEF Next, CameraStep

(* What a merge writes, column by column.                                   *)
LEMMA MergeColumns ==
  ASSUME NEW a \in Row, NEW b \in Row, NEW c \in Row
  PROVE  /\ Merge(a, b, c) \in Row
         /\ Merge(a, b, c).exitEv = IF c.exitEv # b.exitEv THEN c.exitEv ELSE a.exitEv
         /\ Merge(a, b, c).dur = IF c.dur # b.dur THEN c.dur ELSE a.dur
         /\ Merge(a, b, c).snap = IF c.snap # b.snap THEN c.snap ELSE a.snap
         /\ Merge(a, b, c).amount = IF c.amount # b.amount THEN c.amount ELSE a.amount
         /\ Merge(a, b, c).pay = IF c.pay # b.pay THEN c.pay ELSE a.pay
<1>1. DOMAIN a = {"plate", "entryTs", "exitEv", "dur", "snap", "amount", "pay"}
  BY DEF Row
<1>2. QED
  BY <1>1, MergeType DEF Merge

(***************************************************************************)
(* Decisions about a row                                                   *)
(***************************************************************************)

(* An exit camera sets the exit and no payment, the desk a payment and no   *)
(* exit, whatever the row has become since they loaded it.                  *)
WritersDecide ==
  /\ \A c \in Cams : cam[c].pc = "loaded" =>
       cam[c].new.exitEv # None /\ cam[c].new.pay = cam[c].seen.pay
  /\ desk # Idle =>
       /\ desk.new.exitEv = desk.seen.exitEv
       /\ desk.new.pay # desk.seen.pay => desk.new.pay # "pending"

(* What an exit camera makes of the row it loads.                           *)
LEMMA LoadIs ==
  ASSUME TypeInv, NEW c \in Cams, CloseLoad(c)
  PROVE  LET k == cam'[c] IN
         /\ c \in ExitCams /\ k.pc = "loaded" /\ k.sid \in Sids
         /\ row[k.sid] # None /\ k.seen = row[k.sid] /\ k.seen \in Row /\ k.new \in Row
         /\ k.new.exitEv # None /\ k.new.pay = k.seen.pay
         /\ k.new.dur \in Time
         /\ k.new.snap = IF tariff = NoTariff THEN None ELSE tariff
         /\ k.new.amount = Charge(tariff, k.new.dur)
         /\ UNCHANGED <<row, desk, siteUp>> /\ \A d \in Cams \ {c} : cam'[d] = cam[d]
<1> USE DEF TypeInv, TypeOK, Past
<1>1. cam[c] \in FetchedState /\ cam[c].entry <= now /\ c \in ExitCams
  BY CamShape DEF CloseLoad
<1> DEFINE r == row[cam[c].sid]
           d == now - cam[c].entry
           b == Bill(r, d, tariff)
           n == [b EXCEPT !.exitEv = <<c, cam[c].ts>>]
<1>2. r \in Row /\ r # None
  BY <1>1 DEF CloseLoad, FetchedState
<1>3. d \in Time
  BY <1>1, ParkingAssumption DEF FetchedState, Time
<1>4. b \in Row
  BY <1>2, <1>3, BillType
<1>5. /\ b.dur = d /\ b.pay = r.pay /\ b.amount = Charge(tariff, d)
      /\ b.snap = IF tariff = NoTariff THEN None ELSE tariff
  BY <1>2 DEF Bill, Row
<1>6. <<c, cam[c].ts>> \in ExitEvent
  BY <1>1 DEF FetchedState, ExitEvent
<1> DEFINE l == [pc |-> "loaded", plate |-> cam[c].plate, sid |-> cam[c].sid, seen |-> r, new |-> n]
<1>7. /\ cam' = [cam EXCEPT ![c] = l] /\ UNCHANGED <<row, desk, siteUp>>
  BY DEF CloseLoad, Goto
<1> HIDE DEF d, b
<1>8. /\ n \in Row /\ n.exitEv = <<c, cam[c].ts>> /\ n.dur = d /\ n.pay = r.pay
      /\ n.amount = Charge(tariff, d) /\ n.snap = IF tariff = NoTariff THEN None ELSE tariff
  BY <1>4, <1>5, <1>6 DEF Row
<1>9. n.exitEv # None
  BY <1>6, <1>8, NoneAssumption
<1> HIDE DEF n
<1>10. cam'[c] = l /\ \A e \in Cams \ {c} : cam'[e] = cam[e]
  BY <1>7
<1>11. cam'[c].pc = "loaded" /\ cam'[c].sid = cam[c].sid /\ cam'[c].seen = r /\ cam'[c].new = n
  BY <1>10
<1>12. cam[c].sid \in Sids
  BY <1>1 DEF FetchedState
<1>13. QED
  BY <1>1, <1>2, <1>3, <1>7, <1>8, <1>9, <1>10, <1>11, <1>12

(* A camera has a row in hand as before, or has just loaded it.             *)
LEMMA LoadedStep ==
  ASSUME TypeInv, Next, NEW c \in Cams, cam'[c].pc = "loaded"
  PROVE  cam'[c] = cam[c] \/ CloseLoad(c)
<1> USE DEF TypeInv, TypeOK
<1>1. ASSUME NEW d \in Cams, d # c,
             CameraStep(d) \/ RedisFails(d) \/ DatabaseFails(d) \/ \E p \in Plates : ReadPlate(d, p)
      PROVE  cam'[c] = cam[c]
  BY <1>1 DEF CameraStep, RedisFails, DatabaseFails, ReadPlate, OpenCheck, OpenCommit, OpenStore, CloseFetch, CloseMissing,
         CloseLoad, CloseCommit, CloseDelete, Goto
<1>2. ASSUME \E p \in Plates : ReadPlate(c, p) PROVE FALSE
  BY <1>2 DEF ReadPlate, Goto
<1>3. ASSUME OpenCheck(c) PROVE FALSE
  <2>1. cam'[c] = Idle \/ cam'[c] = [cam[c] EXCEPT !.pc = "checked"]
    BY <1>3 DEF OpenCheck, Goto
  <2>2. cam[c] \in ReadState
    BY <1>3, CamShape DEF OpenCheck
  <2>3. QED
    BY <2>1, <2>2 DEF Idle, ReadState
<1>4. ASSUME \E s \in Sids : OpenCommit(c, s) PROVE FALSE
  BY <1>4 DEF OpenCommit, Goto, Poisoned
<1>5. ASSUME OpenStore(c) \/ CloseFetch(c) \/ CloseMissing(c) \/ CloseDelete(c) PROVE FALSE
  BY <1>5 DEF OpenStore, CloseFetch, CloseMissing, CloseDelete, Goto, Idle
<1>6. ASSUME CloseCommit(c) \/ RedisFails(c) \/ DatabaseFails(c) PROVE FALSE
  BY <1>6 DEF CloseCommit, RedisFails, DatabaseFails, Goto, Idle, Poisoned
<1>7. CASE \/ \E s \in Sids : DeskClose(s) \/ DeskPaid(s) \/ DeskWaive(s)
           \/ DeskCommit \/ DeskFails \/ DeleteSite \/ Tick
           \/ \E t \in Tariffs \cup {NoTariff} : TariffChange(t)
  BY <1>7 DEF DeskClose, DeskPaid, DeskWaive, DeskCommit, DeskFails, DeleteSite, Tick, TariffChange
<1>8. CASE Crash \/ Restart
  BY <1>8 DEF Crash, Restart, Idle, Down
<1>9. QED
  BY <1>1, <1>2, <1>3, <1>4, <1>5, <1>6, <1>7, <1>8 DEF Next, CameraStep

(* So does the desk.                                                        *)
LEMMA DeskStep ==
  ASSUME TypeInv, Next, desk' # Idle
  PROVE  desk' = desk \/ \E s \in Sids : DeskClose(s) \/ DeskPaid(s) \/ DeskWaive(s)
<1>1. ASSUME NEW c \in Cams, \/ CameraStep(c) \/ RedisFails(c) \/ DatabaseFails(c)
                              \/ \E p \in Plates : ReadPlate(c, p)
      PROVE  desk' = desk
  BY <1>1 DEF CameraStep, RedisFails, DatabaseFails, ReadPlate, OpenCheck, OpenCommit, OpenStore, CloseFetch, CloseMissing,
         CloseLoad, CloseCommit, CloseDelete
<1>2. CASE DeskCommit \/ DeskFails
  BY <1>2 DEF DeskCommit, DeskFails
<1>3. CASE DeleteSite \/ Crash \/ Restart \/ Tick \/ \E t \in Tariffs \cup {NoTariff} : TariffChange(t)
  BY <1>3 DEF DeleteSite, Tick, TariffChange, Crash, Restart
<1>4. QED
  BY <1>1, <1>2, <1>3 DEF Next

(* What the desk makes of the row it loads.                                 *)
LEMMA DeskIs ==
  ASSUME TypeInv, NEW s \in Sids, DeskClose(s) \/ DeskPaid(s) \/ DeskWaive(s)
  PROVE  /\ desk' # Idle /\ desk'.sid = s /\ desk'.seen = row[s] /\ row[s] # None
         /\ desk'.new.exitEv = desk'.seen.exitEv
         /\ DeskClose(s) => "close" \in DeskOps /\ desk'.new.pay = desk'.seen.pay
         /\ DeskPaid(s) => /\ "paid" \in DeskOps /\ desk'.new.pay = "paid"
                           /\ desk'.new.dur = row[s].dur /\ desk'.new.snap = row[s].snap
                           /\ desk'.new.amount = row[s].amount
         /\ DeskWaive(s) => /\ "waive" \in DeskOps /\ desk'.new.pay = "waived"
                            /\ desk'.new.dur = row[s].dur /\ desk'.new.snap = row[s].snap
         /\ UNCHANGED <<row, cam, siteUp>>
<1> USE DEF TypeInv, TypeOK
<1>1. row[s] \in Row /\ row[s] # None
  BY DEF DeskClose, DeskPaid, DeskWaive
<1>2. CASE DeskClose(s)
  <2> DEFINE b == Bill(row[s], now - row[s].entryTs, tariff)
  <2>1. b.exitEv = row[s].exitEv /\ b.pay = row[s].pay
    BY <1>1 DEF Bill, Row
  <2>2. desk' = [pc |-> "close", sid |-> s, seen |-> row[s], new |-> b]
    BY <1>2 DEF DeskClose
  <2> HIDE DEF b
  <2>3. desk' # Idle /\ desk'.sid = s /\ desk'.seen = row[s] /\ desk'.new = b /\ desk'.pc = "close"
    BY <2>2 DEF Idle
  <2>4. "close" \in DeskOps /\ UNCHANGED <<row, cam, siteUp>>
    BY <1>2 DEF DeskClose
  <2>5. ~DeskPaid(s) /\ ~DeskWaive(s)
    BY <2>3 DEF DeskPaid, DeskWaive
  <2>6. QED
    BY <1>1, <2>1, <2>3, <2>4, <2>5
<1>3. CASE DeskPaid(s)
  <2> DEFINE n == [row[s] EXCEPT !.pay = "paid"]
  <2>1. n.exitEv = row[s].exitEv /\ n.pay = "paid" /\ n.dur = row[s].dur /\ n.snap = row[s].snap
        /\ n.amount = row[s].amount
    BY <1>1 DEF Row
  <2>2. desk' = [pc |-> "paid", sid |-> s, seen |-> row[s], new |-> n]
    BY <1>3 DEF DeskPaid
  <2> HIDE DEF n
  <2>3. desk' # Idle /\ desk'.sid = s /\ desk'.seen = row[s] /\ desk'.new = n /\ desk'.pc = "paid"
    BY <2>2 DEF Idle
  <2>4. "paid" \in DeskOps /\ UNCHANGED <<row, cam, siteUp>>
    BY <1>3 DEF DeskPaid
  <2>5. ~DeskClose(s) /\ ~DeskWaive(s)
    BY <2>3 DEF DeskClose, DeskWaive
  <2>6. QED
    BY <1>1, <2>1, <2>3, <2>4, <2>5
<1>4. CASE DeskWaive(s)
  <2> DEFINE n == [row[s] EXCEPT !.pay = "waived", !.amount = 0]
  <2>1. n.exitEv = row[s].exitEv /\ n.pay = "waived" /\ n.dur = row[s].dur /\ n.snap = row[s].snap
    BY <1>1 DEF Row
  <2>2. desk' = [pc |-> "waive", sid |-> s, seen |-> row[s], new |-> n]
    BY <1>4 DEF DeskWaive
  <2> HIDE DEF n
  <2>3. desk' # Idle /\ desk'.sid = s /\ desk'.seen = row[s] /\ desk'.new = n /\ desk'.pc = "waive"
    BY <2>2 DEF Idle
  <2>4. "waive" \in DeskOps /\ UNCHANGED <<row, cam, siteUp>>
    BY <1>4 DEF DeskWaive
  <2>5. ~DeskClose(s) /\ ~DeskPaid(s)
    BY <2>3 DEF DeskClose, DeskPaid
  <2>6. QED
    BY <1>1, <2>1, <2>3, <2>4, <2>5
<1>5. QED
  BY <1>2, <1>3, <1>4

(* Loading and deciding keep to that.                                       *)
LEMMA WritersStep == TypeInv /\ WritersDecide /\ [Next]_vars => WritersDecide'
<1> SUFFICES ASSUME TypeInv, WritersDecide, [Next]_vars PROVE WritersDecide'
  OBVIOUS
<1>1. CASE Next
  <2>1. ASSUME NEW c \in Cams, cam'[c].pc = "loaded"
        PROVE  cam'[c].new.exitEv # None /\ cam'[c].new.pay = cam'[c].seen.pay
    <3>1. CASE cam'[c] = cam[c]
      BY <2>1, <3>1 DEF WritersDecide
    <3>2. CASE CloseLoad(c)
      BY <3>2, LoadIs
    <3>3. QED
      BY <1>1, <2>1, <3>1, <3>2, LoadedStep
  <2>2. ASSUME desk' # Idle
        PROVE  /\ desk'.new.exitEv = desk'.seen.exitEv
               /\ desk'.new.pay # desk'.seen.pay => desk'.new.pay # "pending"
    <3>1. CASE desk' = desk
      BY <2>2, <3>1 DEF WritersDecide
    <3>2. ASSUME NEW s \in Sids, DeskClose(s) \/ DeskPaid(s) \/ DeskWaive(s)
          PROVE  /\ desk'.new.exitEv = desk'.seen.exitEv
                 /\ desk'.new.pay # desk'.seen.pay => desk'.new.pay # "pending"
      BY <3>2, DeskIs
    <3>3. QED
      BY <1>1, <2>2, <3>1, <3>2, DeskStep
  <2>3. QED
    BY <2>1, <2>2 DEF WritersDecide
<1>2. CASE UNCHANGED vars
  BY <1>2 DEF WritersDecide, vars
<1>3. QED
  BY <1>1, <1>2

(* A row that stays in the table keeps its exit and its payment.            *)
LEMMA RowKeepsDecisions ==
  ASSUME TypeInv, WritersDecide, [Next]_vars, NEW s \in Sids, row[s] # None, row'[s] # None
  PROVE  /\ row[s].exitEv # None => row'[s].exitEv # None
         /\ row[s].pay # "pending" => row'[s].pay # "pending"
<1>0. row[s] \in Row
  BY DEF TypeInv, TypeOK
<1>1. CASE row'[s] = row[s]
  BY <1>1
<1>2. CASE row'[s] # row[s]
  <2>1. Next
    BY <1>2 DEF vars
  <2>2. ASSUME NEW c \in ExitCams, cam[c].pc = "loaded",
               row'[s] = Merge(row[s], cam[c].seen, cam[c].new)
        PROVE  /\ row[s].exitEv # None => row'[s].exitEv # None
               /\ row[s].pay # "pending" => row'[s].pay # "pending"
    <3>1. c \in Cams /\ cam[c] \in LoadedState
      BY <2>2, CamShape DEF TypeInv, TypeOK, Cams
    <3>2. cam[c].seen \in Row /\ cam[c].new \in Row
      BY <3>1 DEF LoadedState
    <3>3. cam[c].new.exitEv # None /\ cam[c].new.pay = cam[c].seen.pay
      BY <2>2, <3>1 DEF WritersDecide
    <3>4. QED
      BY <1>0, <2>2, <3>2, <3>3, MergeColumns
  <2>3. ASSUME desk # Idle, row'[s] = Merge(row[s], desk.seen, desk.new)
        PROVE  /\ row[s].exitEv # None => row'[s].exitEv # None
               /\ row[s].pay # "pending" => row'[s].pay # "pending"
    <3>1. desk.seen \in Row /\ desk.new \in Row
      BY <2>3, DeskShape DEF TypeInv
    <3>2. /\ desk.new.exitEv = desk.seen.exitEv
          /\ desk.new.pay # desk.seen.pay => desk.new.pay # "pending"
      BY <2>3 DEF WritersDecide
    <3>3. QED
      BY <1>0, <2>3, <3>1, <3>2, MergeColumns
  <2>4. QED
    BY <1>2, <2>1, <2>2, <2>3, RowStep
<1>3. QED
  BY <1>1, <1>2

(* On any site, with any lanes and requests, crashes and expiring keys: a   *)
(* closed stay stays closed and a payment or waiver stays one.              *)
THEOREM DecisionsAreKept == Spec => DecisionsStand
<1>1. Init => WritersDecide
  BY DEF Init, WritersDecide, Idle
<1>2. Spec => [](TypeInv /\ WritersDecide)
  BY <1>1, InitType, StepType, WritersStep, PTL DEF Spec
<1>3. TypeInv /\ WritersDecide /\ [Next]_vars =>
        [\A s \in Sids : (row[s] # None /\ ~IsOpen(s) /\ row'[s] # None)
                            => row'[s].exitEv # None]_vars
  BY RowKeepsDecisions DEF IsOpen
<1>4. TypeInv /\ WritersDecide /\ [Next]_vars =>
        [\A s \in Sids : (row[s] # None /\ row[s].pay # "pending" /\ row'[s] # None)
                            => row'[s].pay # "pending"]_vars
  BY RowKeepsDecisions
<1>5. Spec => ClosedStaysClosed
  BY <1>2, <1>3, PTL DEF Spec, ClosedStaysClosed
<1>6. Spec => PaymentNotLost
  BY <1>2, <1>4, PTL DEF Spec, PaymentNotLost
<1>7. QED
  BY <1>5, <1>6 DEF DecisionsStand

(***************************************************************************)
(* Exits that found their session                                          *)
(***************************************************************************)

(* A deleted site stays deleted.                                            *)
LEMMA SiteStep ==
  ASSUME Next, siteUp'
  PROVE  siteUp
<1>1. ASSUME NEW c \in Cams, \/ CameraStep(c) \/ RedisFails(c) \/ DatabaseFails(c)
                              \/ \E p \in Plates : ReadPlate(c, p)
      PROVE  siteUp' = siteUp
  BY <1>1 DEF CameraStep, RedisFails, DatabaseFails, ReadPlate, OpenCheck, OpenCommit, OpenStore, CloseFetch, CloseMissing,
         CloseLoad, CloseCommit, CloseDelete
<1>2. ASSUME \/ \E s \in Sids : DeskClose(s) \/ DeskPaid(s) \/ DeskWaive(s)
             \/ DeskCommit \/ DeskFails \/ Crash \/ Restart \/ Tick
             \/ \E t \in Tariffs \cup {NoTariff} : TariffChange(t)
      PROVE  siteUp' = siteUp
  BY <1>2 DEF DeskClose, DeskPaid, DeskWaive, DeskCommit, DeskFails, Crash, Restart, Tick, TariffChange
<1>3. ~DeleteSite
  BY DEF DeleteSite
<1>4. QED
  BY <1>1, <1>2, <1>3 DEF Next

Holding == {"fetched", "loaded", "closed"}

(* While the site is there an exit thread's session is a row, has its exit  *)
(* once the thread has committed, and still has one it was loaded with.     *)
HeldInv ==
  \A x \in ExitCams : (cam[x].pc \in Holding /\ siteUp) =>
    /\ row[cam[x].sid] # None
    /\ cam[x].pc = "closed" => row[cam[x].sid].exitEv # None
    /\ (cam[x].pc = "loaded" /\ cam[x].seen.exitEv # None) => row[cam[x].sid].exitEv # None

(* How a thread comes to hold a session and goes on with it.                *)
LEMMA HeldStep ==
  ASSUME TypeInv, Next, NEW x \in ExitCams, cam'[x].pc \in Holding
  PROVE  \/ cam'[x] = cam[x]
         \/ /\ cam'[x].pc = "fetched" /\ cam[x].plate \in Plates /\ key[cam[x].plate] # None
            /\ cam'[x].sid = key[cam[x].plate].sid /\ UNCHANGED <<row, siteUp>>
         \/ CloseLoad(x)
         \/ CloseCommit(x) /\ row[cam[x].sid] # None
<1> USE DEF TypeInv, TypeOK, Holding
<1>0. x \in Cams /\ x \notin EntryCams
  BY ParkingAssumption DEF Cams
<1>1. ASSUME NEW d \in Cams, d # x,
             CameraStep(d) \/ RedisFails(d) \/ DatabaseFails(d) \/ \E p \in Plates : ReadPlate(d, p)
      PROVE  cam'[x] = cam[x]
  BY <1>0, <1>1 DEF CameraStep, RedisFails, DatabaseFails, ReadPlate, OpenCheck, OpenCommit,
         OpenStore, CloseFetch, CloseMissing, CloseLoad, CloseCommit, CloseDelete, Goto
<1>2. ASSUME \E p \in Plates : ReadPlate(x, p) PROVE FALSE
  BY <1>0, <1>2 DEF ReadPlate, Goto
<1>3. ASSUME OpenCheck(x) \/ OpenStore(x) \/ \E s \in Sids : OpenCommit(x, s) PROVE FALSE
  BY <1>0, <1>3 DEF OpenCheck, OpenStore, OpenCommit
<1>4. ASSUME CloseMissing(x) \/ CloseDelete(x) \/ RedisFails(x) \/ DatabaseFails(x) PROVE FALSE
  BY <1>0, <1>4 DEF CloseMissing, CloseDelete, RedisFails, DatabaseFails, Goto, Idle, Poisoned
<1>5. ASSUME CloseFetch(x)
      PROVE  /\ cam'[x].pc = "fetched" /\ cam[x].plate \in Plates /\ key[cam[x].plate] # None
             /\ cam'[x].sid = key[cam[x].plate].sid /\ UNCHANGED <<row, siteUp>>
  <2>1. cam[x].plate \in Plates
    BY <1>0, <1>5, CamShape DEF CloseFetch, ReadState
  <2>2. key[cam[x].plate] # None
    BY <1>0, <1>5 DEF CloseFetch, Goto, Idle
  <2>3. QED
    BY <1>0, <1>5, <2>1, <2>2 DEF CloseFetch, Goto
<1>6. ASSUME CloseCommit(x) PROVE row[cam[x].sid] # None
  BY <1>0, <1>6 DEF CloseCommit, Goto, Poisoned
<1>7. CASE \/ \E s \in Sids : DeskClose(s) \/ DeskPaid(s) \/ DeskWaive(s)
           \/ DeskCommit \/ DeskFails \/ DeleteSite \/ Tick
           \/ \E t \in Tariffs \cup {NoTariff} : TariffChange(t)
  BY <1>7 DEF DeskClose, DeskPaid, DeskWaive, DeskCommit, DeskFails, DeleteSite, Tick, TariffChange
<1>8. ASSUME Crash \/ Restart PROVE FALSE
  BY <1>0, <1>8 DEF Crash, Restart, Idle, Down
<1>9. QED
  BY <1>0, <1>1, <1>2, <1>3, <1>4, <1>5, <1>6, <1>7, <1>8 DEF Next, CameraStep

(* A row of a site that is still there stays, with its exit.                *)
LEMMA RowStays ==
  ASSUME TypeInv, WritersDecide, [Next]_vars, siteUp', NEW s \in Sids, row[s] # None
  PROVE  row'[s] # None /\ (row[s].exitEv # None => row'[s].exitEv # None)
<1>1. row[s] \in Row
  BY DEF TypeInv, TypeOK
<1>2. row'[s] # None
  <2>1. CASE row'[s] = row[s]
    BY <2>1
  <2>2. CASE row'[s] # row[s]
    <3>1. Next
      BY <2>2 DEF vars
    <3>2. ASSUME NEW c \in ExitCams, cam[c].pc = "loaded",
                 row'[s] = Merge(row[s], cam[c].seen, cam[c].new)
          PROVE  row'[s] # None
      <4>1. cam[c] \in LoadedState
        BY <3>2, CamShape DEF TypeInv, TypeOK, Cams
      <4>2. cam[c].seen \in Row /\ cam[c].new \in Row
        BY <4>1 DEF LoadedState
      <4>3. QED
        BY <1>1, <3>2, <4>2, MergeType, NoneAssumption
    <3>3. ASSUME desk # Idle, row'[s] = Merge(row[s], desk.seen, desk.new)
          PROVE  row'[s] # None
      <4>1. desk.seen \in Row /\ desk.new \in Row
        BY <3>3, DeskShape DEF TypeInv
      <4>2. QED
        BY <1>1, <3>3, <4>1, MergeType, NoneAssumption
    <3>4. QED
      BY <2>2, <3>1, <3>2, <3>3, RowStep
  <2>3. QED
    BY <2>1, <2>2
<1>3. QED
  BY <1>2, RowKeepsDecisions

(* Every step keeps what the exit threads hold.                             *)
LEMMA StepHeld == TypeInv /\ KeyInv /\ WritersDecide /\ HeldInv /\ [Next]_vars => HeldInv'
<1> SUFFICES ASSUME TypeInv, KeyInv, WritersDecide, HeldInv, [Next]_vars,
                    NEW x \in ExitCams, cam'[x].pc \in Holding, siteUp'
             PROVE  /\ row'[cam'[x].sid] # None
                    /\ cam'[x].pc = "closed" => row'[cam'[x].sid].exitEv # None
                    /\ (cam'[x].pc = "loaded" /\ cam'[x].seen.exitEv # None)
                          => row'[cam'[x].sid].exitEv # None
  BY DEF HeldInv
<1>0. x \in Cams
  BY DEF Cams
<1>1. siteUp
  BY SiteStep DEF vars
<1>2. CASE cam'[x] = cam[x]
  <2>1. PICK s \in Sids : s = cam[x].sid
    BY <1>0, <1>2, SidsOf DEF Holding
  <2>2. /\ row[s] # None
        /\ cam[x].pc = "closed" => row[s].exitEv # None
        /\ (cam[x].pc = "loaded" /\ cam[x].seen.exitEv # None) => row[s].exitEv # None
    BY <1>1, <1>2, <2>1 DEF HeldInv
  <2>3. row'[s] # None /\ (row[s].exitEv # None => row'[s].exitEv # None)
    BY <2>2, RowStays
  <2>4. QED
    BY <1>2, <2>1, <2>2, <2>3
<1>3. CASE /\ cam'[x].pc = "fetched" /\ cam[x].plate \in Plates /\ key[cam[x].plate] # None
           /\ cam'[x].sid = key[cam[x].plate].sid /\ UNCHANGED <<row, siteUp>>
  BY <1>1, <1>3 DEF KeyInv, KeyNamesOwnSession
<1>4. CASE CloseLoad(x)
  <2>1. PICK k : k = cam'[x]
    OBVIOUS
  <2>2. /\ k.pc = "loaded" /\ row[k.sid] # None /\ k.seen = row[k.sid] /\ row' = row
    BY <1>0, <1>4, <2>1, LoadIs
  <2>3. QED
    BY <2>1, <2>2
<1>5. CASE CloseCommit(x) /\ row[cam[x].sid] # None
  <2>1. cam[x] \in LoadedState /\ cam[x].pc = "loaded"
    BY <1>0, <1>5, CamShape DEF CloseCommit, TypeInv, TypeOK
  <2>2. PICK s \in Sids : s = cam[x].sid
    BY <2>1 DEF LoadedState
  <2>3. cam'[x].pc = "closed" /\ cam'[x].sid = s
    BY <1>0, <1>5, <2>2 DEF CloseCommit, Goto, TypeInv, TypeOK
  <2>4. /\ cam[x].seen \in Row /\ cam[x].new \in Row /\ Keeps(cam[x].seen, cam[x].new)
        /\ cam[x].new.exitEv # None
    BY <1>0, <2>1 DEF LoadedState, TypeInv, WritersKeep, WritersDecide
  <2>5. row' = [row EXCEPT ![s] = Merge(@, cam[x].seen, cam[x].new)]
    BY <1>5, <2>2 DEF CloseCommit
  <2>6. /\ row'[s] # None
        /\ row'[s].exitEv = IF cam[x].new.exitEv # cam[x].seen.exitEv
                            THEN cam[x].new.exitEv ELSE row[s].exitEv
    BY <1>5, <2>2, <2>4, <2>5, MergeExit
  <2>7. cam[x].seen.exitEv # None => row[s].exitEv # None
    BY <1>1, <2>1, <2>2 DEF HeldInv, Holding
  <2>8. QED
    BY <2>3, <2>4, <2>6, <2>7
<1>6. CASE UNCHANGED vars
  BY <1>2, <1>6 DEF vars
<1>7. QED
  BY <1>2, <1>3, <1>4, <1>5, <1>6, HeldStep

(* A thread gets back to its frames with a session in hand only once it is  *)
(* closed, or by finding it gone.                                           *)
LEMMA HoldingEnds ==
  ASSUME TypeInv, Next, NEW x \in ExitCams, cam[x].pc \in Holding, cam'[x] = Idle
  PROVE  UNCHANGED <<row, siteUp>> /\ (cam[x].pc = "closed" \/ row[cam[x].sid] = None)
<1> USE DEF TypeInv, TypeOK, Holding
<1>0. x \in Cams /\ x \notin EntryCams
  BY ParkingAssumption DEF Cams
<1>1. ASSUME NEW d \in Cams, d # x,
             CameraStep(d) \/ RedisFails(d) \/ DatabaseFails(d) \/ \E p \in Plates : ReadPlate(d, p)
      PROVE  FALSE
  <2>1. cam'[x] = cam[x]
    BY <1>0, <1>1 DEF CameraStep, RedisFails, DatabaseFails, ReadPlate, OpenCheck, OpenCommit,
         OpenStore, CloseFetch, CloseMissing, CloseLoad, CloseCommit, CloseDelete, Goto
  <2>2. QED
    BY <2>1 DEF Idle
<1>2. ASSUME \/ \E p \in Plates : ReadPlate(x, p)
             \/ OpenCheck(x) \/ OpenStore(x) \/ \E s \in Sids : OpenCommit(x, s)
             \/ CloseFetch(x) \/ CloseLoad(x) \/ CloseCommit(x) \/ DatabaseFails(x)
      PROVE  FALSE
  BY <1>0, <1>2 DEF ReadPlate, OpenCheck, OpenStore, OpenCommit, CloseFetch, CloseLoad,
         CloseCommit, DatabaseFails, Goto, Idle, Poisoned
<1>3. CASE CloseMissing(x) \/ CloseDelete(x)
  BY <1>3 DEF CloseMissing, CloseDelete
<1>4. CASE RedisFails(x)
  BY <1>4 DEF RedisFails
<1>5. ASSUME \/ \E s \in Sids : DeskClose(s) \/ DeskPaid(s) \/ DeskWaive(s)
             \/ DeskCommit \/ DeskFails \/ DeleteSite \/ Tick
             \/ \E t \in Tariffs \cup {NoTariff} : TariffChange(t)
      PROVE  FALSE
  <2>1. cam' = cam
    BY <1>5 DEF DeskClose, DeskPaid, DeskWaive, DeskCommit, DeskFails, DeleteSite, Tick, TariffChange
  <2>2. Idle.pc = "idle"
    BY DEF Idle
  <2>3. QED
    BY <2>1, <2>2
<1>6. ASSUME Crash \/ Restart PROVE FALSE
  BY <1>0, <1>6 DEF Crash, Restart, Idle, Down
<1>7. QED
  BY <1>0, <1>1, <1>2, <1>3, <1>4, <1>5, <1>6 DEF Next, CameraStep

(* With any number of lanes, requests of every kind, failing calls, crashes *)
(* and expiring keys: an exit thread that found an open session never goes  *)
(* back to its frames with that session open.                               *)
THEOREM ExitsClose == Spec => ExitEndsClosed
<1>1. Init => WritersDecide /\ HeldInv
  BY DEF Init, WritersDecide, HeldInv, Holding, Idle, Cams
<1>2. Spec => [](TypeInv /\ KeyInv /\ WritersDecide /\ HeldInv)
  BY <1>1, InitType, StepType, InitKey, StepKey, WritersStep, StepHeld, PTL DEF Spec
<1>3. ASSUME TypeInv, HeldInv, [Next]_vars, NEW x \in ExitCams,
             cam[x].pc \in Holding, cam'[x] = Idle, siteUp'
      PROVE  row'[cam[x].sid] # None /\ row'[cam[x].sid].exitEv # None
  <2>a. Idle.pc = "idle"
    BY DEF Idle
  <2>b. cam' # cam
    BY <1>3, <2>a DEF Holding
  <2>1. Next
    BY <1>3, <2>b DEF vars
  <2>2. UNCHANGED <<row, siteUp>> /\ (cam[x].pc = "closed" \/ row[cam[x].sid] = None)
    BY <1>3, <2>1, HoldingEnds
  <2>3. QED
    BY <1>3, <2>2 DEF HeldInv
<1>4. TypeInv /\ HeldInv /\ [Next]_vars =>
        [\A x \in ExitCams :
           (InHands(x, {"fetched", "loaded", "closed"}) /\ cam'[x] = Idle /\ siteUp')
             => row'[cam[x].sid] # None /\ row'[cam[x].sid].exitEv # None]_vars
  BY <1>3 DEF InHands, Holding
<1>5. QED
  BY <1>2, <1>4, PTL DEF Spec, ExitEndsClosed

(***************************************************************************)
(* Bills                                                                   *)
(***************************************************************************)

(* One exit lane and no close at the desk, so one writer bills; and a desk  *)
(* that takes payments or waives, not both, so a waived charge stays waived. *)
OneBiller ==
  /\ \A c, d \in ExitCams : c = d
  /\ "close" \notin DeskOps
  /\ ~({"paid", "waive"} \subseteq DeskOps)

(* A longer stay never costs less: LongerChargeNoLess says so of the rules  *)
(* of Tariff.                                                               *)
ChargeGrows ==
  \A t \in Tariffs \cup {NoTariff}, d, e \in Time : d <= e => Charge(t, d) <= Charge(t, e)

Waived(s) == row[s] # None /\ row[s].pay = "waived"

(* The charge of a row's own duration under its own snapshot.               *)
OwnCharge(r) == Charge(IF r.snap = None THEN NoTariff ELSE r.snap, r.dur)

(* What the exit camera has in hand is a bill of its own columns, and the   *)
(* three columns it compares with are still those of the row.               *)
CameraBills ==
  \A c \in ExitCams : cam[c].pc = "loaded" =>
    LET k == cam[c] IN
    /\ k.new.dur # None /\ k.new.amount = OwnCharge(k.new) /\ k.new.pay = k.seen.pay
    /\ siteUp => row[k.sid] # None
    /\ row[k.sid] # None =>
         /\ row[k.sid].dur = k.seen.dur /\ row[k.sid].snap = k.seen.snap
         /\ ~Waived(k.sid) => row[k.sid].amount = k.seen.amount

(* The desk touches the charge only to waive it, and a waiver it has seen   *)
(* is still there.                                                          *)
DeskWaives ==
  desk # Idle =>
    /\ desk.new.dur = desk.seen.dur /\ desk.new.snap = desk.seen.snap
    /\ \/ "waive" \in DeskOps /\ desk.new.pay = "waived"
       \/ /\ "waive" \notin DeskOps
          /\ desk.new.pay = "paid" /\ desk.new.amount = desk.seen.amount
    /\ siteUp => row[desk.sid] # None
    /\ (row[desk.sid] # None /\ desk.seen.pay = "waived") => Waived(desk.sid)

(* Nobody else waives.                                                      *)
WaiversFromDesk == "waive" \notin DeskOps => \A s \in Sids : ~Waived(s)

BillInv == BillMatchesDuration /\ CameraBills /\ DeskWaives /\ WaiversFromDesk

(* The exit camera's commit leaves its bill in the row and the payment      *)
(* state alone.                                                             *)
LEMMA CameraWrites ==
  ASSUME TypeInv, BillInv, NEW c \in ExitCams, cam[c].pc = "loaded",
         NEW s \in Sids, cam[c].sid = s, row[s] # None,
         row'[s] = Merge(row[s], cam[c].seen, cam[c].new)
  PROVE  /\ row'[s] \in Row /\ row'[s] # None /\ row'[s].pay = row[s].pay
         /\ row[s].pay # "waived" => row'[s].amount = OwnCharge(row'[s])
<1>1. c \in Cams /\ cam[c] \in LoadedState
  BY CamShape DEF TypeInv, TypeOK, Cams
<1>2. cam[c].seen \in Row /\ cam[c].new \in Row /\ row[s] \in Row
  BY <1>1 DEF LoadedState, TypeInv, TypeOK
<1>3. /\ cam[c].new.amount = OwnCharge(cam[c].new) /\ cam[c].new.pay = cam[c].seen.pay
      /\ row[s].dur = cam[c].seen.dur /\ row[s].snap = cam[c].seen.snap
      /\ row[s].pay # "waived" => row[s].amount = cam[c].seen.amount
  BY DEF BillInv, CameraBills, Waived
<1>4. /\ row'[s] \in Row /\ row'[s].pay = row[s].pay
      /\ row'[s].dur = cam[c].new.dur /\ row'[s].snap = cam[c].new.snap
      /\ row[s].pay # "waived" => row'[s].amount = cam[c].new.amount
  BY <1>2, <1>3, MergeColumns
<1>5. row'[s] # None
  BY <1>4, NoneAssumption
<1>6. QED
  BY <1>3, <1>4, <1>5 DEF OwnCharge

(* The desk's commit leaves duration and snapshot alone, and the charge of  *)
(* a row it does not waive.                                                 *)
LEMMA DeskWrites ==
  ASSUME TypeInv, BillInv, desk # Idle, NEW s \in Sids, desk.sid = s, row[s] # None,
         row'[s] = Merge(row[s], desk.seen, desk.new)
  PROVE  /\ row'[s] \in Row /\ row'[s] # None
         /\ row'[s].dur = row[s].dur /\ row'[s].snap = row[s].snap
         /\ row[s].pay = "waived" => row'[s].pay = "waived"
         /\ row'[s].pay # "waived" => row'[s].amount = row[s].amount
         /\ row'[s].pay = "waived" => "waive" \in DeskOps
<1>1. desk.seen \in Row /\ desk.new \in Row /\ row[s] \in Row
  BY DeskShape DEF TypeInv, TypeOK
<1>2. /\ desk.new.dur = desk.seen.dur /\ desk.new.snap = desk.seen.snap
      /\ \/ "waive" \in DeskOps /\ desk.new.pay = "waived"
         \/ /\ "waive" \notin DeskOps
            /\ desk.new.pay = "paid" /\ desk.new.amount = desk.seen.amount
      /\ desk.seen.pay = "waived" => row[s].pay = "waived"
      /\ "waive" \notin DeskOps => row[s].pay # "waived"
  BY DEF BillInv, DeskWaives, WaiversFromDesk, Waived
<1>3. /\ row'[s] \in Row
      /\ row'[s].dur = row[s].dur /\ row'[s].snap = row[s].snap
      /\ row'[s].amount = IF desk.new.amount # desk.seen.amount THEN desk.new.amount ELSE row[s].amount
      /\ row'[s].pay = IF desk.new.pay # desk.seen.pay THEN desk.new.pay ELSE row[s].pay
  BY <1>1, <1>2, MergeColumns
<1>4. row'[s] # None
  BY <1>3, NoneAssumption
<1>5. QED
  BY <1>2, <1>3, <1>4

(* Nothing is billed at first.                                              *)
LEMMA InitBill == Init => BillInv
  BY DEF Init, BillInv, BillMatchesDuration, CameraBills, DeskWaives, WaiversFromDesk, Waived,
         Idle, Cams

(* Every step keeps the bills and what their writers know.                  *)
LEMMA StepBill == OneBiller /\ TypeInv /\ BillInv /\ [Next]_vars => BillInv'
<1> SUFFICES ASSUME OneBiller, TypeInv, BillInv, Next PROVE BillInv'
  <2>1. ASSUME BillInv, UNCHANGED vars PROVE BillInv'
    BY <2>1 DEF BillInv, BillMatchesDuration, CameraBills, DeskWaives, WaiversFromDesk, Waived,
           OwnCharge, vars
  <2>2. QED
    BY <2>1
<1>1. BillMatchesDuration'
  <2>1. SUFFICES ASSUME NEW s \in Sids, row'[s] # None, row'[s].dur # None, row'[s].pay # "waived"
                 PROVE  row'[s].amount = OwnCharge(row'[s])
    BY DEF BillMatchesDuration, OwnCharge
  <2>2. CASE row'[s] = row[s]
    BY <2>1, <2>2 DEF BillInv, BillMatchesDuration, OwnCharge
  <2>3. ASSUME NEW c \in ExitCams, cam[c].pc = "loaded", cam[c].sid = s, row[s] # None,
               row'[s] = Merge(row[s], cam[c].seen, cam[c].new)
        PROVE  row'[s].amount = OwnCharge(row'[s])
    BY <2>1, <2>3, CameraWrites
  <2>4. ASSUME desk # Idle, desk.sid = s, row[s] # None, row'[s] = Merge(row[s], desk.seen, desk.new)
        PROVE  row'[s].amount = OwnCharge(row'[s])
    <3>1. /\ row'[s].dur = row[s].dur /\ row'[s].snap = row[s].snap /\ row[s].pay # "waived"
          /\ row'[s].amount = row[s].amount
      BY <2>1, <2>4, DeskWrites
    <3>2. QED
      BY <2>1, <2>4, <3>1 DEF BillInv, BillMatchesDuration, OwnCharge
  <2>5. QED
    BY <2>1, <2>2, <2>3, <2>4, RowStep
<1>2. CameraBills'
  <2> SUFFICES ASSUME NEW c \in ExitCams, cam'[c].pc = "loaded"
               PROVE  LET k == cam'[c] IN
                      /\ k.new.dur # None /\ k.new.amount = OwnCharge(k.new) /\ k.new.pay = k.seen.pay
                      /\ siteUp' => row'[k.sid] # None
                      /\ row'[k.sid] # None =>
                           /\ row'[k.sid].dur = k.seen.dur /\ row'[k.sid].snap = k.seen.snap
                           /\ row'[k.sid].pay # "waived" => row'[k.sid].amount = k.seen.amount
    BY DEF CameraBills, OwnCharge, Waived
  <2>0. c \in Cams
    BY DEF Cams
  <2>1. CASE CloseLoad(c)
    <3>1. PICK k : k = cam'[c]
      OBVIOUS
    <3>2. /\ k.sid \in Sids /\ row[k.sid] # None /\ k.seen = row[k.sid]
          /\ k.new.pay = k.seen.pay /\ k.new.dur \in Time
          /\ k.new.snap = IF tariff = NoTariff THEN None ELSE tariff
          /\ k.new.amount = Charge(tariff, k.new.dur)
          /\ UNCHANGED <<row, siteUp>>
      BY <2>0, <2>1, <3>1, LoadIs
    <3>3. k.new.dur # None
      BY <3>2, NoneAssumption DEF Time
    <3>4. tariff \in Tariffs \cup {NoTariff} /\ tariff # None
      BY NoneAssumption DEF TypeInv, TypeOK
    <3>5. k.new.amount = OwnCharge(k.new)
      BY <3>2, <3>4 DEF OwnCharge
    <3>6. QED
      BY <3>1, <3>2, <3>3, <3>5
  <2>2. CASE cam'[c] = cam[c]
    <3>1. PICK k : k = cam[c]
      OBVIOUS
    <3>2. cam[c] \in LoadedState /\ k.sid \in Sids
      BY <2>0, <2>2, <3>1, CamShape DEF TypeInv, TypeOK, LoadedState
    <3>3. PICK s \in Sids : s = k.sid
      BY <3>2
    <3>4. /\ k.new.dur # None /\ k.new.amount = OwnCharge(k.new) /\ k.new.pay = k.seen.pay
          /\ siteUp => row[s] # None
          /\ row[s] # None =>
               /\ row[s].dur = k.seen.dur /\ row[s].snap = k.seen.snap
               /\ row[s].pay # "waived" => row[s].amount = k.seen.amount
      BY <2>2, <3>1, <3>3 DEF BillInv, CameraBills, Waived
    <3>5. /\ siteUp' => row'[s] # None
          /\ row'[s] # None =>
               /\ row'[s].dur = k.seen.dur /\ row'[s].snap = k.seen.snap
               /\ row'[s].pay # "waived" => row'[s].amount = k.seen.amount
      <4>1. CASE row'[s] = row[s]
        BY <3>4, <4>1, SiteStep
      <4>2. ASSUME NEW d \in ExitCams, cam'[d].pc # "loaded" PROVE FALSE
        <5>1. d = c
          BY DEF OneBiller
        <5>2. QED
          BY <4>2, <5>1
      <4>3. CASE /\ desk # Idle /\ desk.sid = s /\ row[s] # None
                 /\ row'[s] = Merge(row[s], desk.seen, desk.new)
        BY <3>4, <4>3, DeskWrites
      <4>4. QED
        BY <3>4, <4>1, <4>2, <4>3, RowStep
    <3>6. QED
      BY <2>2, <3>1, <3>3, <3>4, <3>5
  <2>3. QED
    BY <2>0, <2>1, <2>2, LoadedStep
<1>3. DeskWaives'
  <2> SUFFICES ASSUME desk' # Idle
               PROVE  /\ desk'.new.dur = desk'.seen.dur /\ desk'.new.snap = desk'.seen.snap
                      /\ \/ "waive" \in DeskOps /\ desk'.new.pay = "waived"
                         \/ /\ "waive" \notin DeskOps
                            /\ desk'.new.pay = "paid" /\ desk'.new.amount = desk'.seen.amount
                      /\ siteUp' => row'[desk'.sid] # None
                      /\ (row'[desk'.sid] # None /\ desk'.seen.pay = "waived")
                            => row'[desk'.sid].pay = "waived"
    BY DEF DeskWaives, Waived
  <2>1. ASSUME NEW s \in Sids, DeskClose(s) PROVE FALSE
    BY <2>1 DEF DeskClose, OneBiller
  <2>2. ASSUME NEW s \in Sids, DeskPaid(s) \/ DeskWaive(s)
        PROVE  /\ desk'.new.dur = desk'.seen.dur /\ desk'.new.snap = desk'.seen.snap
               /\ \/ "waive" \in DeskOps /\ desk'.new.pay = "waived"
                  \/ /\ "waive" \notin DeskOps
                     /\ desk'.new.pay = "paid" /\ desk'.new.amount = desk'.seen.amount
               /\ siteUp' => row'[desk'.sid] # None
               /\ (row'[desk'.sid] # None /\ desk'.seen.pay = "waived")
                     => row'[desk'.sid].pay = "waived"
    BY <2>2, DeskIs DEF OneBiller
  <2>3. CASE desk' = desk
    <3>1. PICK s \in Sids : s = desk.sid
      BY <2>3, DeskShape DEF TypeInv
    <3>2. /\ desk.new.dur = desk.seen.dur /\ desk.new.snap = desk.seen.snap
          /\ \/ "waive" \in DeskOps /\ desk.new.pay = "waived"
             \/ /\ "waive" \notin DeskOps
                /\ desk.new.pay = "paid" /\ desk.new.amount = desk.seen.amount
          /\ siteUp => row[s] # None
          /\ (row[s] # None /\ desk.seen.pay = "waived") => row[s].pay = "waived"
      BY <2>3, <3>1 DEF BillInv, DeskWaives, Waived
    <3>3. /\ siteUp' => row'[s] # None
          /\ (row'[s] # None /\ desk.seen.pay = "waived") => row'[s].pay = "waived"
      <4>1. CASE row'[s] = row[s]
        BY <3>2, <4>1, SiteStep
      <4>2. ASSUME NEW c \in ExitCams, cam[c].pc = "loaded", cam[c].sid = s, row[s] # None,
                   row'[s] = Merge(row[s], cam[c].seen, cam[c].new)
            PROVE  row'[s] # None /\ row'[s].pay = row[s].pay
        BY <4>2, CameraWrites
      <4>3. ~DeskCommit
        BY DEF DeskCommit
      <4>4. QED
        BY <3>2, <4>1, <4>2, <4>3, RowStep
    <3>4. QED
      BY <2>3, <3>1, <3>2, <3>3
  <2>4. QED
    BY <2>1, <2>2, <2>3, DeskStep
<1>4. WaiversFromDesk'
  <2> SUFFICES ASSUME "waive" \notin DeskOps, NEW s \in Sids, row'[s] # None
               PROVE  row'[s].pay # "waived"
    BY DEF WaiversFromDesk, Waived
  <2>1. row[s] # None => row[s].pay # "waived"
    BY DEF BillInv, WaiversFromDesk, Waived
  <2>2. CASE row'[s] = row[s]
    BY <2>1, <2>2
  <2>3. ASSUME NEW c \in ExitCams, cam[c].pc = "loaded", cam[c].sid = s, row[s] # None,
               row'[s] = Merge(row[s], cam[c].seen, cam[c].new)
        PROVE  row'[s].pay = row[s].pay
    BY <2>3, CameraWrites
  <2>4. CASE /\ desk # Idle /\ desk.sid = s /\ row[s] # None
             /\ row'[s] = Merge(row[s], desk.seen, desk.new)
    BY <2>4, DeskWrites
  <2>5. QED
    BY <2>1, <2>2, <2>3, <2>4, RowStep
<1>5. QED
  BY <1>1, <1>2, <1>3, <1>4 DEF BillInv

(* With one exit lane and a desk that either takes payments or waives, the  *)
(* charge of every billed session is that of its own duration and of the    *)
(* rules that were frozen with it, whatever they are: through crashes,      *)
(* repeated exits, tariff changes and overlapping commits.                  *)
THEOREM BillsMatch ==
  ASSUME OneBiller
  PROVE  Spec => [](TypeInv /\ BillMatchesDuration)
<1>1. Spec => [](TypeInv /\ BillInv)
  BY OneBiller, InitType, StepType, InitBill, StepBill, PTL DEF Spec
<1>2. QED
  BY <1>1, PTL DEF BillInv

(* So where the rules charge no less for a longer time, of two stays under  *)
(* the same rules the longer one is not the cheaper.                        *)
THEOREM BillsHold ==
  ASSUME OneBiller, ChargeGrows
  PROVE  Spec => []BillsAreRight
<1>1. Spec => [](TypeInv /\ BillMatchesDuration)
  BY OneBiller, BillsMatch
<1>2. TypeInv /\ BillMatchesDuration => LongerStayCostsNoLess
  <2> SUFFICES ASSUME TypeInv, BillMatchesDuration,
                      NEW s \in Sids, NEW t \in Sids,
                      row[s] # None, row[s].dur # None, row[s].pay # "waived",
                      row[t] # None, row[t].dur # None, row[t].pay # "waived",
                      row[s].snap = row[t].snap, row[s].dur <= row[t].dur
               PROVE  row[s].amount <= row[t].amount
    BY DEF LongerStayCostsNoLess
  <2>1. row[s] \in Row /\ row[t] \in Row
    BY DEF TypeInv, TypeOK
  <2>2. PICK r \in Tariffs \cup {NoTariff} : r = IF row[s].snap = None THEN NoTariff ELSE row[s].snap
    BY <2>1 DEF Row
  <2>3. row[s].dur \in Time /\ row[t].dur \in Time
    BY <2>1 DEF Row
  <2>4. row[s].amount = Charge(r, row[s].dur) /\ row[t].amount = Charge(r, row[t].dur)
    BY <2>2 DEF BillMatchesDuration
  <2>5. QED
    BY <2>2, <2>3, <2>4, ChargeGrows DEF ChargeGrows
<1>3. QED
  BY <1>1, <1>2, PTL DEF BillsAreRight

(***************************************************************************)
(* Sums                                                                    *)
(***************************************************************************)

(* Some numbers have a least one.                                           *)
LEMMA LeastNumber ==
  ASSUME NEW T, T \subseteq Nat, T # {}
  PROVE  \E n \in T : \A k \in T : n <= k
<1>1. PICK n \in T : \A k \in T : <<k, n>> \notin OpToRel(<, Nat)
  BY WFMin, NatLessThanWellFounded
<1>2. \A k \in T : k \in Nat /\ n \in Nat /\ ~(k < n)
  BY <1>1 DEF OpToRel
<1>3. QED
  BY <1>2

(* A set of parts of S that holds the empty one, and a part whenever it     *)
(* holds that part without any one of its elements, holds them all: of the  *)
(* parts it did not hold one would be smallest.                             *)
LEMMA PartsInduction ==
  ASSUME NEW S, IsFiniteSet(S), NEW P, {} \in P,
         \A s \in SUBSET S : s # {} /\ (\A x \in s : s \ {x} \in P) => s \in P
  PROVE  \A s \in SUBSET S : s \in P
<1> DEFINE Sizes == {n \in Nat : \E s \in SUBSET S : Cardinality(s) = n /\ s \notin P}
<1>1. SUFFICES ASSUME NEW q \in SUBSET S, q \notin P PROVE FALSE
  OBVIOUS
<1>2. \A s \in SUBSET S : IsFiniteSet(s) /\ Cardinality(s) \in Nat
  BY FS_Subset, FS_CardinalityType
<1>3. Sizes # {} /\ Sizes \subseteq Nat
  BY <1>1, <1>2
<1>4. PICK n \in Sizes : \A k \in Sizes : n <= k
  BY <1>3, LeastNumber
<1>5. PICK s \in SUBSET S : Cardinality(s) = n /\ s \notin P
  BY <1>4
<1>6. PICK x \in s : s \ {x} \notin P
  BY <1>5
<1> DEFINE t == s \ {x}
<1>7. t \in SUBSET S /\ Cardinality(t) = n - 1 /\ Cardinality(t) \in Nat
  BY <1>2, <1>5, <1>6, FS_RemoveElement
<1>8. n - 1 \in Sizes
  BY <1>6, <1>7
<1>9. n \in Nat
  BY <1>4
<1> HIDE DEF Sizes, t
<1>10. QED
  BY <1>4, <1>8, <1>9

(* What MapThenSumSet is: g sums the terms F of every part of S, the first  *)
(* element of a part by choice.                                             *)
First(s) == CHOOSE x \in s : TRUE
IsSum(S, F, g) ==
  g = [s \in SUBSET S |-> IF s = {} THEN 0 ELSE F[First(s)] + g[s \ {First(s)}]]

(* The first element of a set is in it.                                     *)
LEMMA FirstIsIn ==
  ASSUME NEW s, s # {}
  PROVE  First(s) \in s
  BY DEF First

(* There is such a function: what there is for parts of n elements extends  *)
(* to those of n + 1.                                                       *)
LEMMA SumExists ==
  ASSUME NEW S, IsFiniteSet(S), NEW F
  PROVE  \E g : IsSum(S, F, g)
<1> DEFINE Small(n) == {s \in SUBSET S : Cardinality(s) <= n}
           Body(g, s) == IF s = {} THEN 0 ELSE F[First(s)] + g[s \ {First(s)}]
           Good(n) == \E g : g = [s \in Small(n) |-> Body(g, s)]
           Bad == {n \in Nat : ~Good(n)}
<1>1. \A s \in SUBSET S : IsFiniteSet(s) /\ Cardinality(s) \in Nat
  BY FS_Subset, FS_CardinalityType
<1>2. \A s \in SUBSET S : s # {} =>
        /\ s \ {First(s)} \in SUBSET S
        /\ Cardinality(s \ {First(s)}) = Cardinality(s) - 1
  BY <1>1, FirstIsIn, FS_RemoveElement
<1>3. Good(0)
  <2>1. \A s \in Small(0) : s = {}
    BY <1>1, FS_EmptySet
  <2> DEFINE g == [s \in Small(0) |-> 0]
  <2>2. g = [s \in Small(0) |-> Body(g, s)]
    BY <2>1
  <2>3. QED
    BY <2>2
<1>4. ASSUME NEW n \in Nat, Good(n)
      PROVE  Good(n + 1)
  <2>1. PICK g : g = [s \in Small(n) |-> Body(g, s)]
    BY <1>4
  <2> DEFINE h == [s \in Small(n + 1) |-> Body(g, s)]
  <2>2. Small(n) \subseteq Small(n + 1)
    BY <1>1
  <2>3. \A s \in Small(n) : h[s] = g[s]
    BY <2>1, <2>2
  <2>4. \A s \in Small(n + 1) : s # {} => s \ {First(s)} \in Small(n)
    BY <1>1, <1>2
  <2>5. \A s \in Small(n + 1) : Body(g, s) = Body(h, s)
    BY <2>3, <2>4
  <2>6. h = [s \in Small(n + 1) |-> Body(h, s)]
    BY <2>5
  <2>7. QED
    BY <2>6
<1>5. \A n \in Nat : Good(n)
  <2> HIDE DEF Good
  <2>1. SUFFICES ASSUME Bad # {} PROVE FALSE
    OBVIOUS
  <2>2. PICK n \in Bad : \A k \in Bad : n <= k
    BY <2>1, LeastNumber
  <2>3. n \in Nat /\ n # 0 /\ ~Good(n)
    BY <1>3, <2>2
  <2>4. ~Good(n - 1)
    BY <1>4, <2>3
  <2>5. n - 1 \in Bad
    BY <2>3, <2>4
  <2> HIDE DEF Bad
  <2>6. QED
    BY <2>2, <2>3, <2>5
<1>6. Small(Cardinality(S)) = SUBSET S
  BY FS_Subset, FS_CardinalityType
<1>7. PICK g : g = [s \in Small(Cardinality(S)) |-> Body(g, s)]
  BY <1>5, FS_CardinalityType
<1>8. g = [s \in SUBSET S |-> Body(g, s)]
  BY <1>6, <1>7
<1>9. QED
  BY <1>8 DEF IsSum

(* A sum of natural numbers is one.                                         *)
LEMMA SumType ==
  ASSUME NEW S, IsFiniteSet(S), NEW F \in [S -> Nat], NEW g, IsSum(S, F, g)
  PROVE  \A s \in SUBSET S : g[s] \in Nat
<1> DEFINE P == {s \in SUBSET S : g[s] \in Nat}
<1>1. {} \in P
  BY DEF IsSum
<1>2. ASSUME NEW s \in SUBSET S, s # {}, \A x \in s : s \ {x} \in P
      PROVE  s \in P
  <2>1. g[s] = F[First(s)] + g[s \ {First(s)}]
    BY <1>2 DEF IsSum
  <2>2. First(s) \in s /\ F[First(s)] \in Nat /\ g[s \ {First(s)}] \in Nat
    BY <1>2, FirstIsIn
  <2>3. QED
    BY <2>1, <2>2
<1> HIDE DEF P
<1>3. \A s \in SUBSET S : s \in P
  BY <1>1, <1>2, PartsInduction
<1>4. QED
  BY <1>3 DEF P

(* A sum taken in any order: whichever element comes first.                 *)
AnyOrder(S, F, g) == \A s \in SUBSET S : \A x \in s : g[s] = F[x] + g[s \ {x}]

(* The element CHOOSE takes first makes no difference to a sum, so that a   *)
(* tier can be taken off the charge wherever it stands in the loop.         *)
LEMMA AnyFirst ==
  ASSUME NEW S, IsFiniteSet(S), NEW F \in [S -> Nat], NEW g, IsSum(S, F, g)
  PROVE  AnyOrder(S, F, g)
<1> DEFINE P == {s \in SUBSET S : \A x \in s : g[s] = F[x] + g[s \ {x}]}
<1>1. {} \in P
  OBVIOUS
<1>2. ASSUME NEW s \in SUBSET S, s # {}, \A x \in s : s \ {x} \in P
      PROVE  s \in P
  <2> SUFFICES ASSUME NEW x \in s PROVE g[s] = F[x] + g[s \ {x}]
    OBVIOUS
  <2> DEFINE c == First(s)
  <2>1. c \in s /\ g[s] = F[c] + g[s \ {c}]
    BY FirstIsIn DEF IsSum
  <2> HIDE DEF c
  <2>2. CASE x = c
    BY <2>1, <2>2
  <2>3. CASE x # c
    <3> DEFINE r == s \ {c, x}
    <3>1. s \ {c} \in P /\ x \in s \ {c} /\ (s \ {c}) \ {x} = r
      BY <1>2, <2>1, <2>3
    <3>2. s \ {x} \in P /\ c \in s \ {x} /\ (s \ {x}) \ {c} = r
      BY <1>2, <2>1, <2>3
    <3>3. g[s \ {c}] = F[x] + g[r] /\ g[s \ {x}] = F[c] + g[r]
      BY <3>1, <3>2
    <3>4. F[x] \in Nat /\ F[c] \in Nat /\ g[r] \in Nat
      BY <2>1, SumType
    <3>5. QED
      BY <2>1, <3>3, <3>4
  <2>4. QED
    BY <2>2, <2>3
<1> HIDE DEF P
<1>3. \A s \in SUBSET S : s \in P
  BY <1>1, <1>2, PartsInduction
<1>4. QED
  BY <1>3 DEF P, AnyOrder

(* More and greater terms have no smaller sum.                              *)
LEMMA SumGrows ==
  ASSUME NEW S, NEW T, IsFiniteSet(T), S \subseteq T,
         NEW F \in [S -> Nat], NEW G \in [T -> Nat], \A x \in S : F[x] <= G[x],
         NEW f, IsSum(S, F, f), NEW g, IsSum(T, G, g)
  PROVE  f[S] <= g[T]
<1>1. IsFiniteSet(S)
  BY FS_Subset
<1>2. \A s \in SUBSET S : f[s] \in Nat
  BY <1>1, SumType
<1>3. AnyOrder(S, F, f)
  BY <1>1, AnyFirst
<1>4. \A t \in SUBSET T : g[t] \in Nat
  BY SumType
<1>5. AnyOrder(T, G, g)
  BY AnyFirst
<1> DEFINE P == {t \in SUBSET T : f[t \cap S] <= g[t]}
<1>6. {} \in P
  <2>1. f[{}] = 0 /\ g[{}] = 0
    BY DEF IsSum
  <2>2. QED
    BY <2>1
<1>7. ASSUME NEW t \in SUBSET T, t # {}, \A x \in t : t \ {x} \in P
      PROVE  t \in P
  <2>1. PICK x \in t : TRUE
    BY <1>7
  <2>2. PICK u \in SUBSET T : u = t \ {x}
    OBVIOUS
  <2>3. PICK v \in SUBSET S : v = t \cap S
    OBVIOUS
  <2>4. PICK w \in SUBSET S : w = u \cap S
    OBVIOUS
  <2>5. f[w] <= g[u]
    BY <1>7, <2>2, <2>4
  <2>6. g[t] = G[x] + g[u] /\ G[x] \in Nat
    BY <1>5, <2>2 DEF AnyOrder
  <2>7. (f[v] <= F[x] + f[w] /\ F[x] \in Nat /\ F[x] <= G[x]) \/ v = w
    <3>1. CASE x \in S
      <4>1. x \in v /\ v \ {x} = w
        BY <2>2, <2>3, <2>4, <3>1
      <4>2. f[v] = F[x] + f[w]
        BY <1>3, <4>1 DEF AnyOrder
      <4>3. F[x] \in Nat /\ F[x] <= G[x] /\ f[w] \in Nat
        BY <1>2, <3>1
      <4>4. QED
        BY <4>2, <4>3
    <3>2. CASE x \notin S
      BY <2>2, <2>3, <2>4, <3>2
    <3>3. QED
      BY <3>1, <3>2
  <2>8. f[v] \in Nat /\ f[w] \in Nat /\ g[u] \in Nat
    BY <1>2, <1>4
  <2> HIDE DEF P
  <2>9. f[v] <= g[t]
    BY <2>5, <2>6, <2>7, <2>8
  <2>10. QED
    BY <2>3, <2>9 DEF P
<1> HIDE DEF P
<1>8. T \in P
  BY <1>6, <1>7, PartsInduction
<1>9. T \cap S = S
  OBVIOUS
<1>10. QED
  BY <1>8, <1>9 DEF P

(***************************************************************************)
(* What a stay costs                                                       *)
(***************************************************************************)

(* Started hours and what they cost do not fall.                            *)
LEMMA HoursGrow ==
  ASSUME NEW a \in Nat, NEW b \in Nat, a <= b, NEW r \in Nat
  PROVE  /\ r * StartedHours(a) \in Nat /\ r * StartedHours(b) \in Nat
         /\ r * StartedHours(a) <= r * StartedHours(b)
<1>1. StartedHours(a) \in Nat /\ StartedHours(b) \in Nat /\ StartedHours(a) <= StartedHours(b)
  BY DEF StartedHours, Hour, Minute
<1>2. \A m, n \in Nat : m <= n => r * m \in Nat /\ r * n \in Nat /\ r * m <= r * n
  BY SMTT(30)
<1>3. QED
  BY <1>1, <1>2

(* What the loop finds at a tier it gets to.                                *)
LEMMA TierParts ==
  ASSUME NEW rules \in Rules, NEW i \in DOMAIN rules.tiers, NEW d \in Nat,
         Reached(d, rules.tiers, i)
  PROVE  /\ rules.tiers[i] \in FlatTier \cup HourTier
         /\ PrevLimit(rules.tiers, i) \in Nat
<1>1. rules.tiers \in Seq(FlatTier \cup HourTier)
  BY DEF Rules
<1>2. DOMAIN rules.tiers = 1 .. Len(rules.tiers) /\ Len(rules.tiers) \in Nat
  BY <1>1
<1>3. rules.tiers[i] \in FlatTier \cup HourTier
  BY <1>1
<1>4. CASE i = 1
  BY <1>3, <1>4 DEF PrevLimit
<1>5. CASE i # 1
  <2>1. i - 1 \in 1 .. i - 1 /\ i - 1 \in DOMAIN rules.tiers
    BY <1>2, <1>5
  <2>2. rules.tiers[i - 1] \in FlatTier \cup HourTier /\ rules.tiers[i - 1].kind = "flat"
    BY <1>1, <2>1 DEF Reached
  <2>3. rules.tiers[i - 1].upTo \in Nat
    BY <2>2 DEF FlatTier, HourTier
  <2>4. QED
    BY <1>3, <1>5, <2>3 DEF PrevLimit, Minute
<1>6. QED
  BY <1>4, <1>5

(* No tier charges less for a longer stay.                                  *)
LEMMA TierGrows ==
  ASSUME NEW rules \in Rules, NEW i \in DOMAIN rules.tiers,
         NEW d \in Nat, Reached(d, rules.tiers, i),
         NEW e \in Nat, d <= e
  PROVE  /\ TierCharge(d, rules.tiers, i) \in Nat
         /\ TierCharge(e, rules.tiers, i) \in Nat
         /\ TierCharge(d, rules.tiers, i) <= TierCharge(e, rules.tiers, i)
<1> DEFINE t == rules.tiers[i]
           from == PrevLimit(rules.tiers, i)
           Hourly(x) == t.rate * StartedHours(x - from)
<1>1. t \in FlatTier \cup HourTier /\ from \in Nat
  BY TierParts
<1>2. CASE t \in FlatTier
  <2>1. t.kind = "flat" /\ t.charge \in Nat
    BY <1>2 DEF FlatTier
  <2>2. \A x \in Nat : TierCharge(x, rules.tiers, i) =
          IF x <= from THEN 0 ELSE IF t.upTo * Minute > from THEN t.charge ELSE 0
    BY <1>1, <2>1 DEF TierCharge
  <2> HIDE DEF t, from
  <2>3. QED
    BY <1>1, <2>1, <2>2
<1>3. CASE t \in HourTier
  <2>1. t.kind = "hour" /\ t.rate \in Nat /\ t.cap \in Nat
    BY <1>3 DEF HourTier
  <2>2. \A x \in Nat : TierCharge(x, rules.tiers, i) =
          IF x <= from THEN 0 ELSE IF Hourly(x) < t.cap THEN Hourly(x) ELSE t.cap
    BY <1>1, <2>1 DEF TierCharge
  <2>3. d > from => Hourly(d) \in Nat /\ Hourly(e) \in Nat /\ Hourly(d) <= Hourly(e)
    <3>1. SUFFICES ASSUME d > from
                   PROVE  Hourly(d) \in Nat /\ Hourly(e) \in Nat /\ Hourly(d) <= Hourly(e)
      OBVIOUS
    <3>2. d - from \in Nat /\ e - from \in Nat /\ d - from <= e - from
      BY <1>1, <3>1
    <3> HIDE DEF t, from
    <3>3. QED
      BY <2>1, <3>2, HoursGrow
  <2>4. e > from => Hourly(e) \in Nat
    <3>1. SUFFICES ASSUME e > from PROVE Hourly(e) \in Nat
      OBVIOUS
    <3>2. PICK a \in Nat : a = e - from
      BY <1>1, <3>1
    <3>3. PICK r \in Nat : r = t.rate
      BY <2>1
    <3>4. a <= a
      OBVIOUS
    <3>5. r * StartedHours(a) \in Nat
      BY <3>4, HoursGrow
    <3>6. QED
      BY <3>2, <3>3, <3>5
  <2> HIDE DEF t, from, Hourly
  <2>5. QED
    BY <1>1, <2>1, <2>2, <2>3, <2>4
<1>4. QED
  BY <1>1, <1>2, <1>3

(* The loop of a longer stay gets at least as far.                          *)
LEMMA ReachGrows ==
  ASSUME NEW rules \in Rules, NEW d \in Nat, NEW e \in Nat, d <= e,
         NEW i \in DOMAIN rules.tiers, Reached(d, rules.tiers, i)
  PROVE  Reached(e, rules.tiers, i)
<1> SUFFICES ASSUME NEW j \in 1 .. i - 1
             PROVE  rules.tiers[j].kind = "flat" /\ e > rules.tiers[j].upTo * Minute
  BY DEF Reached
<1>1. rules.tiers[j].kind = "flat" /\ d > rules.tiers[j].upTo * Minute
  BY DEF Reached
<1>2. rules.tiers[j].upTo * Minute \in Nat
  <2>1. rules.tiers \in Seq(FlatTier \cup HourTier)
    BY DEF Rules
  <2>2. j \in DOMAIN rules.tiers
    BY <2>1
  <2>3. rules.tiers[j] \in FlatTier \cup HourTier
    BY <2>1, <2>2
  <2>4. rules.tiers[j].upTo \in Nat
    BY <1>1, <2>3 DEF FlatTier, HourTier
  <2>5. QED
    BY <2>4 DEF Minute
<1>3. QED
  BY <1>1, <1>2

(* The tiers the loop gets to for a stay of d seconds, and what each adds.  *)
Tiers(d, rules) == {i \in DOMAIN rules.tiers : Reached(d, rules.tiers, i)}
Terms(d, rules) == [i \in Tiers(d, rules) |-> TierCharge(d, rules.tiers, i)]

(* Past the grace period the charge is the sum over those tiers.            *)
LEMMA ChargeIsSum ==
  ASSUME NEW rules \in Rules, NEW d \in Nat, d > rules.grace * Minute
  PROVE  /\ IsFiniteSet(Tiers(d, rules))
         /\ \E g : /\ IsSum(Tiers(d, rules), Terms(d, rules), g)
                   /\ ComputeCharge(d, rules) = g[Tiers(d, rules)]
<1> DEFINE S == Tiers(d, rules)
           F == Terms(d, rules)
           Sums(g) == g = [s \in SUBSET S |-> IF s = {} THEN 0
                             ELSE TierCharge(d, rules.tiers, First(s)) + g[s \ {First(s)}]]
<1>1. IsFiniteSet(S)
  <2>1. rules.tiers \in Seq(FlatTier \cup HourTier)
    BY DEF Rules
  <2>2. IsFiniteSet(DOMAIN rules.tiers)
    BY <2>1, FS_Interval
  <2>3. S \in SUBSET DOMAIN rules.tiers
    BY DEF Tiers
  <2> HIDE DEF S
  <2>4. QED
    BY <2>2, <2>3, FS_Subset
<1>2. ComputeCharge(d, rules) = (CHOOSE g : Sums(g))[S]
  <2>1. ~(d <= rules.grace * Minute)
    BY DEF Rules, Minute
  <2>2. ComputeCharge(d, rules) =
          MapThenSumSet(LAMBDA i : TierCharge(d, rules.tiers, i), S)
    BY <2>1 DEF ComputeCharge, Tiers
  <2>3. MapThenSumSet(LAMBDA i : TierCharge(d, rules.tiers, i), S) = (CHOOSE g : Sums(g))[S]
    BY DEF MapThenSumSet, MapThenFoldSet, First
  <2>4. QED
    BY <2>2, <2>3
<1>3. \A s \in SUBSET S : s # {} => TierCharge(d, rules.tiers, First(s)) = F[First(s)]
  BY FirstIsIn DEF Terms
<1>4. \A g : Sums(g) <=> IsSum(S, F, g)
  BY <1>3 DEF IsSum
<1> HIDE DEF S, F, Sums
<1>5. \E g : IsSum(S, F, g)
  BY <1>1, SumExists
<1>6. IsSum(S, F, CHOOSE g : Sums(g))
  BY <1>4, <1>5
<1>7. QED
  BY <1>1, <1>2, <1>6 DEF S, F

(* The terms of the sum, and the charge.                                    *)
LEMMA TermsType ==
  ASSUME NEW rules \in Rules, NEW d \in Nat
  PROVE  Terms(d, rules) \in [Tiers(d, rules) -> Nat]
<1> DEFINE S == Tiers(d, rules)
           F == Terms(d, rules)
<1>1. F = [i \in S |-> TierCharge(d, rules.tiers, i)]
  BY DEF Terms
<1>2. \A i \in S : TierCharge(d, rules.tiers, i) \in Nat
  BY TierGrows DEF Tiers
<1> HIDE DEF S, F
<1>3. F \in [S -> Nat]
  BY <1>1, <1>2
<1>4. QED
  BY <1>3 DEF S, F

(* The charge of _compute_charge is a whole number of paise, never negative. *)
LEMMA ChargeType ==
  ASSUME NEW rules \in Rules, NEW d \in Nat
  PROVE  ComputeCharge(d, rules) \in Nat
<1>1. CASE d <= rules.grace * Minute
  BY <1>1 DEF ComputeCharge
<1>2. CASE d > rules.grace * Minute
  <2> DEFINE S == Tiers(d, rules)
             F == Terms(d, rules)
  <2>1. IsFiniteSet(S) /\ F \in [S -> Nat]
    BY <1>2, ChargeIsSum, TermsType
  <2>2. PICK g : IsSum(S, F, g) /\ ComputeCharge(d, rules) = g[S]
    BY <1>2, ChargeIsSum
  <2> HIDE DEF S, F
  <2>3. g[S] \in Nat
    BY <2>1, <2>2, SumType
  <2>4. QED
    BY <2>2, <2>3
<1>3. QED
  BY <1>1, <1>2 DEF Rules, Minute

(* _compute_charge: under any rules whose charges, rates and caps are not   *)
(* negative a longer stay costs no less, whatever the order and limits of   *)
(* the tiers.                                                               *)
THEOREM LongerChargeNoLess ==
  ASSUME NEW rules \in Rules, NEW d \in Nat, NEW e \in Nat, d <= e
  PROVE  ComputeCharge(d, rules) <= ComputeCharge(e, rules)
<1>1. rules.grace * Minute \in Nat
  BY DEF Rules, Minute
<1>2. CASE e <= rules.grace * Minute
  BY <1>1, <1>2 DEF ComputeCharge
<1>3. CASE d > rules.grace * Minute
  <2> DEFINE S == Tiers(d, rules)
             T == Tiers(e, rules)
             F == Terms(d, rules)
             G == Terms(e, rules)
  <2>1. S \subseteq T
    BY ReachGrows DEF Tiers
  <2>2. F \in [S -> Nat] /\ G \in [T -> Nat] /\ \A i \in S : F[i] <= G[i]
    <3>1. F \in [S -> Nat] /\ G \in [T -> Nat]
      BY TermsType
    <3>2. \A i \in S : F[i] <= G[i]
      BY <2>1, TierGrows DEF Terms, Tiers
    <3>3. QED
      BY <3>1, <3>2
  <2>3. PICK f : IsSum(S, F, f) /\ ComputeCharge(d, rules) = f[S]
    BY <1>3, ChargeIsSum
  <2>4. IsFiniteSet(T) /\ \E g : IsSum(T, G, g) /\ ComputeCharge(e, rules) = g[T]
    BY <1>1, <1>3, ChargeIsSum
  <2>5. PICK g : IsSum(T, G, g) /\ ComputeCharge(e, rules) = g[T]
    BY <2>4
  <2> HIDE DEF S, T, F, G
  <2>6. f[S] <= g[T]
    BY <2>1, <2>2, <2>3, <2>4, <2>5, SumGrows
  <2>7. QED
    BY <2>3, <2>5, <2>6
<1>4. CASE d <= rules.grace * Minute /\ e > rules.grace * Minute
  <2>1. ComputeCharge(d, rules) = 0
    BY <1>4 DEF ComputeCharge
  <2>2. ComputeCharge(e, rules) \in Nat
    BY ChargeType
  <2>3. QED
    BY <2>1, <2>2
<1>5. QED
  BY <1>1, <1>2, <1>3, <1>4

(* BillsHold for the charges of _compute_charge, whatever the tariffs and   *)
(* however many seconds a unit of the clock and the start of a stay are.    *)
THEOREM TariffBillsHold ==
  ASSUME OneBiller, Tariffs \subseteq Rules,
         NEW Seconds \in [Time -> Nat],
         \A d, e \in Time : d <= e => Seconds[d] <= Seconds[e],
         \A t \in Tariffs, d \in Time : Charge(t, d) = ComputeCharge(Seconds[d], t)
  PROVE  Spec => []BillsAreRight
<1>1. ASSUME NEW t \in Tariffs, NEW d \in Time, NEW e \in Time, d <= e
      PROVE  Charge(t, d) <= Charge(t, e)
  <2>1. t \in Rules /\ Seconds[d] \in Nat /\ Seconds[e] \in Nat /\ Seconds[d] <= Seconds[e]
    BY <1>1
  <2>2. ComputeCharge(Seconds[d], t) <= ComputeCharge(Seconds[e], t)
    BY <2>1, LongerChargeNoLess
  <2>3. QED
    BY <1>1, <2>2
<1>2. \A d, e \in Time : Charge(NoTariff, d) <= Charge(NoTariff, e)
  BY ParkingAssumption
<1>3. ChargeGrows
  BY <1>1, <1>2 DEF ChargeGrows
<1>4. QED
  BY <1>3, OneBiller, BillsHold
=============================================================================
