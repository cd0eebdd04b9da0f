----------------------- MODULE CameraPipeline_proofs -----------------------
(***************************************************************************)
(* Safety of the camera threads, for any number of cameras, texts, lists,  *)
(* failures and restarts.                                                  *)
(***************************************************************************)
EXTENDS CameraPipeline, TLAPS

(* Stages with a read in the works.                                         *)
Busy == {"select", "write", "lists", "check", "fire", "commit", "push", "hand"}

(* A read is held exactly in the stages that work on it; a list is at hand  *)
(* when an alert is fired; nothing runs while the process is down.          *)
Control ==
  /\ \A c \in Cams : pc[c] \in Busy <=> cur[c] # None
  /\ \A c \in Cams : pc[c] = "fire" => hit[c] # None
  /\ proc = "down" => boot < MaxBoots /\ \A c \in Cams : pc[c] = "stopped"

(* The last read of a track is the last read of its text.                   *)
TracksAreFresh ==
  \A c \in Cams, t \in Texts :
    track[c][t] # None => track[c][t].first + track[c][t].n = seen[c][t] + 1

TypeInv == TypeOK /\ Control /\ TracksAreFresh

(* The type invariant in five parts, each disturbed by few actions.         *)
SessionOK ==
  /\ fails \in 0 .. MaxFails /\ broken \subseteq Cams
  /\ pending \in [Cams -> SUBSET (Event \X Lists)] /\ alerts \subseteq Event \X Lists

StageOK ==
  /\ pc \in [Cams -> Stages] /\ cur \in [Cams -> Read \cup {None}]
  /\ lists \in [Cams -> SUBSET Lists] /\ hit \in [Cams -> Lists \cup {None}]
  /\ owed \in [Cams -> SUBSET Lists]
  /\ \A c \in Cams : pc[c] \in Busy <=> cur[c] # None
  /\ \A c \in Cams : pc[c] = "fire" => hit[c] # None

VoterOK ==
  /\ now \in Time
  /\ seen \in [Cams -> [Texts -> 0 .. MaxSeen]]
  /\ track \in [Cams -> [Texts -> Track \cup {None}]]
  /\ lastSeen \in [Cams -> [Texts -> Time]]
  /\ leaving \subseteq Cams /\ todo \in [Cams -> SUBSET Consensus]
  /\ TracksAreFresh

StoreOK ==
  /\ events \subseteq Event /\ reviews \subseteq Review
  /\ plateRows \in [Texts -> Nat]
  /\ live \subseteq Lists /\ watch \in [Lists -> SUBSET Texts]
  /\ pushed \subseteq Event

ProcOK ==
  /\ proc \in {"up", "stopping", "down"} /\ boot \in 0 .. MaxBoots
  /\ proc = "down" => boot < MaxBoots /\ \A c \in Cams : pc[c] = "stopped"

(* The type invariant, part by part.                                        *)
LEMMA TypeParts == TypeInv <=> SessionOK /\ StageOK /\ VoterOK /\ StoreOK /\ ProcOK
  BY DEF TypeInv, TypeOK, Control, SessionOK, StageOK, VoterOK, StoreOK, ProcOK

(* The parts of the next state make its type invariant.                     *)
LEMMA TypeJoin ==
  ASSUME SessionOK', StageOK', VoterOK', StoreOK', ProcOK'
  PROVE  TypeInv'
  BY DEF TypeInv, TypeOK, Control, SessionOK, StageOK, VoterOK, StoreOK, ProcOK

(* What a failed statement, a commit and a return do to the types.          *)
LEMMA BreakType ==
  ASSUME SessionOK, NEW c \in Cams, Break(c)
  PROVE  /\ fails' \in 0 .. MaxFails /\ broken' \subseteq Cams
         /\ pending' \in [Cams -> SUBSET (Event \X Lists)]
  BY PipelineAssumption DEF SessionOK, Break

(* A statement that fails leaves the session's types in order.              *)
LEMMA FailsType ==
  ASSUME SessionOK, NEW c \in Cams, StatementFails(c)
  PROVE  /\ fails' \in 0 .. MaxFails /\ broken' \subseteq Cams
         /\ pending' \in [Cams -> SUBSET (Event \X Lists)]
  BY BreakType DEF SessionOK, StatementFails

(* So does a commit of what the session holds.                              *)
LEMMA CommitType ==
  ASSUME SessionOK, NEW c \in Cams, Commit(c, {})
  PROVE  /\ alerts' \subseteq Event \X Lists
         /\ pending' \in [Cams -> SUBSET (Event \X Lists)]
  BY DEF SessionOK, Commit

(* A thread that returns from a read drops it and all it knew of it.        *)
LEMMA ReturnType ==
  ASSUME StageOK, NEW c \in Cams, Return(c)
  PROVE  StageOK'
<1>1. pc' \in [Cams -> Stages] /\ cur' \in [Cams -> Read \cup {None}] /\ "emit" \notin Busy
  BY DEF StageOK, Return, Stages, Busy
<1>2. lists' \in [Cams -> SUBSET Lists] /\ hit' \in [Cams -> Lists \cup {None}] /\ owed' \in [Cams -> SUBSET Lists]
  BY DEF StageOK, Return
<1>3. \A d \in Cams : pc'[d] \in Busy <=> cur'[d] # None
  BY <1>1 DEF StageOK, Return
<1>4. \A d \in Cams : pc'[d] = "fire" => hit'[d] # None
  BY DEF StageOK, Return
<1>5. QED
  BY <1>1, <1>2, <1>3, <1>4 DEF StageOK

(* A thread that does nothing is down only with the process.                *)
LEMMA ProcKept ==
  ASSUME ProcOK, UNCHANGED <<proc, boot>>, NEW c \in Cams, pc[c] # "stopped"
  PROVE  ProcOK'
  BY DEF ProcOK

(* The process is up, and no camera has a read yet.                        *)
THEOREM InitType == Init => TypeInv
  BY PipelineAssumption
  DEF Init, TypeInv, TypeOK, Control, TracksAreFresh, NoTracks, Busy, Stages, Time

(***************************************************************************)
(* The inductive invariants.                                               *)
(***************************************************************************)

(* x counts only reads that were made, and none of the open track's.        *)
Past(x, c, t) ==
  /\ x.n >= MinReads
  /\ x.first + x.n <= seen[c][t] + 1
  /\ track[c][t] # None => x.first + x.n <= track[c][t].first

(* Whatever is stored, queued or in the works counts past reads, and no two *)
(* of them share one.                                                       *)
StoreBacked == \A x \in events \cup reviews : Past(x, x.cam, x.text)

Queued(c, d) ==
  /\ Past(d, c, d.text)
  /\ \A x \in events \cup reviews : (x.cam = c /\ x.text = d.text) => Apart(x, d)
  /\ \A e \in todo[c] : (e.text = d.text /\ e # d) => Apart(e, d)

QueueBacked == \A c \in Cams : \A d \in todo[c] : Queued(c, d)

Working(c, ev) ==
  /\ ev.cam = c
  /\ Past(ev, c, ev.text)
  /\ \A x \in events : (x.cam = c /\ x.text = ev.text /\ x # ev) => Apart(x, ev)
  /\ \A x \in reviews : (x.cam = c /\ x.text = ev.text) => Apart(x, ev)
  /\ \A d \in todo[c] : d.text = ev.text => Apart(d, ev)

WorkBacked == \A c \in Cams : cur[c] # None => Working(c, cur[c].ev)

Backing == StoreBacked /\ QueueBacked /\ WorkBacked /\ NoReadCountsTwice

(* The deduplicator remembers the last event of the process; the read in    *)
(* the works is the newest of its plate.                                    *)
Remembered(e) ==
  /\ e.boot <= boot
  /\ (e.boot = boot /\ proc # "down") => e.ts <= lastSeen[e.cam][e.text]

Newest(c, x) ==
  /\ x.cam = c /\ x.boot = boot /\ x.ts = lastSeen[c][x.text]
  /\ \A e \in events : (e.cam = c /\ e.text = x.text /\ e.boot = boot /\ e # x)
                          => x.ts - e.ts >= Window

Spacing ==
  /\ \A e \in events : Remembered(e)
  /\ \A c \in Cams : cur[c] # None => Newest(c, cur[c].ev)
  /\ EventsAreSpaced

Stored(c, w) == <<cur[c].ev, w>> \in alerts
Flushed(c, w) == <<cur[c].ev, w>> \in pending[c] \cup alerts

(* Between the first alert of a read and their commit, the alerts are in    *)
(* the transaction or the session is broken.                                *)
PushingAt(c) ==
  /\ pc[c] \in {"select", "write", "lists"} => ~cur[c].made
  /\ pc[c] = "commit" => cur[c].made
  /\ (pc[c] \in {"check", "fire", "commit"} /\ cur[c].made /\ Usable(c))
       => \E w \in Lists : Flushed(c, w)
  /\ pc[c] = "push" => \E w \in Lists : Stored(c, w)

Pushing == (\A c \in Cams : PushingAt(c)) /\ PushedAlertIsStored

(* A list owed an alert is still to be checked, is being fired, or has its  *)
(* alert in a transaction that is intact.                                   *)
OwingAt(c) ==
  /\ owed[c] # {} => pc[c] \in {"check", "fire", "commit", "push", "hand"}
  /\ \A w \in owed[c] : w \in Wanted(c)
  /\ pc[c] \in {"check", "fire"} =>
       \A w \in owed[c] : \/ w \in lists[c]
                          \/ pc[c] = "fire" /\ hit[c] = w
                          \/ cur[c].made /\ (Usable(c) => Flushed(c, w))
  /\ pc[c] = "commit" => \A w \in owed[c] : Usable(c) => Flushed(c, w)
  /\ pc[c] \in {"push", "hand"} => \A w \in owed[c] : Stored(c, w)

Owing == \A c \in Cams : OwingAt(c)

(***************************************************************************)
(* Type correctness, action by action.                                     *)
(***************************************************************************)

(* Reads that are discarded or suppressed.                                  *)
LEMMA TypeDrop ==
  ASSUME TypeInv, NEW c \in Cams, NEW d \in todo[c], Discard(c, d) \/ Suppress(c, d)
  PROVE  TypeInv'
<1>1. CASE Discard(c, d)
  BY <1>1, SMTT(30) DEF TypeInv, TypeOK, Control, TracksAreFresh, Discard, Take, vars, clocks,
                        voter, tables, site
<1>2. CASE Suppress(c, d)
  BY <1>2, SMTT(30) DEF TypeInv, TypeOK, Control, TracksAreFresh, Suppress, Take, vars, clocks,
                        voter, tables, site
<1>3. QED
  BY <1>1, <1>2

(* A read that is put in the review queue.                                  *)
LEMMA TypeReview ==
  ASSUME TypeInv, NEW c \in Cams, NEW d \in todo[c], QueueReview(c, d)
  PROVE  TypeInv'
<1>. USE TypeParts
<1>1. SessionOK'
  BY FailsType, CommitType DEF QueueReview, SessionOK
<1>2. StageOK' /\ ProcOK'
  BY DEF QueueReview, StageOK, ProcOK
<1>3. VoterOK'
  BY DEF QueueReview, VoterOK, TracksAreFresh, Take, voter
<1>4. StoreOK'
  <2>1. d \in Consensus
    BY DEF VoterOK
  <2>2. [cam |-> c, text |-> d.text, first |-> d.first, n |-> d.n] \in Review
    BY <2>1 DEF Consensus, Review
  <2>3. QED
    BY <2>2 DEF QueueReview, StoreOK, site
<1>5. QED
  BY <1>1, <1>2, <1>3, <1>4, TypeJoin

(* A read that passes the routing and the deduplicator.                     *)
LEMMA TypeAccept ==
  ASSUME TypeInv, NEW c \in Cams, NEW d \in todo[c], Accept(c, d)
  PROVE  TypeInv'
<1>. USE TypeParts
<1>1. d \in Consensus
  BY DEF VoterOK
<1>2. [ev |-> EventOf(c, d), known |-> FALSE, made |-> FALSE] \in Read
  BY <1>1 DEF EventOf, Consensus, Event, Read, VoterOK, ProcOK
<1>3. SessionOK' /\ StoreOK'
  BY DEF Accept, SessionOK, StoreOK, clocks, tables, site
<1>4. StageOK'
  BY <1>2, PipelineAssumption DEF Accept, StageOK, Goto, Stages, Busy
<1>5. VoterOK'
  <2>1. d.text \in Texts
    BY <1>1 DEF Consensus
  <2>2. QED
    BY <2>1 DEF Accept, VoterOK, TracksAreFresh, Take, voter, clocks
<1>6. ProcOK'
  BY ProcKept DEF Accept, clocks
<1>7. QED
  BY <1>3, <1>4, <1>5, <1>6, TypeJoin

(* The SELECT of the plate row.                                             *)
LEMMA TypeSelect ==
  ASSUME TypeInv, NEW c \in Cams, SelectPlate(c)
  PROVE  TypeInv'
<1>. USE TypeParts
<1>1. cur[c] \in Read
  BY DEF SelectPlate, StageOK, Busy
<1>2. SessionOK'
  BY FailsType DEF SelectPlate, SessionOK, tables
<1>3. StageOK'
  <2>1. CASE Return(c)
    BY <2>1, ReturnType
  <2>2. CASE /\ cur' = [cur EXCEPT ![c].known = plateRows[cur[c].ev.text] > 0]
             /\ Goto(c, "write") /\ UNCHANGED <<lists, hit, owed>>
    <3>0. (plateRows[cur[c].ev.text] > 0) \in BOOLEAN
      OBVIOUS
    <3>1. [cur[c] EXCEPT !.known = plateRows[cur[c].ev.text] > 0] \in Read
      BY <1>1, <3>0 DEF Read
    <3>2. QED
      BY <2>2, <3>1, PipelineAssumption DEF StageOK, Goto, Stages, Busy
  <2>3. QED
    BY <2>1, <2>2 DEF SelectPlate
<1>4. VoterOK' /\ StoreOK'
  BY DEF SelectPlate, VoterOK, TracksAreFresh, StoreOK, voter, tables, site
<1>5. ProcOK'
  BY ProcKept DEF SelectPlate, ProcOK, Goto, Return
<1>6. QED
  BY <1>2, <1>3, <1>4, <1>5, TypeJoin

(* A thread that goes on with its read. *)
LEMMA StageMove ==
  ASSUME StageOK, NEW c \in Cams, NEW s \in Busy, s # "fire", pc[c] \in Busy, Goto(c, s),
         UNCHANGED <<cur, hit>>,
         lists' \in [Cams -> SUBSET Lists], owed' \in [Cams -> SUBSET Lists]
  PROVE  StageOK'
  BY DEF StageOK, Goto, Stages, Busy

(* A thread whose read stays what it is.                                    *)
LEMMA StageKept ==
  ASSUME StageOK, UNCHANGED <<pc, cur, lists, hit>>, owed' \in [Cams -> SUBSET Lists]
  PROVE  StageOK'
  BY DEF StageOK

(* The commit of plate and event.                                           *)
LEMMA TypeWrite ==
  ASSUME TypeInv, NEW c \in Cams, WriteEvent(c)
  PROVE  TypeInv'
<1>. USE TypeParts
<1>1. cur[c] \in Read /\ cur[c].ev \in Event /\ cur[c].ev.text \in Texts
  BY DEF WriteEvent, StageOK, Busy, Read, Event
<1>2. SessionOK'
  <2>1. CASE Usable(c) /\ alerts' = alerts \cup pending[c] /\ Break(c)
    BY <2>1, BreakType DEF SessionOK
  <2>2. QED
    BY <2>1, FailsType, CommitType DEF WriteEvent, SessionOK
<1>3. StageOK'
  <2>1. CASE Return(c)
    BY <2>1, ReturnType
  <2>2. CASE Goto(c, "lists") /\ UNCHANGED <<cur, lists, hit, owed>>
    BY <2>2, StageMove DEF WriteEvent, StageOK, Busy
  <2>3. QED
    BY <2>1, <2>2 DEF WriteEvent
<1>4. VoterOK'
  BY DEF WriteEvent, VoterOK, TracksAreFresh, voter
<1>5. StoreOK'
  BY <1>1 DEF WriteEvent, StoreOK, site
<1>6. ProcOK'
  BY ProcKept DEF WriteEvent
<1>7. QED
  BY <1>2, <1>3, <1>4, <1>5, <1>6, TypeJoin

(* The SELECT of the watchlists.                                            *)
LEMMA TypeLoad ==
  ASSUME TypeInv, NEW c \in Cams, LoadLists(c)
  PROVE  TypeInv'
<1>. USE TypeParts
<1>1. SessionOK'
  BY FailsType DEF LoadLists, SessionOK, tables
<1>2. StageOK'
  <2>1. CASE Return(c)
    BY <2>1, ReturnType
  <2>2. CASE /\ Goto(c, "check") /\ UNCHANGED <<cur, hit>>
             /\ lists' = [lists EXCEPT ![c] = live] /\ owed' = [owed EXCEPT ![c] = Wanted(c)]
    BY <2>2, StageMove DEF LoadLists, StageOK, StoreOK, Busy, Wanted
  <2>3. QED
    BY <2>1, <2>2 DEF LoadLists
<1>3. VoterOK' /\ StoreOK'
  BY DEF LoadLists, VoterOK, TracksAreFresh, StoreOK, voter, tables, site
<1>4. ProcOK'
  BY ProcKept DEF LoadLists
<1>5. QED
  BY <1>1, <1>2, <1>3, <1>4, TypeJoin

(* The look-up of one watchlist.                                            *)
LEMMA TypeCheck ==
  ASSUME TypeInv, NEW c \in Cams, NEW w \in Lists, CheckList(c, w)
  PROVE  TypeInv'
<1>. USE TypeParts
<1>1. SessionOK'
  BY FailsType DEF CheckList, SessionOK, tables
<1>2. StageOK'
  <2>1. CASE Return(c)
    BY <2>1, ReturnType
  <2>2. CASE /\ lists' = [lists EXCEPT ![c] = @ \ {w}] /\ UNCHANGED <<cur, owed>>
             /\ hit' = [hit EXCEPT ![c] = w] /\ Goto(c, "fire")
    BY <2>2, PipelineAssumption DEF CheckList, StageOK, Goto, Stages, Busy
  <2>3. CASE /\ lists' = [lists EXCEPT ![c] = @ \ {w}] /\ UNCHANGED <<cur, owed, hit, pc>>
    BY <2>3 DEF StageOK
  <2>4. QED
    BY <2>1, <2>2, <2>3 DEF CheckList
<1>3. VoterOK' /\ StoreOK'
  BY DEF CheckList, VoterOK, TracksAreFresh, StoreOK, voter, tables, site
<1>4. ProcOK'
  BY ProcKept DEF CheckList
<1>5. QED
  BY <1>1, <1>2, <1>3, <1>4, TypeJoin

(* An alert row is added to the session.                                    *)
LEMMA TypeFire ==
  ASSUME TypeInv, NEW c \in Cams, FireAlert(c)
  PROVE  TypeInv'
<1>. USE TypeParts
<1>1. cur[c] \in Read /\ cur[c].ev \in Event /\ hit[c] \in Lists
  BY DEF FireAlert, StageOK, Busy, Read
<1>2. SessionOK'
  <2>1. CASE pending' = [pending EXCEPT ![c] = @ \cup {<<cur[c].ev, hit[c]>>}]
    <3>1. fails' \in 0 .. MaxFails /\ broken' \subseteq Cams
      BY FailsType, PipelineAssumption DEF FireAlert, SessionOK
    <3>2. QED
      BY <1>1, <2>1, <3>1 DEF FireAlert, SessionOK, tables
  <2>2. CASE broken' = broken \cup {c} /\ pending' = [pending EXCEPT ![c] = {}] /\ UNCHANGED fails
    BY <2>2 DEF FireAlert, SessionOK, tables
  <2>3. QED
    BY <2>1, <2>2, FailsType DEF FireAlert, SessionOK, tables
<1>3. StageOK'
  <2>1. CASE Return(c)
    BY <2>1, ReturnType
  <2>2. CASE /\ hit' = [hit EXCEPT ![c] = None] /\ Goto(c, "check")
             /\ cur' = [cur EXCEPT ![c].made = TRUE] /\ UNCHANGED <<lists, owed>>
    <3>1. [cur[c] EXCEPT !.made = TRUE] \in Read
      BY <1>1 DEF Read
    <3>2. QED
      BY <2>2, <3>1, PipelineAssumption DEF StageOK, Goto, Stages, Busy
  <2>3. QED
    BY <2>1, <2>2 DEF FireAlert
<1>4. VoterOK' /\ StoreOK'
  BY DEF FireAlert, VoterOK, TracksAreFresh, StoreOK, voter, tables, site
<1>5. ProcOK'
  BY ProcKept DEF FireAlert
<1>6. QED
  BY <1>2, <1>3, <1>4, <1>5, TypeJoin

(* The loop over the watchlists is through.                                 *)
LEMMA TypeListsDone ==
  ASSUME TypeInv, NEW c \in Cams, ListsDone(c)
  PROVE  TypeInv'
<1>. USE TypeParts
<1>1. SessionOK' /\ VoterOK' /\ StoreOK'
  BY DEF ListsDone, SessionOK, VoterOK, TracksAreFresh, StoreOK, clocks, voter, tables, site
<1>2. StageOK'
  BY StageMove DEF ListsDone, StageOK, Busy
<1>3. ProcOK'
  BY ProcKept DEF ListsDone, clocks
<1>4. QED
  BY <1>1, <1>2, <1>3, TypeJoin

(* The commit of the alerts.                                                *)
LEMMA TypeCommitAlerts ==
  ASSUME TypeInv, NEW c \in Cams, CommitAlerts(c)
  PROVE  TypeInv'
<1>. USE TypeParts
<1>1. SessionOK'
  <2>1. CASE Usable(c) /\ alerts' = alerts \cup pending[c] /\ Break(c)
    BY <2>1, BreakType DEF SessionOK
  <2>2. QED
    BY <2>1, FailsType, CommitType DEF CommitAlerts, SessionOK
<1>2. StageOK'
  <2>1. CASE Return(c)
    BY <2>1, ReturnType
  <2>2. CASE Goto(c, "push") /\ UNCHANGED <<cur, lists, hit, owed>>
    BY <2>2, StageMove DEF CommitAlerts, StageOK, Busy
  <2>3. QED
    BY <2>1, <2>2 DEF CommitAlerts
<1>3. VoterOK' /\ StoreOK'
  BY DEF CommitAlerts, VoterOK, TracksAreFresh, StoreOK, voter, site
<1>4. ProcOK'
  BY ProcKept DEF CommitAlerts
<1>5. QED
  BY <1>1, <1>2, <1>3, <1>4, TypeJoin

(* The announcements after the commit.                                      *)
LEMMA TypeNotify ==
  ASSUME TypeInv, NEW c \in Cams, Notify(c)
  PROVE  TypeInv'
<1>. USE TypeParts
<1>1. cur[c].ev \in Event
  BY DEF Notify, StageOK, Busy, Read
<1>2. SessionOK'
  BY BreakType DEF Notify, SessionOK, tables
<1>3. StageOK'
  BY StageMove DEF Notify, StageOK, Busy
<1>4. VoterOK' /\ StoreOK'
  BY <1>1 DEF Notify, VoterOK, TracksAreFresh, StoreOK, voter, tables, site
<1>5. ProcOK'
  BY ProcKept DEF Notify
<1>6. QED
  BY <1>2, <1>3, <1>4, <1>5, TypeJoin

(* Parking and gates take the event.                                        *)
LEMMA TypeHandOver ==
  ASSUME TypeInv, NEW c \in Cams, HandOver(c)
  PROVE  TypeInv'
<1>. USE TypeParts
<1>1. SessionOK'
  BY FailsType, CommitType DEF HandOver, SessionOK
<1>2. StageOK'
  BY ReturnType DEF HandOver
<1>3. VoterOK' /\ StoreOK'
  BY DEF HandOver, VoterOK, TracksAreFresh, StoreOK, voter, site
<1>4. ProcOK'
  BY ProcKept DEF HandOver
<1>5. QED
  BY <1>1, <1>2, <1>3, <1>4, TypeJoin

(* The voter's queue is empty.                                              *)
LEMMA TypeDrained ==
  ASSUME TypeInv, NEW c \in Cams, Drained(c)
  PROVE  TypeInv'
<1>. USE TypeParts
<1>1. SessionOK' /\ VoterOK' /\ StoreOK'
  BY DEF Drained, SessionOK, VoterOK, TracksAreFresh, StoreOK, clocks, voter, tables, site
<1>2. StageOK'
  BY DEF Drained, StageOK, Goto, Stages, Busy
<1>3. ProcOK'
  BY ProcKept DEF Drained, clocks
<1>4. QED
  BY <1>1, <1>2, <1>3, TypeJoin

(* The reporter thread commits a camera's session.                          *)
LEMMA TypeHealth ==
  ASSUME TypeInv, NEW c \in Cams, HealthCommit(c)
  PROVE  TypeInv'
<1>. USE TypeParts
<1>1. SessionOK'
  BY BreakType, CommitType DEF HealthCommit, SessionOK
<1>2. StageOK' /\ VoterOK' /\ StoreOK' /\ ProcOK'
  BY DEF HealthCommit, StageOK, VoterOK, TracksAreFresh, StoreOK, ProcOK, voter, site
<1>3. QED
  BY <1>1, <1>2, TypeJoin

(* The reads emitted from well-typed tracks.                                *)
LEMMA EmittedType ==
  ASSUME NEW tracks \in [Texts -> Track \cup {None}], NEW T \in SUBSET Texts,
         \A t \in T : tracks[t] # None
  PROVE  Emitted(tracks, T) \subseteq Consensus
<1>1. \A t \in T : tracks[t] \in Track
  OBVIOUS
<1>2. QED
  BY <1>1 DEF Emitted, Track, Consensus

(* A camera thread leaves its loop and flushes the voter.                   *)
LEMMA TypeLeave ==
  ASSUME TypeInv, NEW c \in Cams, LeaveLoop(c)
  PROVE  TypeInv'
<1>. USE TypeParts
<1>1. SessionOK'
  BY FailsType, CommitType DEF LeaveLoop, SessionOK
<1>2. StageOK'
  BY DEF LeaveLoop, StageOK, Goto, Stages, Busy
<1>3. VoterOK'
  <2>1. Emitted(track[c], {t \in Texts : track[c][t] # None}) \subseteq Consensus
    BY EmittedType DEF VoterOK
  <2>2. NoTracks \in [Texts -> Track \cup {None}]
    BY DEF NoTracks
  <2>3. todo' \in [Cams -> SUBSET Consensus] /\ track' \in [Cams -> [Texts -> Track \cup {None}]]
    BY <2>1, <2>2 DEF LeaveLoop, VoterOK
  <2>4. TracksAreFresh'
    BY DEF LeaveLoop, VoterOK, TracksAreFresh, NoTracks
  <2>5. QED
    BY <2>3, <2>4 DEF LeaveLoop, VoterOK
<1>4. StoreOK'
  BY DEF LeaveLoop, StoreOK, site
<1>5. ProcOK'
  BY ProcKept DEF LeaveLoop
<1>6. QED
  BY <1>1, <1>2, <1>3, <1>4, <1>5, TypeJoin

(* One text of the voter after a frame.                                     *)
LEMMA AddedType ==
  ASSUME NEW tr \in Track \cup {None}, NEW k \in 0 .. MaxSeen, k < MaxSeen, NEW f \in Confs,
         now \in Time, tr # None => tr.first + tr.n = k + 1
  PROVE  Added(tr, k + 1, f) \in Track /\ Added(tr, k + 1, f).first + Added(tr, k + 1, f).n = k + 2
<1>1. CASE tr = None
  BY <1>1, PipelineAssumption DEF Added, Track
<1>2. CASE tr # None
  <2>1. tr \in Track /\ tr.first \in 1 .. MaxSeen /\ tr.n + 1 \in 1 .. MaxSeen /\ tr.sum + f \in Nat
    BY <1>2, PipelineAssumption DEF Track
  <2>2. Added(tr, k + 1, f)
          = [first |-> tr.first, n |-> tr.n + 1, sum |-> tr.sum + f, last |-> now]
    BY <1>2, <2>1 DEF Added, Track
  <2>3. QED
    BY <1>2, <2>1, <2>2 DEF Track
<1>3. QED
  BY <1>1, <1>2

(* A frame goes through the voter.                                          *)
LEMMA TypeFrame ==
  ASSUME TypeInv, NEW c \in Cams, NEW f \in Frames, Frame(c, f)
  PROVE  TypeInv'
<1>. USE TypeParts
<1>. DEFINE read == WithReads(track[c], seen[c], f)
            gone == Gone(read, f)
            count == [t \in Texts |-> IF f[t] = None THEN seen[c][t] ELSE seen[c][t] + 1]
<1>1. \A t \in Texts : /\ count[t] \in 0 .. MaxSeen
                       /\ read[t] \in Track \cup {None}
                       /\ read[t] # None => read[t].first + read[t].n = count[t] + 1
  <2>. SUFFICES ASSUME NEW t \in Texts
                PROVE  /\ count[t] \in 0 .. MaxSeen
                       /\ read[t] \in Track \cup {None}
                       /\ read[t] # None => read[t].first + read[t].n = count[t] + 1
    OBVIOUS
  <2>1. /\ seen[c][t] \in 0 .. MaxSeen /\ track[c][t] \in Track \cup {None} /\ now \in Time
        /\ track[c][t] # None => track[c][t].first + track[c][t].n = seen[c][t] + 1
    BY DEF VoterOK, TracksAreFresh
  <2>2. CASE f[t] = None
    BY <2>1, <2>2 DEF WithReads
  <2>3. CASE f[t] # None
    <3>1. seen[c][t] < MaxSeen /\ f[t] \in Confs
      BY <2>3 DEF Frame, Frames
    <3>2. read[t] = Added(track[c][t], seen[c][t] + 1, f[t]) /\ count[t] = seen[c][t] + 1
      BY <2>3 DEF WithReads
    <3>3. read[t] \in Track /\ read[t].first + read[t].n = seen[c][t] + 2
      BY <2>1, <3>1, <3>2, AddedType
    <3>4. QED
      BY <2>1, <3>1, <3>2, <3>3, PipelineAssumption
  <2>4. QED
    BY <2>2, <2>3
<1>2. seen' = [seen EXCEPT ![c] = count] /\ count \in [Texts -> 0 .. MaxSeen]
  BY <1>1 DEF Frame
<1>3. read \in [Texts -> Track \cup {None}]
  BY <1>1 DEF WithReads
<1>4. gone \subseteq Texts /\ \A t \in gone : read[t] # None
  BY DEF Gone
<1>5. track' = [track EXCEPT ![c] = Remaining(read, gone)]
  BY DEF Frame
<1>6. Remaining(read, gone) \in [Texts -> Track \cup {None}]
  BY <1>3 DEF Remaining
<1>7. Emitted(read, gone) \subseteq Consensus
  BY <1>3, <1>4, EmittedType
<1>8. VoterOK'
  <2>1. seen' \in [Cams -> [Texts -> 0 .. MaxSeen]]
    BY <1>2 DEF VoterOK
  <2>2. track' \in [Cams -> [Texts -> Track \cup {None}]]
    BY <1>5, <1>6 DEF VoterOK
  <2>3. todo' = [todo EXCEPT ![c] = Emitted(read, gone)]
    BY DEF Frame
  <2>4. todo' \in [Cams -> SUBSET Consensus]
    BY <2>3, <1>7 DEF VoterOK
  <2>5. \A d \in Cams, t \in Texts :
          track'[d][t] # None => track'[d][t].first + track'[d][t].n = seen'[d][t] + 1
    <3>1. \A t \in Texts : track'[c][t] # None =>
             track'[c][t].first + track'[c][t].n = seen'[c][t] + 1
      BY <1>1, <1>2, <1>5 DEF Remaining, VoterOK
    <3>2. \A d \in Cams : d # c => track'[d] = track[d] /\ seen'[d] = seen[d]
      BY <1>2, <1>5 DEF VoterOK
    <3>3. QED
      BY <3>1, <3>2 DEF VoterOK, TracksAreFresh
  <2>6. QED
    BY <2>1, <2>2, <2>4, <2>5 DEF Frame, VoterOK, TracksAreFresh, clocks
<1>9. SessionOK' /\ StoreOK'
  BY DEF Frame, SessionOK, StoreOK, clocks, tables, site
<1>10. StageOK'
  BY DEF Frame, StageOK, Stages, Busy
<1>11. ProcOK'
  BY DEF Frame, ProcOK, clocks
<1>12. QED
  BY <1>8, <1>9, <1>10, <1>11, TypeJoin

(***************************************************************************)
(* The process, the API and the clock.                                     *)
(***************************************************************************)

Editing ==
  \E w \in Lists, t \in Texts : CreateList(w) \/ AddEntry(w, t) \/ RemoveEntry(w, t) \/ DeleteList(w)

(* An operator edits the watchlists.                                        *)
LEMMA TypeEdit ==
  ASSUME TypeInv, Editing
  PROVE  TypeInv'
<1>. USE TypeParts
<1>1. PICK w \in Lists : EditList(w)
  BY DEF Editing, CreateList, AddEntry, RemoveEntry, DeleteList
<1>2. live' \subseteq Lists /\ watch' \in [Lists -> SUBSET Texts]
  BY DEF Editing, CreateList, AddEntry, RemoveEntry, DeleteList, StoreOK
<1>3. SessionOK' /\ VoterOK' /\ StoreOK' /\ ProcOK'
  BY <1>1, <1>2 DEF EditList, SessionOK, VoterOK, TracksAreFresh, StoreOK, ProcOK, clocks, voter, tables
<1>4. StageOK'
  BY <1>1, StageKept DEF EditList, StageOK
<1>5. QED
  BY <1>3, <1>4, TypeJoin

(* The process is stopped, dies, is started again; time passes.             *)
LEMMA TypeProcess ==
  ASSUME TypeInv, Stop \/ Die \/ Restart \/ Tick
  PROVE  TypeInv'
<1>. USE TypeParts
<1>1. CASE Stop
  BY <1>1, TypeJoin DEF Stop, SessionOK, StageOK, VoterOK, TracksAreFresh, StoreOK, ProcOK, voter, tables, site
<1>2. CASE Tick
  BY <1>2, TypeJoin, PipelineAssumption
  DEF Tick, SessionOK, StageOK, VoterOK, TracksAreFresh, StoreOK, ProcOK, voter, tables, site, Time
<1>3. CASE Restart
  <2>1. StageOK' /\ ProcOK'
    BY <1>3, PipelineAssumption DEF Restart, StageOK, ProcOK, Forget, Stages, Busy
  <2>2. SessionOK' /\ VoterOK' /\ StoreOK'
    BY <1>3 DEF Restart, SessionOK, VoterOK, TracksAreFresh, StoreOK, voter, tables, site
  <2>3. QED
    BY <2>1, <2>2, TypeJoin
<1>4. CASE Die
  <2>1. StageOK' /\ ProcOK'
    BY <1>4 DEF Die, StageOK, ProcOK, Forget, Stages, Busy
  <2>2. SessionOK' /\ StoreOK'
    BY <1>4 DEF Die, SessionOK, StoreOK, Forget, tables, site
  <2>3. VoterOK'
    BY <1>4, PipelineAssumption DEF Die, VoterOK, TracksAreFresh, Forget, NoTracks, Time
  <2>4. QED
    BY <2>1, <2>2, <2>3, TypeJoin
<1>5. QED
  BY <1>1, <1>2, <1>3, <1>4

(* Next by the handler that takes the step.                                 *)
LEMMA Handlers ==
  ASSUME Next
  PROVE  \/ \E c \in Cams : \/ \E f \in Frames : Frame(c, f)
                            \/ LeaveLoop(c)
                            \/ \E d \in todo[c] : \/ Discard(c, d) \/ Suppress(c, d)
                                                  \/ QueueReview(c, d) \/ Accept(c, d)
                            \/ SelectPlate(c) \/ WriteEvent(c) \/ LoadLists(c)
                            \/ \E w \in Lists : CheckList(c, w)
                            \/ FireAlert(c) \/ ListsDone(c) \/ CommitAlerts(c) \/ Notify(c)
                            \/ HandOver(c) \/ Drained(c) \/ HealthCommit(c)
         \/ Editing
         \/ Stop \/ Die \/ Restart \/ Tick
  BY Zenon DEF Next, NewFrame, ThreadStep, Editing

(* Every step keeps the types.                                              *)
LEMMA TypeStep == TypeInv /\ [Next]_vars => TypeInv'
<1>. SUFFICES ASSUME TypeInv, [Next]_vars PROVE TypeInv'
  OBVIOUS
<1>1. CASE UNCHANGED vars
  BY <1>1 DEF TypeInv, TypeOK, Control, TracksAreFresh, vars, clocks, voter, tables, site
<1>2. CASE Next
  BY <1>2, Handlers, TypeFrame, TypeLeave, TypeDrop, TypeReview, TypeAccept, TypeSelect, TypeWrite,
     TypeLoad, TypeCheck, TypeFire, TypeListsDone, TypeCommitAlerts, TypeNotify, TypeHandOver,
     TypeDrained, TypeHealth, TypeEdit, TypeProcess
<1>3. QED
  BY <1>1, <1>2

(* Sessions, stages, voters, rows and the process keep their types.         *)
THEOREM TypeInvariant == Spec => []TypeInv
<1>1. QED
  BY InitType, TypeStep, PTL DEF Spec

(* The tables, the voter and the threads keep their types for any number of *)
(* cameras, texts, watchlists, failures and restarts.                       *)
THEOREM TypeCorrect == Spec => []TypeOK
<1>1. TypeInv => TypeOK
  BY DEF TypeInv
<1>2. QED
  BY <1>1, TypeInvariant, PTL

(***************************************************************************)
(* No read counts twice.                                                   *)
(***************************************************************************)

(* Reads in the works keep their event or are dropped.                      *)
SameWork == \A c \in Cams : cur'[c] # None => cur[c] # None /\ cur'[c].ev = cur[c].ev

(* The values the invariant is about.                                       *)
LEMMA BackingDomain ==
  ASSUME TypeInv
  PROVE  /\ \A x \in events : x \in Event /\ x.cam \in Cams /\ x.text \in Texts
         /\ \A x \in reviews : x \in Review /\ x.cam \in Cams /\ x.text \in Texts
         /\ \A c \in Cams : \A d \in todo[c] : d \in Consensus /\ d.text \in Texts
         /\ \A c \in Cams : cur[c] # None => cur[c].ev \in Event /\ cur[c].ev.text \in Texts
  BY DEF TypeInv, TypeOK, Event, Review, Consensus, Read

(* Dropping reads from the queue, the works or the voter keeps the rest.    *)
LEMMA BackingLess ==
  ASSUME TypeInv, Backing, UNCHANGED <<seen, events, reviews>>, SameWork,
         \A c \in Cams : todo'[c] \subseteq todo[c],
         \A c \in Cams, t \in Texts : track'[c][t] # None => track'[c][t] = track[c][t]
  PROVE  Backing'
<1>1. \A c \in Cams, t \in Texts : \A x : Past(x, c, t) =>
         /\ x.n >= MinReads /\ x.first + x.n <= seen'[c][t] + 1
         /\ track'[c][t] # None => x.first + x.n <= track'[c][t].first
  BY DEF Past
<1>2. StoreBacked'
  BY <1>1, BackingDomain DEF Backing, StoreBacked, Past
<1>3. QueueBacked'
  <2>. SUFFICES ASSUME NEW c \in Cams, NEW d \in todo'[c] PROVE Queued(c, d)'
    BY DEF QueueBacked
  <2>1. Queued(c, d) /\ d.text \in Texts
    BY BackingDomain DEF Backing, QueueBacked
  <2>2. QED
    BY <1>1, <2>1 DEF Queued, Past
<1>4. WorkBacked'
  <2>. SUFFICES ASSUME NEW c \in Cams, cur'[c] # None PROVE Working(c, cur[c].ev)'
    BY DEF WorkBacked
  <2>1. PICK ev : ev = cur[c].ev /\ cur'[c].ev = ev /\ Working(c, ev) /\ ev.text \in Texts
    BY BackingDomain DEF Backing, WorkBacked, SameWork
  <2>2. Past(ev, c, ev.text)'
    BY <1>1, <2>1 DEF Working, Past
  <2>3. Working(c, ev)'
    BY <2>1, <2>2 DEF Working
  <2>4. QED
    BY <2>1, <2>3 DEF Working, Past
<1>5. NoReadCountsTwice'
  BY DEF Backing, NoReadCountsTwice
<1>6. QED
  BY <1>2, <1>3, <1>4, <1>5 DEF Backing

(* The first read a track of t holds, or will hold.                         *)
Base(c, t) == IF track[c][t] # None THEN track[c][t].first ELSE seen[c][t] + 1

(* What a camera has dealt with lies before the reads of its open track, or *)
(* before the next.                                                         *)
LEMMA PastBase ==
  ASSUME TypeInv, NEW c \in Cams, NEW t \in Texts, NEW x, x.first + x.n \in Int, Past(x, c, t)
  PROVE  x.first + x.n <= Base(c, t)
  BY DEF TypeInv, TypeOK, Past, Base, Track

(* A thread with no read in the works replaces its queue by what the voter  *)
(* emits.                                                                   *)
LEMMA BackingEmit ==
  ASSUME TypeInv, TypeInv', Backing, NEW c \in Cams, cur[c] = None,
         UNCHANGED <<events, reviews, cur>>,
         \A d \in Cams : d # c => todo'[d] = todo[d] /\ seen'[d] = seen[d] /\ track'[d] = track[d],
         \A t \in Texts : /\ seen'[c][t] >= seen[c][t]
                          /\ track'[c][t] # None => track'[c][t].first = Base(c, t),
         \A d \in todo'[c] : /\ d.n >= MinReads
                             /\ d.first = Base(c, d.text) /\ d.first + d.n <= seen'[c][d.text] + 1
                             /\ track'[c][d.text] = None,
         \A d, e \in todo'[c] : d.text = e.text => d = e
  PROVE  Backing'
<1>1. \A t \in Texts : \A x : (x.first + x.n \in Int /\ Past(x, c, t)) =>
         /\ x.n >= MinReads /\ x.first + x.n <= seen'[c][t] + 1
         /\ track'[c][t] # None => x.first + x.n <= track'[c][t].first
         /\ \A d \in todo'[c] : d.text = t => x.first + x.n <= d.first
  <2>. SUFFICES ASSUME NEW t \in Texts, NEW x, x.first + x.n \in Int, Past(x, c, t)
                PROVE  /\ x.n >= MinReads /\ x.first + x.n <= seen'[c][t] + 1
                       /\ track'[c][t] # None => x.first + x.n <= track'[c][t].first
                       /\ \A d \in todo'[c] : d.text = t => x.first + x.n <= d.first
    OBVIOUS
  <2>1. x.first + x.n <= Base(c, t)
    BY PastBase
  <2>2. seen[c][t] \in Int /\ seen'[c][t] \in Int
    BY DEF TypeInv, TypeOK
  <2>3. QED
    BY <2>1, <2>2 DEF Past
<1>2. \A x \in events \cup reviews : x.first + x.n \in Int
  BY BackingDomain DEF Event, Review
<1>3. \A d \in Cams, t \in Texts : \A x : d # c => (Past(x, d, t) => Past(x, d, t)')
  BY DEF Past
<1>4. StoreBacked'
  BY <1>1, <1>2, <1>3, BackingDomain DEF Backing, StoreBacked, Past
<1>5. QueueBacked'
  <2>. SUFFICES ASSUME NEW d \in Cams, NEW x \in todo'[d] PROVE Queued(d, x)'
    BY DEF QueueBacked
  <2>1. CASE d # c
    <3>1. Queued(d, x) /\ x.text \in Texts
      BY <2>1, BackingDomain DEF Backing, QueueBacked
    <3>2. Past(x, d, x.text)'
      BY <2>1, <3>1, <1>3 DEF Queued
    <3>3. QED
      BY <2>1, <3>1, <3>2 DEF Queued, Past
  <2>2. CASE d = c
    <3>1. x \in Consensus /\ x.text \in Texts
      BY DEF TypeInv, TypeOK, Consensus
    <3>2. Past(x, c, x.text)'
      BY <2>2 DEF Past
    <3>3. \A y \in events \cup reviews : (y.cam = c /\ y.text = x.text) => Apart(y, x)
      BY <1>1, <1>2, <2>2, <3>1 DEF Backing, StoreBacked, Apart
    <3>4. QED
      BY <2>2, <3>2, <3>3 DEF Queued, Past
  <2>3. QED
    BY <2>1, <2>2
<1>6. WorkBacked'
  <2>. SUFFICES ASSUME NEW d \in Cams, cur'[d] # None PROVE Working(d, cur[d].ev)'
    BY DEF WorkBacked
  <2>1. d # c /\ cur'[d] = cur[d] /\ Working(d, cur[d].ev) /\ cur[d].ev.text \in Texts
    BY BackingDomain DEF Backing, WorkBacked
  <2>2. PICK ev : ev = cur[d].ev /\ Working(d, ev) /\ ev.text \in Texts
    BY <2>1
  <2>3. Past(ev, d, ev.text)'
    BY <1>3, <2>1, <2>2 DEF Working
  <2>4. QED
    BY <2>1, <2>2, <2>3 DEF Working, Past
<1>7. NoReadCountsTwice'
  BY DEF Backing, NoReadCountsTwice
<1>8. QED
  BY <1>4, <1>5, <1>6, <1>7 DEF Backing

(* A frame adds reads to tracks and moves whole tracks to the queue.        *)
LEMMA BackingFrame ==
  ASSUME TypeInv, Backing, NEW c \in Cams, NEW f \in Frames, Frame(c, f)
  PROVE  Backing'
<1>. DEFINE read == WithReads(track[c], seen[c], f)
            gone == Gone(read, f)
<1>1. TypeInv'
  BY TypeFrame
<1>2. cur[c] = None
  BY DEF Frame, TypeInv, Control, Busy
<1>3. \A t \in Texts : read[t] # None => read[t].first = Base(c, t)
  <2>. SUFFICES ASSUME NEW t \in Texts, read[t] # None PROVE read[t].first = Base(c, t)
    OBVIOUS
  <2>1. track[c][t] \in Track \cup {None}
    BY DEF TypeInv, TypeOK
  <2>2. QED
    BY <2>1 DEF WithReads, Added, Base, Track
<1>4. /\ track' = [track EXCEPT ![c] = Remaining(read, gone)]
      /\ todo' = [todo EXCEPT ![c] = Emitted(read, gone)]
      /\ seen' = [seen EXCEPT ![c] = [t \in Texts |-> IF f[t] = None THEN seen[c][t] ELSE seen[c][t] + 1]]
  BY DEF Frame
<1>5. /\ DOMAIN track = Cams /\ DOMAIN todo = Cams /\ DOMAIN seen = Cams
      /\ \A t \in Texts : seen[c][t] \in Int
  BY DEF TypeInv, TypeOK
<1>6. \A t \in Texts : /\ seen'[c][t] >= seen[c][t]
                       /\ track'[c][t] # None => track'[c][t].first = Base(c, t)
  BY <1>3, <1>4, <1>5 DEF Remaining
<1>7. \A d \in todo'[c] : \E t \in gone :
        /\ d = [text |-> t, first |-> read[t].first, n |-> read[t].n, sum |-> read[t].sum]
        /\ read[t].n >= MinReads /\ t \in Texts /\ read[t] # None
  BY <1>4, <1>5 DEF Emitted, Gone
<1>8. \A t \in Texts : read[t] # None => read[t].first + read[t].n <= seen'[c][t] + 1
  <2>. SUFFICES ASSUME NEW t \in Texts, read[t] # None
                PROVE  read[t].first + read[t].n <= seen'[c][t] + 1
    OBVIOUS
  <2>1. /\ track[c][t] \in Track \cup {None} /\ seen[c][t] \in Int
        /\ track[c][t] # None => track[c][t].first + track[c][t].n = seen[c][t] + 1
    BY DEF TypeInv, TypeOK, TracksAreFresh
  <2>2. CASE f[t] = None
    BY <1>4, <1>5, <2>1, <2>2 DEF WithReads
  <2>3. CASE f[t] # None
    <3>1. read[t].first + read[t].n = seen[c][t] + 2
      BY <2>1, <2>3 DEF WithReads, Added, Track
    <3>2. QED
      BY <1>4, <1>5, <2>1, <2>3, <3>1
  <2>4. QED
    BY <2>2, <2>3
<1>9. \A d \in todo'[c] : /\ d.n >= MinReads
                          /\ d.first = Base(c, d.text) /\ d.first + d.n <= seen'[c][d.text] + 1
                          /\ track'[c][d.text] = None
  BY <1>3, <1>4, <1>5, <1>7, <1>8 DEF Remaining
<1>10. \A d, e \in todo'[c] : d.text = e.text => d = e
  BY <1>7
<1>11. \A d \in Cams : d # c => todo'[d] = todo[d] /\ seen'[d] = seen[d] /\ track'[d] = track[d]
  BY <1>4, <1>5
<1>12. UNCHANGED <<events, reviews, cur>>
  BY DEF Frame, tables
<1>13. QED
  BY <1>1, <1>2, <1>6, <1>9, <1>10, <1>11, <1>12, BackingEmit

(* The flush at the end moves every track to the queue.                     *)
LEMMA BackingLeave ==
  ASSUME TypeInv, Backing, NEW c \in Cams, LeaveLoop(c)
  PROVE  Backing'
<1>. DEFINE open == {t \in Texts : track[c][t] # None}
<1>1. TypeInv'
  BY TypeLeave
<1>2. cur[c] = None
  BY DEF LeaveLoop, TypeInv, Control, Busy
<1>3. /\ track' = [track EXCEPT ![c] = NoTracks]
      /\ todo' = [todo EXCEPT ![c] = Emitted(track[c], open)]
      /\ UNCHANGED <<events, reviews, cur, seen>>
  BY DEF LeaveLoop
<1>4. /\ DOMAIN track = Cams /\ DOMAIN todo = Cams
      /\ \A t \in Texts : seen[c][t] \in Int /\ track[c][t] \in Track \cup {None}
  BY DEF TypeInv, TypeOK
<1>5. \A d \in todo'[c] : \E t \in open :
        /\ d = [text |-> t, first |-> track[c][t].first, n |-> track[c][t].n, sum |-> track[c][t].sum]
        /\ track[c][t].n >= MinReads
  BY <1>3, <1>4 DEF Emitted
<1>6. \A t \in open : track[c][t].first + track[c][t].n <= seen[c][t] + 1
  BY <1>4 DEF TypeInv, TracksAreFresh
<1>7. \A d \in todo'[c] : /\ d.n >= MinReads
                          /\ d.first = Base(c, d.text) /\ d.first + d.n <= seen'[c][d.text] + 1
                          /\ track'[c][d.text] = None
  BY <1>3, <1>4, <1>5, <1>6 DEF NoTracks, Base
<1>8. \A d, e \in todo'[c] : d.text = e.text => d = e
  BY <1>5
<1>9. \A d \in Cams : d # c => todo'[d] = todo[d] /\ seen'[d] = seen[d] /\ track'[d] = track[d]
  BY <1>3, <1>4
<1>10. \A t \in Texts : /\ seen'[c][t] >= seen[c][t]
                        /\ track'[c][t] # None => track'[c][t].first = Base(c, t)
  BY <1>3, <1>4 DEF NoTracks
<1>11. QED
  BY <1>1, <1>2, <1>3, <1>7, <1>8, <1>9, <1>10, BackingEmit

(* A queued read becomes a review item.                                     *)
LEMMA BackingReview ==
  ASSUME TypeInv, Backing, NEW c \in Cams, NEW d \in todo[c], QueueReview(c, d)
  PROVE  Backing'
<1>. DEFINE r == [cam |-> c, text |-> d.text, first |-> d.first, n |-> d.n]
<1>1. /\ todo' = [todo EXCEPT ![c] = todo[c] \ {d}]
      /\ reviews' \subseteq reviews \cup {r}
      /\ UNCHANGED <<seen, track, events, cur>>
  BY DEF QueueReview, Take, voter
<1>2. /\ \A b \in Cams : todo'[b] \subseteq todo[b]
      /\ d \notin todo'[c]
  BY <1>1 DEF TypeInv, TypeOK
<1>3. /\ Past(d, c, d.text)
      /\ \A x \in events \cup reviews : (x.cam = c /\ x.text = d.text) => Apart(x, d)
      /\ \A e \in todo[c] : (e.text = d.text /\ e # d) => Apart(e, d)
  BY DEF Backing, QueueBacked, Queued
<1>4. /\ r.cam = c /\ r.text = d.text /\ Past(r, c, r.text)
      /\ \A x \in events \cup reviews : (x.cam = c /\ x.text = r.text) => Apart(x, r)
      /\ \A e \in todo[c] : (e.text = r.text /\ e # d) => Apart(r, e)
  BY <1>3 DEF Past, Apart
<1>5. \A x : \A b, t : Past(x, b, t) => Past(x, b, t)'
  BY <1>1 DEF Past
<1>6. StoreBacked'
  BY <1>1, <1>4, <1>5 DEF Backing, StoreBacked, Past
<1>7. QueueBacked'
  <2>. SUFFICES ASSUME NEW b \in Cams, NEW e \in todo'[b] PROVE Queued(b, e)'
    BY DEF QueueBacked
  <2>1. Queued(b, e)
    BY <1>2 DEF Backing, QueueBacked
  <2>2. (b = c /\ e.text = r.text) => Apart(r, e)
    BY <1>2, <1>4
  <2>3. QED
    BY <1>1, <1>2, <1>4, <1>5, <2>1, <2>2 DEF Queued, Past
<1>8. WorkBacked'
  <2>. SUFFICES ASSUME NEW b \in Cams, cur'[b] # None PROVE Working(b, cur[b].ev)'
    BY DEF WorkBacked
  <2>1. PICK ev : ev = cur[b].ev /\ cur'[b].ev = ev /\ Working(b, ev)
    BY <1>1 DEF Backing, WorkBacked
  <2>2. (b = c /\ r.text = ev.text) => Apart(r, ev)
    BY <1>3, <2>1 DEF Working, Apart
  <2>3. Working(b, ev)'
    BY <1>1, <1>2, <1>4, <1>5, <2>1, <2>2 DEF Working, Past
  <2>4. QED
    BY <2>1, <2>3 DEF Working, Past
<1>9. NoReadCountsTwice'
  <2>1. r.n >= MinReads
    BY <1>4 DEF Past
  <2>2. \A x \in reviews : (x.cam = r.cam /\ x.text = r.text) => Apart(x, r) /\ Apart(r, x)
    BY <1>4 DEF Apart
  <2>3. \A x \in events : (x.cam = r.cam /\ x.text = r.text) => Apart(x, r)
    BY <1>4
  <2>4. QED
    BY <1>1, <2>1, <2>2, <2>3 DEF Backing, NoReadCountsTwice
<1>10. QED
  BY <1>6, <1>7, <1>8, <1>9 DEF Backing

(* A queued read becomes the read in the works.                             *)
LEMMA BackingAccept ==
  ASSUME TypeInv, Backing, NEW c \in Cams, NEW d \in todo[c], Accept(c, d)
  PROVE  Backing'
<1>0. PICK ev : ev = EventOf(c, d)
  OBVIOUS
<1>1. /\ todo' = [todo EXCEPT ![c] = todo[c] \ {d}]
      /\ cur' = [cur EXCEPT ![c] = [ev |-> ev, known |-> FALSE, made |-> FALSE]]
      /\ UNCHANGED <<seen, track, events, reviews>>
  BY <1>0 DEF Accept, Take, voter, tables
<1>2. /\ \A b \in Cams : todo'[b] \subseteq todo[b]
      /\ d \notin todo'[c]
      /\ cur'[c].ev = ev
      /\ \A b \in Cams : b # c => cur'[b] = cur[b]
  BY <1>1 DEF TypeInv, TypeOK
<1>3. /\ Past(d, c, d.text)
      /\ \A x \in events \cup reviews : (x.cam = c /\ x.text = d.text) => Apart(x, d)
      /\ \A e \in todo[c] : (e.text = d.text /\ e # d) => Apart(e, d)
  BY DEF Backing, QueueBacked, Queued
<1>4. ev.cam = c /\ ev.text = d.text /\ ev.first = d.first /\ ev.n = d.n
  BY <1>0 DEF EventOf
<1>5. \A x : \A b, t : Past(x, b, t) => Past(x, b, t)'
  BY <1>1 DEF Past
<1>6. StoreBacked' /\ NoReadCountsTwice'
  BY <1>1, <1>5 DEF Backing, StoreBacked, NoReadCountsTwice, Past
<1>7. QueueBacked'
  <2>. SUFFICES ASSUME NEW b \in Cams, NEW e \in todo'[b] PROVE Queued(b, e)'
    BY DEF QueueBacked
  <2>1. Queued(b, e)
    BY <1>2 DEF Backing, QueueBacked
  <2>2. QED
    BY <1>1, <1>2, <1>5, <2>1 DEF Queued, Past
<1>8. WorkBacked'
  <2>. SUFFICES ASSUME NEW b \in Cams, cur'[b] # None PROVE Working(b, cur[b].ev)'
    BY DEF WorkBacked
  <2>1. CASE b = c
    <3>1. Past(ev, c, ev.text)'
      BY <1>1, <1>3, <1>4 DEF Past
    <3>2. \A x \in events \cup reviews : (x.cam = c /\ x.text = ev.text) => Apart(x, ev)
      BY <1>3, <1>4 DEF Apart
    <3>3. \A e \in todo'[c] : e.text = ev.text => Apart(e, ev)
      BY <1>2, <1>3, <1>4 DEF Apart
    <3>4. QED
      BY <1>1, <1>2, <1>4, <2>1, <3>1, <3>2, <3>3 DEF Working, Past
  <2>2. CASE b # c
    <3>1. PICK e : e = cur[b].ev /\ cur'[b].ev = e /\ Working(b, e)
      BY <1>2, <2>2 DEF Backing, WorkBacked
    <3>2. Working(b, e)'
      BY <1>1, <1>2, <1>5, <3>1 DEF Working, Past
    <3>3. QED
      BY <3>1, <3>2 DEF Working, Past
  <2>3. QED
    BY <2>1, <2>2
<1>9. QED
  BY <1>6, <1>7, <1>8 DEF Backing

(* The read in the works becomes an event.                                  *)
LEMMA BackingWrite ==
  ASSUME TypeInv, Backing, NEW c \in Cams, WriteEvent(c)
  PROVE  Backing'
<1>. DEFINE ev == cur[c].ev
<1>1. cur[c] # None
  BY DEF WriteEvent, TypeInv, Control, Busy
<1>2. PICK w : w = ev /\ Working(c, w)
  BY <1>1 DEF Backing, WorkBacked
<1>3. /\ events' \subseteq events \cup {w}
      /\ UNCHANGED <<seen, track, reviews, todo>>
  BY <1>2 DEF WriteEvent, voter
<1>4. SameWork
  <2>1. cur' = cur \/ cur' = [cur EXCEPT ![c] = None]
    BY DEF WriteEvent, Return
  <2>2. QED
    BY <2>1 DEF SameWork, TypeInv, TypeOK
<1>5. /\ w.cam = c /\ Past(w, c, w.text)
      /\ \A x \in events : (x.cam = c /\ x.text = w.text /\ x # w) => Apart(x, w)
      /\ \A x \in reviews : (x.cam = c /\ x.text = w.text) => Apart(x, w)
      /\ \A d \in todo[c] : d.text = w.text => Apart(d, w)
  BY <1>2 DEF Working
<1>6. \A x : \A b, t : Past(x, b, t) => Past(x, b, t)'
  BY <1>3 DEF Past
<1>7. StoreBacked'
  BY <1>3, <1>5, <1>6 DEF Backing, StoreBacked, Past
<1>8. QueueBacked'
  <2>. SUFFICES ASSUME NEW b \in Cams, NEW e \in todo'[b] PROVE Queued(b, e)'
    BY DEF QueueBacked
  <2>1. Queued(b, e)
    BY <1>3 DEF Backing, QueueBacked
  <2>2. (b = c /\ e.text = w.text) => Apart(w, e)
    BY <1>3, <1>5 DEF Apart
  <2>3. QED
    BY <1>3, <1>5, <1>6, <2>1, <2>2 DEF Queued, Past
<1>9. WorkBacked'
  <2>. SUFFICES ASSUME NEW b \in Cams, cur'[b] # None PROVE Working(b, cur[b].ev)'
    BY DEF WorkBacked
  <2>1. PICK e : e = cur[b].ev /\ cur'[b].ev = e /\ Working(b, e)
    BY <1>4 DEF Backing, WorkBacked, SameWork
  <2>2. b = c => e = w
    BY <1>2, <2>1
  <2>3. Working(b, e)'
    BY <1>3, <1>5, <1>6, <2>1, <2>2 DEF Working, Past
  <2>4. QED
    BY <2>1, <2>3 DEF Working, Past
<1>10. NoReadCountsTwice'
  <2>1. w.n >= MinReads
    BY <1>5 DEF Past
  <2>2. \A x \in events : (x.cam = w.cam /\ x.text = w.text /\ x # w) => Apart(x, w) /\ Apart(w, x)
    BY <1>5 DEF Apart
  <2>3. \A x \in reviews : (x.cam = w.cam /\ x.text = w.text) => Apart(w, x)
    BY <1>5 DEF Apart
  <2>4. QED
    BY <1>3, <2>1, <2>2, <2>3 DEF Backing, NoReadCountsTwice
<1>11. QED
  BY <1>7, <1>8, <1>9, <1>10 DEF Backing

(* Nothing is stored at first.                                              *)
LEMMA BackingInit == Init => Backing
  BY DEF Init, Backing, StoreBacked, QueueBacked, WorkBacked, NoReadCountsTwice

(* What a thread does with a read it has accepted. *)
LEMMA BackingThread ==
  ASSUME TypeInv, Backing, NEW c \in Cams,
         \/ SelectPlate(c) \/ LoadLists(c) \/ (\E w \in Lists : CheckList(c, w))
         \/ FireAlert(c) \/ ListsDone(c) \/ CommitAlerts(c) \/ Notify(c) \/ HandOver(c)
         \/ Drained(c) \/ HealthCommit(c)
  PROVE  Backing'
<1>1. UNCHANGED <<seen, track, todo, events, reviews>>
  BY DEF SelectPlate, LoadLists, CheckList, FireAlert, ListsDone, CommitAlerts, Notify, HandOver,
         Drained, HealthCommit, voter, tables
<1>2. \/ cur' = cur \/ Return(c)
      \/ cur' = [cur EXCEPT ![c].known = plateRows[cur[c].ev.text] > 0] /\ cur[c] # None
      \/ cur' = [cur EXCEPT ![c].made = TRUE] /\ cur[c] # None
  BY DEF SelectPlate, LoadLists, CheckList, FireAlert, ListsDone, CommitAlerts, Notify, HandOver,
         Drained, HealthCommit, TypeInv, Control, Busy
<1>3. cur \in [Cams -> Read \cup {None}]
  BY DEF TypeInv, TypeOK
<1>4. SameWork
  BY <1>2, <1>3 DEF SameWork, Return, Read
<1>5. QED
  BY <1>1, <1>4, BackingLess

(* Steps that store nothing and only forget.                                *)
LEMMA BackingOther ==
  ASSUME TypeInv, Backing,
         \/ \E c \in Cams : \E d \in todo[c] : Discard(c, d) \/ Suppress(c, d)
         \/ Editing \/ Stop \/ Die \/ Restart \/ Tick
  PROVE  Backing'
<1>1. UNCHANGED <<seen, events, reviews>>
  BY DEF Discard, Suppress, Editing, CreateList, AddEntry, RemoveEntry, DeleteList, EditList, Stop,
         Die, Restart, Tick, voter, tables
<1>2. cur' = cur \/ Die
  BY DEF Discard, Suppress, Editing, CreateList, AddEntry, RemoveEntry, DeleteList, EditList, Stop,
         Restart, Tick
<1>3. SameWork
  BY <1>2 DEF SameWork, Die, Forget, TypeInv, TypeOK
<1>4. \A c \in Cams : todo'[c] \subseteq todo[c]
  <2>1. \/ todo' = todo \/ todo' = [c \in Cams |-> {}]
        \/ \E c \in Cams : \E d \in todo[c] : todo' = [todo EXCEPT ![c] = @ \ {d}]
    BY DEF Discard, Suppress, Take, Editing, CreateList, AddEntry, RemoveEntry, DeleteList,
           EditList, Stop, Restart, Tick, Die, Forget, TypeInv, TypeOK
  <2>2. QED
    BY <2>1 DEF TypeInv, TypeOK
<1>5. \A c \in Cams, t \in Texts : track'[c][t] # None => track'[c][t] = track[c][t]
  <2>1. track' = track \/ track' = [c \in Cams |-> NoTracks]
    BY DEF Discard, Suppress, Editing, CreateList, AddEntry, RemoveEntry, DeleteList, EditList,
           Stop, Restart, Tick, Die, Forget, TypeInv, TypeOK, voter
  <2>2. QED
    BY <2>1 DEF NoTracks
<1>6. QED
  BY <1>1, <1>3, <1>4, <1>5, BackingLess

(* Every step keeps what is stored backed by reads of its own.              *)
LEMMA BackingStep == TypeInv /\ Backing /\ [Next]_vars => Backing'
<1>. SUFFICES ASSUME TypeInv, Backing, [Next]_vars PROVE Backing'
  OBVIOUS
<1>1. CASE UNCHANGED vars
  <2>1. UNCHANGED <<seen, track, todo, cur, events, reviews>>
    BY <1>1 DEF vars, voter, tables
  <2>2. SameWork
    BY <2>1 DEF SameWork
  <2>3. QED
    BY <2>1, <2>2, BackingLess
<1>2. CASE Next
  BY <1>2, Handlers, BackingFrame, BackingLeave, BackingReview, BackingAccept, BackingWrite,
     BackingThread, BackingOther
<1>3. QED
  BY <1>1, <1>2

(* Every event and every review item rests on enough reads, and no read of  *)
(* a plate is counted for two of them, whatever expires, fails, stops or    *)
(* restarts in between (voter.py update and flush, main.py on_consensus).   *)
THEOREM ReadsCountOnce == Spec => []NoReadCountsTwice
<1>1. Backing => NoReadCountsTwice
  BY DEF Backing
<1>2. QED
  BY <1>1, TypeInvariant, BackingInit, BackingStep, PTL DEF Spec

(***************************************************************************)
(* Events are spaced by the window.                                        *)
(***************************************************************************)

(* There are no events at first.                                            *)
LEMMA SpacingInit == Init => Spacing
  BY DEF Init, Spacing, EventsAreSpaced

(* Steps that leave the events and the deduplicator alone.                  *)
LEMMA SpacingKept ==
  ASSUME TypeInv, Spacing, UNCHANGED <<events, lastSeen, boot>>, SameWork,
         proc' = "down" \/ proc # "down"
  PROVE  Spacing'
<1>1. \A e \in events' : Remembered(e)'
  BY DEF Spacing, Remembered
<1>2. EventsAreSpaced'
  BY DEF Spacing, EventsAreSpaced
<1>3. \A c \in Cams : cur'[c] # None => Newest(c, cur[c].ev)'
  <2>. SUFFICES ASSUME NEW c \in Cams, cur'[c] # None PROVE Newest(c, cur[c].ev)'
    OBVIOUS
  <2>1. PICK x : x = cur[c].ev /\ cur'[c].ev = x
    BY DEF SameWork
  <2>2. Newest(c, x)
    BY <2>1 DEF Spacing, SameWork
  <2>3. QED
    BY <2>1, <2>2 DEF Newest
<1>4. QED
  BY <1>1, <1>2, <1>3 DEF Spacing

(* The deduplicator lets a text through once per window.                    *)
LEMMA SpacingAccept ==
  ASSUME TypeInv, Spacing, NEW c \in Cams, NEW d \in todo[c], Accept(c, d)
  PROVE  Spacing'
<1>0. PICK x : x = EventOf(c, d)
  OBVIOUS
<1>1. /\ lastSeen' = [lastSeen EXCEPT ![c][d.text] = now]
      /\ cur' = [cur EXCEPT ![c] = [ev |-> x, known |-> FALSE, made |-> FALSE]]
      /\ UNCHANGED <<events, boot, proc>>
      /\ now - lastSeen[c][d.text] >= Window
  BY <1>0 DEF Accept, clocks, tables, IsNew
<1>2. /\ d.text \in Texts
      /\ lastSeen \in [Cams -> [Texts -> Nat]] /\ now \in Nat
      /\ DOMAIN cur = Cams
      /\ \A e \in events : e.ts \in Nat /\ e.cam \in Cams /\ e.text \in Texts
  BY DEF TypeInv, TypeOK, Consensus, Event, Time
<1>3. x.cam = c /\ x.text = d.text /\ x.ts = now /\ x.boot = boot
  BY <1>0 DEF EventOf
<1>4. proc # "down"
  BY DEF Accept, TypeInv, Control
<1>5. lastSeen'[c][d.text] = now /\ cur'[c].ev = x
  BY <1>1, <1>2
<1>6. \A e \in events : (e.cam = c /\ e.text = d.text /\ e.boot = boot) => now - e.ts >= Window
  <2>. SUFFICES ASSUME NEW e \in events, e.cam = c, e.text = d.text, e.boot = boot
                PROVE  now - e.ts >= Window
    OBVIOUS
  <2>1. e.ts <= lastSeen[c][d.text]
    BY <1>4 DEF Spacing, Remembered
  <2>2. e.ts \in Int /\ now \in Int /\ lastSeen[c][d.text] \in Int /\ Window \in Int
    BY <1>2, PipelineAssumption
  <2>3. QED
    BY <1>1, <2>1, <2>2
<1>7. \A b \in Cams, t \in Texts : (b # c \/ t # d.text) => lastSeen'[b][t] = lastSeen[b][t]
  BY <1>1, <1>2
<1>8. \A e \in events' : Remembered(e)'
  <2>. SUFFICES ASSUME NEW e \in events PROVE Remembered(e)'
    BY <1>1
  <2>1. /\ e.boot <= boot /\ (e.boot = boot => e.ts <= lastSeen[e.cam][e.text])
        /\ e.ts \in Int /\ now \in Int /\ Window \in Nat
    BY <1>2, <1>4, PipelineAssumption DEF Spacing, Remembered
  <2>2. CASE e.cam = c /\ e.text = d.text
    BY <1>1, <1>5, <1>6, <2>1, <2>2 DEF Remembered
  <2>3. CASE e.cam # c \/ e.text # d.text
    BY <1>1, <1>2, <1>7, <2>1, <2>3 DEF Remembered
  <2>4. QED
    BY <2>2, <2>3
<1>9. \A b \in Cams : cur'[b] # None => Newest(b, cur[b].ev)'
  <2>. SUFFICES ASSUME NEW b \in Cams, cur'[b] # None PROVE Newest(b, cur[b].ev)'
    OBVIOUS
  <2>1. CASE b = c
    BY <1>1, <1>3, <1>5, <1>6, <2>1 DEF Newest
  <2>2. CASE b # c
    <3>1. PICK y : y = cur[b].ev /\ cur'[b].ev = y /\ Newest(b, y)
      BY <1>1, <1>2, <2>2 DEF Spacing
    <3>2. lastSeen'[b] = lastSeen[b]
      BY <1>1, <1>2, <2>2
    <3>3. QED
      BY <1>1, <3>1, <3>2 DEF Newest
  <2>3. QED
    BY <2>1, <2>2
<1>10. EventsAreSpaced'
  BY <1>1 DEF Spacing, EventsAreSpaced
<1>11. QED
  BY <1>1, <1>8, <1>9, <1>10 DEF Spacing

(* An event is stored for the newest read it let through.                   *)
LEMMA SpacingWrite ==
  ASSUME TypeInv, Spacing, NEW c \in Cams, WriteEvent(c)
  PROVE  Spacing'
<1>1. cur[c] # None
  BY DEF WriteEvent, TypeInv, Control, Busy
<1>2. PICK w : w = cur[c].ev /\ Newest(c, w)
  BY <1>1 DEF Spacing
<1>3. /\ events' \subseteq events \cup {w}
      /\ UNCHANGED <<lastSeen, boot, proc>>
  BY <1>2 DEF WriteEvent
<1>4. SameWork
  <2>1. cur' = cur \/ cur' = [cur EXCEPT ![c] = None]
    BY DEF WriteEvent, Return
  <2>2. QED
    BY <2>1 DEF SameWork, TypeInv, TypeOK
<1>5. /\ w.cam = c /\ w.boot = boot /\ w.ts = lastSeen[c][w.text]
      /\ \A e \in events : (e.cam = c /\ e.text = w.text /\ e.boot = boot /\ e # w)
                              => w.ts - e.ts >= Window
  BY <1>2 DEF Newest
<1>6. w.ts \in Int /\ w.boot \in Int
  BY <1>1, <1>2 DEF TypeInv, TypeOK, Read, Event, Time
<1>7. \A e \in events' : Remembered(e)'
  <2>1. \A e \in events : Remembered(e)'
    BY <1>3 DEF Spacing, Remembered
  <2>2. Remembered(w)'
    BY <1>3, <1>5, <1>6 DEF Remembered
  <2>3. QED
    BY <1>3, <2>1, <2>2
<1>8. \A b \in Cams : cur'[b] # None => Newest(b, cur[b].ev)'
  <2>. SUFFICES ASSUME NEW b \in Cams, cur'[b] # None PROVE Newest(b, cur[b].ev)'
    OBVIOUS
  <2>1. PICK x : x = cur[b].ev /\ cur'[b].ev = x /\ cur[b] # None
    BY <1>4 DEF SameWork
  <2>2. Newest(b, x)
    BY <2>1 DEF Spacing
  <2>3. \A e \in events' : (e.cam = b /\ e.text = x.text /\ e.boot = boot /\ e # x)
                              => x.ts - e.ts >= Window
    BY <1>2, <1>3, <1>5, <2>1, <2>2 DEF Newest
  <2>4. QED
    BY <1>3, <2>1, <2>2, <2>3 DEF Newest
<1>9. EventsAreSpaced'
  <2>. SUFFICES ASSUME NEW e \in events', NEW f \in events', e.cam = f.cam, e.text = f.text,
                       e.boot = f.boot, e # f
                PROVE  e.ts - f.ts >= Window \/ f.ts - e.ts >= Window
    BY DEF EventsAreSpaced
  <2>1. CASE e \in events /\ f \in events
    BY <2>1 DEF Spacing, EventsAreSpaced
  <2>2. CASE e = w \/ f = w
    BY <1>3, <1>5, <2>2
  <2>3. QED
    BY <1>3, <2>1, <2>2
<1>10. QED
  BY <1>7, <1>8, <1>9 DEF Spacing

(* A crash forgets what was in the works; the next process has a number of  *)
(* its own.                                                                 *)
LEMMA SpacingDie ==
  ASSUME TypeInv, Spacing, Die
  PROVE  Spacing'
<1>1. SameWork
  BY DEF SameWork, Die, Forget, TypeInv, TypeOK
<1>2. \A c \in Cams : cur'[c] = None
  BY DEF Die, Forget, TypeInv, TypeOK
<1>3. QED
  BY <1>2 DEF Die, Spacing, Remembered, EventsAreSpaced, tables

(* A new process has a deduplicator that knows nothing.                     *)
LEMMA SpacingRestart ==
  ASSUME TypeInv, Spacing, Restart
  PROVE  Spacing'
<1>1. \A c \in Cams : cur'[c] = None
  BY DEF Restart, TypeInv, Control, Busy
<1>2. boot \in Int /\ \A e \in events : e.boot \in Int
  BY DEF TypeInv, TypeOK, Event
<1>3. QED
  BY <1>1, <1>2 DEF Restart, Spacing, Remembered, EventsAreSpaced, tables

(* Every step keeps the events of a process apart.                          *)
LEMMA SpacingStep == TypeInv /\ Spacing /\ [Next]_vars => Spacing'
<1>. SUFFICES ASSUME TypeInv, Spacing, [Next]_vars PROVE Spacing'
  OBVIOUS
<1>1. CASE UNCHANGED vars
  <2>1. UNCHANGED <<events, lastSeen, boot, proc, cur>>
    BY <1>1 DEF vars, clocks, tables
  <2>2. QED
    BY <2>1, SpacingKept DEF SameWork
<1>2. ASSUME NEW c \in Cams,
             \/ \E f \in Frames : Frame(c, f)
             \/ LeaveLoop(c)
             \/ \E d \in todo[c] : Discard(c, d) \/ Suppress(c, d) \/ QueueReview(c, d)
             \/ SelectPlate(c) \/ LoadLists(c) \/ (\E w \in Lists : CheckList(c, w))
             \/ FireAlert(c) \/ ListsDone(c) \/ CommitAlerts(c) \/ Notify(c) \/ HandOver(c)
             \/ Drained(c) \/ HealthCommit(c)
      PROVE  Spacing'
  <2>1. UNCHANGED <<events, lastSeen, boot, proc>>
    BY <1>2 DEF Frame, LeaveLoop, Discard, Suppress, QueueReview, SelectPlate, LoadLists, CheckList,
       FireAlert, ListsDone, CommitAlerts, Notify, HandOver, Drained, HealthCommit, clocks, tables
  <2>2. \/ cur' = cur \/ Return(c)
        \/ cur' = [cur EXCEPT ![c].known = plateRows[cur[c].ev.text] > 0] /\ cur[c] # None
        \/ cur' = [cur EXCEPT ![c].made = TRUE] /\ cur[c] # None
    BY <1>2 DEF Frame, LeaveLoop, Discard, Suppress, QueueReview, SelectPlate, LoadLists, CheckList,
       FireAlert, ListsDone, CommitAlerts, Notify, HandOver, Drained, HealthCommit, TypeInv,
       Control, Busy
  <2>3. cur \in [Cams -> Read \cup {None}]
    BY DEF TypeInv, TypeOK
  <2>4. SameWork
    BY <2>2, <2>3 DEF SameWork, Return, Read
  <2>5. QED
    BY <2>1, <2>4, SpacingKept
<1>3. CASE Editing \/ Stop \/ Tick
  <2>1. UNCHANGED <<events, lastSeen, boot, cur>> /\ (proc' = proc \/ Stop)
    BY <1>3 DEF Editing, CreateList, AddEntry, RemoveEntry, DeleteList, EditList, Stop, Tick,
       clocks, tables
  <2>2. QED
    BY <2>1, SpacingKept DEF SameWork, Stop
<1>4. CASE Next
  BY <1>2, <1>3, <1>4, Handlers, SpacingAccept, SpacingWrite, SpacingDie, SpacingRestart
<1>5. QED
  BY <1>1, <1>4

(* A process writes events of one plate at one camera at least the dedup    *)
(* window apart, failed writes and the flush at shutdown included           *)
(* (dedup.py is_new, main.py on_consensus).                                 *)
THEOREM EventsSpaced == Spec => []EventsAreSpaced
<1>1. Spacing => EventsAreSpaced
  BY DEF Spacing
<1>2. QED
  BY <1>1, TypeInvariant, SpacingInit, SpacingStep, PTL DEF Spec

(***************************************************************************)
(* Alerts: a step of one thread leaves the other threads' reads and        *)
(* sessions alone and never takes an alert back.                           *)
(***************************************************************************)

OthersKept(c) ==
  /\ \A d \in Cams \ {c} :
       /\ pc'[d] = pc[d] /\ cur'[d] = cur[d] /\ lists'[d] = lists[d] /\ hit'[d] = hit[d]
       /\ owed'[d] = owed[d] /\ pending'[d] = pending[d]
       /\ d \in broken' <=> d \in broken
  /\ alerts \subseteq alerts' /\ UNCHANGED site

(* The steps of thread c that neither fire nor commit nor announce an alert. *)
Quiet(c) ==
  \/ \E f \in Frames : Frame(c, f)
  \/ LeaveLoop(c)
  \/ \E d \in todo[c] : Discard(c, d) \/ Suppress(c, d) \/ QueueReview(c, d) \/ Accept(c, d)
  \/ SelectPlate(c) \/ WriteEvent(c) \/ Drained(c)

(* The steps of the watchlist check and what follows it.                    *)
Alerting(c) ==
  \/ LoadLists(c) \/ (\E w \in Lists : CheckList(c, w)) \/ FireAlert(c) \/ ListsDone(c)
  \/ CommitAlerts(c) \/ Notify(c) \/ HandOver(c) \/ HealthCommit(c)

(* What a thread does to its own session leaves the others' alone.          *)
LEMMA SessionLocal ==
  ASSUME TypeInv, NEW c \in Cams,
         \/ UNCHANGED <<broken, pending, alerts>>
         \/ UNCHANGED <<broken, alerts>> /\ \E S : pending' = [pending EXCEPT ![c] = S]
         \/ UNCHANGED broken /\ Commit(c, {})
         \/ StatementFails(c) /\ UNCHANGED alerts
         \/ Break(c) /\ alerts' = alerts \cup pending[c]
         \/ broken' = broken \cup {c} /\ pending' = [pending EXCEPT ![c] = {}] /\ UNCHANGED alerts
         \/ broken' = broken \ {c} /\ pending' = [pending EXCEPT ![c] = {}] /\ UNCHANGED alerts
  PROVE  /\ \A d \in Cams \ {c} : pending'[d] = pending[d] /\ (d \in broken' <=> d \in broken)
         /\ alerts \subseteq alerts'
  BY DEF TypeInv, TypeOK, Commit, StatementFails, Break

(* Threads that raise no alert touch nobody else's read.                    *)
LEMMA QuietLocal ==
  ASSUME TypeInv, NEW c \in Cams, Quiet(c)
  PROVE  OthersKept(c)
<1>1. UNCHANGED site
  BY DEF Quiet, Frame, LeaveLoop, Discard, Suppress, QueueReview, Accept, SelectPlate, WriteEvent,
         Drained
<1>2. /\ \A d \in Cams \ {c} : pending'[d] = pending[d] /\ (d \in broken' <=> d \in broken)
      /\ alerts \subseteq alerts'
  <2>1. \/ UNCHANGED <<broken, pending, alerts>>
        \/ UNCHANGED <<broken, alerts>> /\ \E S : pending' = [pending EXCEPT ![c] = S]
        \/ UNCHANGED broken /\ Commit(c, {})
        \/ StatementFails(c) /\ UNCHANGED alerts
        \/ Break(c) /\ alerts' = alerts \cup pending[c]
    BY DEF Quiet, Frame, LeaveLoop, Discard, Suppress, QueueReview, Accept, SelectPlate, WriteEvent,
           Drained, tables
  <2>2. QED
    BY <2>1, SessionLocal
<1>3. \A d \in Cams \ {c} :
        /\ pc'[d] = pc[d] /\ cur'[d] = cur[d] /\ lists'[d] = lists[d] /\ hit'[d] = hit[d]
        /\ owed'[d] = owed[d]
  <2>1. pc' = pc \/ (\E s : pc' = [pc EXCEPT ![c] = s])
    BY DEF Quiet, Frame, LeaveLoop, Discard, Suppress, QueueReview, Accept, SelectPlate, WriteEvent,
           Drained, Goto, Return
  <2>2. cur' = cur \/ (\E x : cur' = [cur EXCEPT ![c] = x])
    BY DEF Quiet, Frame, LeaveLoop, Discard, Suppress, QueueReview, Accept, SelectPlate, WriteEvent,
           Drained, Return
  <2>3. UNCHANGED <<lists, hit, owed>> \/ Return(c)
    BY DEF Quiet, Frame, LeaveLoop, Discard, Suppress, QueueReview, Accept, SelectPlate, WriteEvent,
           Drained
  <2>4. QED
    BY <2>1, <2>2, <2>3 DEF TypeInv, TypeOK, Return
<1>4. QED
  BY <1>1, <1>2, <1>3 DEF OthersKept

(* Nor do threads on their way through the watchlists.                      *)
LEMMA AlertingLocal ==
  ASSUME TypeInv, NEW c \in Cams, Alerting(c)
  PROVE  OthersKept(c)
<1>1. UNCHANGED site
  BY DEF Alerting, LoadLists, CheckList, FireAlert, ListsDone, CommitAlerts, Notify, HandOver,
         HealthCommit
<1>2. /\ \A d \in Cams \ {c} : pending'[d] = pending[d] /\ (d \in broken' <=> d \in broken)
      /\ alerts \subseteq alerts'
  <2>1. \/ UNCHANGED <<broken, pending, alerts>>
        \/ UNCHANGED <<broken, alerts>> /\ \E S : pending' = [pending EXCEPT ![c] = S]
        \/ UNCHANGED broken /\ Commit(c, {})
        \/ StatementFails(c) /\ UNCHANGED alerts
        \/ Break(c) /\ alerts' = alerts \cup pending[c]
        \/ broken' = broken \cup {c} /\ pending' = [pending EXCEPT ![c] = {}] /\ UNCHANGED alerts
        \/ broken' = broken \ {c} /\ pending' = [pending EXCEPT ![c] = {}] /\ UNCHANGED alerts
    BY DEF Alerting, LoadLists, CheckList, FireAlert, ListsDone, CommitAlerts, Notify, HandOver,
           HealthCommit, StatementFails, Break, tables
  <2>2. QED
    BY <2>1, SessionLocal
<1>3. \A d \in Cams \ {c} :
        /\ pc'[d] = pc[d] /\ cur'[d] = cur[d] /\ lists'[d] = lists[d] /\ hit'[d] = hit[d]
        /\ owed'[d] = owed[d]
  <2>1. pc' = pc \/ (\E s : pc' = [pc EXCEPT ![c] = s])
    BY DEF Alerting, LoadLists, CheckList, FireAlert, ListsDone, CommitAlerts, Notify, HandOver,
           HealthCommit, Goto, Return
  <2>2. cur' = cur \/ (\E x : cur' = [cur EXCEPT ![c] = x])
    BY DEF Alerting, LoadLists, CheckList, FireAlert, ListsDone, CommitAlerts, Notify, HandOver,
           HealthCommit, Return
  <2>3. /\ lists' = lists \/ (\E x : lists' = [lists EXCEPT ![c] = x])
        /\ hit' = hit \/ (\E x : hit' = [hit EXCEPT ![c] = x])
        /\ owed' = owed \/ (\E x : owed' = [owed EXCEPT ![c] = x])
    BY DEF Alerting, LoadLists, CheckList, FireAlert, ListsDone, CommitAlerts, Notify, HandOver,
           HealthCommit, Return
  <2>4. QED
    BY <2>1, <2>2, <2>3 DEF TypeInv, TypeOK
<1>4. QED
  BY <1>1, <1>2, <1>3 DEF OthersKept

(* The other threads keep their part of the two invariants.                 *)
LEMMA Elsewhere ==
  ASSUME NEW c \in Cams, OthersKept(c), NEW d \in Cams, d # c
  PROVE  /\ PushingAt(d) => PushingAt(d)'
         /\ OwingAt(d) => OwingAt(d)'
<1>1. /\ \A w : Stored(d, w) => Stored(d, w)'
      /\ \A w : Flushed(d, w) => Flushed(d, w)'
      /\ Usable(d) <=> Usable(d)'
      /\ \A w : w \in Wanted(d) <=> w \in Wanted(d)'
  BY DEF OthersKept, Stored, Flushed, Usable, Wanted, Text, site
<1>2. pc'[d] = pc[d] /\ cur'[d] = cur[d] /\ lists'[d] = lists[d] /\ hit'[d] = hit[d] /\ owed'[d] = owed[d]
  BY DEF OthersKept
<1>3. PushingAt(d) => PushingAt(d)'
  BY <1>1, <1>2 DEF PushingAt
<1>4. OwingAt(d) => OwingAt(d)'
  BY <1>1, <1>2 DEF OwingAt
<1>5. QED
  BY <1>3, <1>4

(***************************************************************************)
(* What a thread does to its own part.                                     *)
(***************************************************************************)

(* A thread that gives up a read owes nothing.                              *)
LEMMA ReturnKeeps ==
  ASSUME TypeInv, NEW c \in Cams, Return(c)
  PROVE  PushingAt(c)' /\ OwingAt(c)'
<1>1. pc'[c] = "emit" /\ owed'[c] = {}
  BY DEF Return, TypeInv, TypeOK
<1>2. QED
  BY <1>1 DEF PushingAt, OwingAt

(* Before the watchlists nothing is pushed and nothing owed.                *)
LEMMA QuietKeeps ==
  ASSUME TypeInv, NEW c \in Cams, PushingAt(c), OwingAt(c), Quiet(c)
  PROVE  PushingAt(c)' /\ OwingAt(c)'
<1>1. CASE Return(c)
  BY <1>1, ReturnKeeps
<1>2. CASE ~Return(c)
  <2>1. /\ pc[c] \in {"frame", "emit", "select", "write"}
        /\ pc'[c] \in {"frame", "emit", "stopped", "select", "write", "lists"}
        /\ owed'[c] = owed[c]
    BY <1>2 DEF Quiet, Frame, LeaveLoop, Discard, Suppress, QueueReview, Accept, SelectPlate,
       WriteEvent, Drained, Goto, TypeInv, TypeOK
  <2>2. owed[c] = {}
    BY <2>1 DEF OwingAt
  <2>3. pc'[c] \in {"select", "write", "lists"} => ~cur'[c].made
    <3>1. CASE \E d \in todo[c] : Accept(c, d)
      BY <3>1 DEF Accept, TypeInv, TypeOK
    <3>2. CASE SelectPlate(c)
      <4>1. cur[c] \in Read /\ cur' = [cur EXCEPT ![c].known = plateRows[cur[c].ev.text] > 0]
        BY <1>2, <3>2 DEF SelectPlate, TypeInv, TypeOK, Control, Busy
      <4>2. cur'[c].made = cur[c].made
        BY <4>1 DEF TypeInv, TypeOK, Read
      <4>3. QED
        BY <3>2, <4>2 DEF SelectPlate, PushingAt
    <3>3. CASE WriteEvent(c)
      BY <1>2, <3>3 DEF WriteEvent, PushingAt
    <3>4. CASE pc'[c] \notin {"select", "write", "lists"}
      BY <3>4
    <3>5. CASE \/ \E f \in Frames : Frame(c, f)
               \/ \E d \in todo[c] : Discard(c, d) \/ Suppress(c, d) \/ QueueReview(c, d)
               \/ LeaveLoop(c) \/ Drained(c)
      BY <3>4, <3>5 DEF Frame, LeaveLoop, Discard, Suppress, QueueReview, Drained, Goto, TypeInv, TypeOK
    <3>6. QED
      BY <3>1, <3>2, <3>3, <3>5 DEF Quiet
  <2>4. QED
    BY <2>1, <2>2, <2>3 DEF PushingAt, OwingAt
<1>3. QED
  BY <1>1, <1>2

(* The loaded lists include every list the read is on.                      *)
LEMMA LoadKeeps ==
  ASSUME TypeInv, NEW c \in Cams, PushingAt(c), OwingAt(c), LoadLists(c)
  PROVE  PushingAt(c)' /\ OwingAt(c)'
<1>1. CASE Return(c)
  BY <1>1, ReturnKeeps
<1>2. CASE ~Return(c)
  <2>1. /\ pc'[c] = "check" /\ cur'[c] = cur[c] /\ lists'[c] = live /\ owed'[c] = Wanted(c)
        /\ UNCHANGED site
    BY <1>2 DEF LoadLists, Goto, TypeInv, TypeOK
  <2>2. ~cur'[c].made
    BY <2>1 DEF LoadLists, PushingAt
  <2>3. \A w : w \in Wanted(c) <=> w \in Wanted(c)'
    BY <2>1 DEF Wanted, Text, site
  <2>4. QED
    BY <2>1, <2>2, <2>3 DEF PushingAt, OwingAt, Wanted
<1>3. QED
  BY <1>1, <1>2

(* A list that is looked up either hits or is not owed.                     *)
LEMMA CheckKeeps ==
  ASSUME TypeInv, NEW c \in Cams, PushingAt(c), OwingAt(c), NEW w \in Lists, CheckList(c, w)
  PROVE  PushingAt(c)' /\ OwingAt(c)'
<1>1. CASE Return(c)
  BY <1>1, ReturnKeeps
<1>2. CASE ~Return(c)
  <2>1. /\ pc[c] = "check" /\ lists'[c] = lists[c] \ {w}
        /\ \/ w \in Wanted(c) /\ hit'[c] = w /\ pc'[c] = "fire"
           \/ w \notin Wanted(c) /\ pc'[c] = "check"
        /\ UNCHANGED <<cur, owed, broken, pending, alerts, site>>
    BY <1>2 DEF CheckList, Goto, TypeInv, TypeOK, tables
  <2>2. /\ \A u : (Flushed(c, u) <=> Flushed(c, u)') /\ (u \in Wanted(c) <=> u \in Wanted(c)')
        /\ Usable(c) <=> Usable(c)'
    BY <2>1 DEF Flushed, Wanted, Text, Usable, site
  <2>3. PushingAt(c)'
    BY <2>1, <2>2 DEF PushingAt
  <2>4. \A u \in owed[c] : \/ u \in lists'[c]
                           \/ pc'[c] = "fire" /\ hit'[c] = u
                           \/ cur[c].made /\ (Usable(c) => Flushed(c, u))
    BY <2>1 DEF OwingAt
  <2>5. QED
    BY <2>1, <2>2, <2>3, <2>4 DEF OwingAt
<1>3. QED
  BY <1>1, <1>2

(* An alert that is added will be in the commit.                            *)
LEMMA FireKeeps ==
  ASSUME TypeInv, NEW c \in Cams, PushingAt(c), OwingAt(c), FireAlert(c)
  PROVE  PushingAt(c)' /\ OwingAt(c)'
<1>1. CASE Return(c)
  BY <1>1, ReturnKeeps
<1>2. CASE ~Return(c)
  <2>1. cur[c] \in Read /\ hit[c] \in Lists
    BY DEF FireAlert, TypeInv, TypeOK, Control, Busy
  <2>2. /\ pc[c] = "fire" /\ pc'[c] = "check" /\ Usable(c)
        /\ pending'[c] = pending[c] \cup {<<cur[c].ev, hit[c]>>}
        /\ cur'[c] = [cur[c] EXCEPT !.made = TRUE]
        /\ UNCHANGED <<lists, owed, broken, alerts, site>>
    BY <1>2 DEF FireAlert, Goto, TypeInv, TypeOK, tables
  <2>3. cur'[c].made /\ cur'[c].ev = cur[c].ev
    BY <2>1, <2>2 DEF Read
  <2>4. PICK h \in Lists : h = hit[c]
    BY <2>1
  <2>5. /\ \A u : Flushed(c, u) => Flushed(c, u)'
        /\ Flushed(c, h)'
        /\ \A u : u \in Wanted(c) <=> u \in Wanted(c)'
    BY <2>2, <2>3, <2>4 DEF Flushed, Wanted, Text, site
  <2>6. PushingAt(c)'
    BY <2>2, <2>3, <2>5 DEF PushingAt
  <2>7. \A u \in owed[c] : u \in lists'[c] \/ Flushed(c, u)'
    BY <2>2, <2>4, <2>5 DEF OwingAt
  <2>8. QED
    BY <2>2, <2>3, <2>5, <2>6, <2>7 DEF OwingAt
<1>3. QED
  BY <1>1, <1>2

(* With the loop over, what is owed is in the session.                      *)
LEMMA ListsDoneKeeps ==
  ASSUME TypeInv, NEW c \in Cams, PushingAt(c), OwingAt(c), ListsDone(c)
  PROVE  PushingAt(c)' /\ OwingAt(c)'
<1>1. /\ pc[c] = "check" /\ lists[c] = {}
      /\ pc'[c] = IF cur[c].made THEN "commit" ELSE "hand"
      /\ UNCHANGED <<cur, owed, broken, pending, alerts, site>>
  BY DEF ListsDone, Goto, TypeInv, TypeOK, tables
<1>2. /\ \A u : /\ Flushed(c, u) <=> Flushed(c, u)'
                /\ u \in Wanted(c) <=> u \in Wanted(c)'
      /\ Usable(c) <=> Usable(c)'
  BY <1>1 DEF Flushed, Wanted, Text, Usable, site
<1>3. \A u \in owed[c] : cur[c].made /\ (Usable(c) => Flushed(c, u))
  BY <1>1 DEF OwingAt
<1>4. CASE cur[c].made
  BY <1>1, <1>2, <1>3, <1>4 DEF PushingAt, OwingAt
<1>5. CASE ~cur[c].made
  BY <1>1, <1>2, <1>3, <1>5 DEF PushingAt, OwingAt
<1>6. QED
  BY <1>4, <1>5

(* After the commit it is in the table.                                     *)
LEMMA CommitKeeps ==
  ASSUME TypeInv, NEW c \in Cams, PushingAt(c), OwingAt(c), CommitAlerts(c)
  PROVE  PushingAt(c)' /\ OwingAt(c)'
<1>1. CASE Return(c)
  BY <1>1, ReturnKeeps
<1>2. CASE ~Return(c)
  <2>1. /\ pc[c] = "commit" /\ pc'[c] = "push" /\ Usable(c)
        /\ alerts' = alerts \cup pending[c]
        /\ UNCHANGED <<cur, owed, site>>
    <3>1. pc[c] = "commit" /\ Usable(c) /\ Commit(c, {}) /\ Goto(c, "push") /\ UNCHANGED <<cur, owed, site>>
      BY <1>2 DEF CommitAlerts
    <3>2. alerts' = alerts \cup pending[c]
      BY <3>1 DEF Commit
    <3>3. QED
      BY <3>1, <3>2 DEF Goto, TypeInv, TypeOK
  <2>2. \A u : Flushed(c, u) => Stored(c, u)'
    BY <2>1 DEF Flushed, Stored
  <2>4. \A u : u \in Wanted(c) <=> u \in Wanted(c)'
    BY <2>1 DEF Wanted, Text, site
  <2>5. QED
    BY <2>1, <2>2, <2>4 DEF PushingAt, OwingAt
<1>3. QED
  BY <1>1, <1>2

(* Only then is anybody notified.                                           *)
LEMMA NotifyKeeps ==
  ASSUME TypeInv, NEW c \in Cams, PushingAt(c), OwingAt(c), Notify(c)
  PROVE  PushingAt(c)' /\ OwingAt(c)'
<1>1. /\ pc[c] = "push" /\ pc'[c] = "hand" /\ UNCHANGED <<cur, owed, alerts, site>>
  BY DEF Notify, Goto, TypeInv, TypeOK, tables
<1>2. \A u : /\ Stored(c, u) => Stored(c, u)'
             /\ u \in Wanted(c) <=> u \in Wanted(c)'
  BY <1>1 DEF Stored, Wanted, Text, site
<1>3. QED
  BY <1>1, <1>2 DEF PushingAt, OwingAt

(* The health reporter moves the alerts of the transaction to the table, or *)
(* breaks the session.                                                      *)
LEMMA HealthKeeps ==
  ASSUME TypeInv, NEW c \in Cams, PushingAt(c), OwingAt(c), HealthCommit(c)
  PROVE  PushingAt(c)' /\ OwingAt(c)'
<1>1. /\ UNCHANGED <<pc, cur, lists, hit, owed, site>>
      /\ \/ Usable(c) /\ c \in broken' /\ alerts' = alerts
         \/ broken' = broken /\ alerts' = alerts \cup pending[c]
  BY DEF HealthCommit, Commit, Break
<1>2. /\ \A u : Usable(c)' => (Usable(c) /\ (Flushed(c, u) => Flushed(c, u)'))
      /\ \A u : Stored(c, u) => Stored(c, u)'
      /\ \A u : u \in Wanted(c) <=> u \in Wanted(c)'
  BY <1>1 DEF Usable, Flushed, Stored, Wanted, Text, site
<1>3. Usable(c)' => Usable(c)
  BY <1>2
<1>4. PushingAt(c)'
  BY <1>1, <1>2, <1>3 DEF PushingAt
<1>5. OwingAt(c)'
  BY <1>1, <1>2, <1>3 DEF OwingAt
<1>6. QED
  BY <1>4, <1>5

(***************************************************************************)
(* The steps together.                                                     *)
(***************************************************************************)

(* A step of one thread keeps what all threads push and owe.                *)
LEMMA AlertsThread ==
  ASSUME TypeInv, Pushing, Owing, NEW c \in Cams, Quiet(c) \/ Alerting(c)
  PROVE  (\A d \in Cams : PushingAt(d)') /\ Owing'
<1>1. OthersKept(c)
  BY QuietLocal, AlertingLocal
<1>2. PushingAt(c) /\ OwingAt(c)
  BY DEF Pushing, Owing
<1>3. HandOver(c) => PushingAt(c)' /\ OwingAt(c)'
  BY ReturnKeeps DEF HandOver
<1>4. PushingAt(c)' /\ OwingAt(c)'
  BY <1>2, <1>3, QuietKeeps, LoadKeeps, CheckKeeps, FireKeeps, ListsDoneKeeps, CommitKeeps,
     NotifyKeeps, HealthKeeps DEF Alerting
<1>5. \A d \in Cams : PushingAt(d)' /\ OwingAt(d)'
  BY <1>1, <1>4, Elsewhere DEF Pushing, Owing
<1>6. QED
  BY <1>5 DEF Owing

(* What has been announced stays stored.                                    *)
LEMMA PushedKept ==
  ASSUME Pushing, NEW c \in Cams, Quiet(c) \/ Alerting(c), alerts \subseteq alerts'
  PROVE  PushedAlertIsStored'
<1>1. pushed' = pushed \/ (Notify(c) /\ pushed' = pushed \cup {cur[c].ev})
  BY DEF Quiet, Alerting, Frame, LeaveLoop, Discard, Suppress, QueueReview, Accept, SelectPlate,
         WriteEvent, Drained, LoadLists, CheckList, FireAlert, ListsDone, CommitAlerts, Notify,
         HandOver, HealthCommit
<1>2. Notify(c) => \E w \in Lists : <<cur[c].ev, w>> \in alerts
  BY DEF Notify, Pushing, PushingAt, Stored
<1>3. QED
  BY <1>1, <1>2 DEF Pushing, PushedAlertIsStored

(* An edit forgives the list it touches and leaves the others as they are.  *)
LEMMA AlertsEdit ==
  ASSUME TypeInv, Pushing, Owing, Editing
  PROVE  Pushing' /\ Owing'
<1>1. PICK w \in Lists : /\ EditList(w)
                         /\ \A u \in Lists \ {w} : watch'[u] = watch[u] /\ (u \in live' <=> u \in live)
  <2>1. PICK w \in Lists, t \in Texts :
          CreateList(w) \/ AddEntry(w, t) \/ RemoveEntry(w, t) \/ DeleteList(w)
    BY DEF Editing
  <2>2. EditList(w)
    BY <2>1 DEF CreateList, AddEntry, RemoveEntry, DeleteList
  <2>3. \A u \in Lists \ {w} : watch'[u] = watch[u] /\ (u \in live' <=> u \in live)
    BY <2>1 DEF CreateList, AddEntry, RemoveEntry, DeleteList, TypeInv, TypeOK
  <2>4. QED
    BY <2>2, <2>3
<1>2. /\ UNCHANGED <<pc, cur, lists, hit, broken, pending, alerts, pushed>>
      /\ \A c \in Cams : owed'[c] = owed[c] \ {w} /\ owed[c] \subseteq Lists
  BY <1>1 DEF EditList, tables, TypeInv, TypeOK
<1>3. \A c \in Cams : PushingAt(c)'
  BY <1>2 DEF Pushing, PushingAt, Flushed, Stored, Usable
<1>4. \A c \in Cams : OwingAt(c)'
  <2>. SUFFICES ASSUME NEW c \in Cams PROVE OwingAt(c)'
    OBVIOUS
  <2>1. OwingAt(c)
    BY DEF Owing
  <2>2. /\ \A u : /\ Flushed(c, u) <=> Flushed(c, u)'
                  /\ Stored(c, u) <=> Stored(c, u)'
        /\ Usable(c) <=> Usable(c)'
    BY <1>2 DEF Flushed, Stored, Usable
  <2>3. \A u \in owed'[c] : u \in Wanted(c)'
    BY <1>1, <1>2, <2>1 DEF OwingAt, Wanted, Text
  <2>4. QED
    BY <1>2, <2>1, <2>2, <2>3 DEF OwingAt
<1>5. QED
  BY <1>2, <1>3, <1>4 DEF Pushing, Owing, PushedAlertIsStored

(* Steps of the process keep it as well.                                    *)
LEMMA AlertsProcess ==
  ASSUME TypeInv, Pushing, Owing, Stop \/ Die \/ Restart \/ Tick \/ UNCHANGED vars
  PROVE  Pushing' /\ Owing'
<1>1. CASE Stop \/ Tick \/ UNCHANGED vars
  <2>1. UNCHANGED <<pc, cur, lists, hit, owed, broken, pending, alerts, pushed, live, watch>>
    BY <1>1 DEF Stop, Tick, vars, tables, site
  <2>2. \A c \in Cams : PushingAt(c)' /\ OwingAt(c)'
    BY <2>1 DEF Pushing, Owing, PushingAt, OwingAt, Flushed, Stored, Usable, Wanted, Text
  <2>3. QED
    BY <2>1, <2>2 DEF Pushing, Owing, PushedAlertIsStored
<1>2. CASE Die \/ Restart
  <2>1. /\ \A c \in Cams : pc'[c] \in {"stopped", "frame"} /\ owed'[c] = {}
        /\ UNCHANGED <<alerts, pushed>>
    <3>1. CASE Die
      BY <3>1 DEF Die, Forget, tables, TypeInv, TypeOK
    <3>2. CASE Restart
      <4>1. \A c \in Cams : pc[c] = "stopped" /\ pc'[c] = "frame" /\ owed'[c] = owed[c]
        BY <3>2 DEF Restart, Forget, TypeInv, TypeOK, Control
      <4>2. \A c \in Cams : owed[c] = {}
        BY <4>1 DEF Owing, OwingAt
      <4>3. QED
        BY <3>2, <4>1, <4>2 DEF Restart, tables
    <3>3. QED
      BY <1>2, <3>1, <3>2
  <2>2. \A c \in Cams : PushingAt(c)' /\ OwingAt(c)'
    BY <2>1 DEF PushingAt, OwingAt
  <2>3. QED
    BY <2>1, <2>2 DEF Pushing, Owing, PushedAlertIsStored
<1>3. QED
  BY <1>1, <1>2

(* Nothing is pushed or owed at first.                                      *)
LEMMA AlertsInit == Init => Pushing /\ Owing
<1>. SUFFICES ASSUME Init PROVE Pushing /\ Owing
  OBVIOUS
<1>1. \A c \in Cams : pc[c] = "frame" /\ owed[c] = {}
  BY DEF Init
<1>2. pushed = {}
  BY DEF Init
<1>3. QED
  BY <1>1, <1>2 DEF Pushing, Owing, PushingAt, OwingAt, PushedAlertIsStored

(* Every step keeps the announcements behind the rows.                      *)
LEMMA AlertsStep == TypeInv /\ Pushing /\ Owing /\ [Next]_vars => Pushing' /\ Owing'
<1>. SUFFICES ASSUME TypeInv, Pushing, Owing, [Next]_vars PROVE Pushing' /\ Owing'
  OBVIOUS
<1>1. ASSUME NEW c \in Cams, Quiet(c) \/ Alerting(c)
      PROVE  Pushing' /\ Owing'
  <2>1. alerts \subseteq alerts'
    BY <1>1, QuietLocal, AlertingLocal DEF OthersKept
  <2>2. PushedAlertIsStored'
    BY <1>1, <2>1, PushedKept
  <2>3. QED
    BY <1>1, <2>2, AlertsThread DEF Pushing
<1>2. CASE Next
  <2>1. (\E c \in Cams : Quiet(c) \/ Alerting(c)) \/ Editing \/ Stop \/ Die \/ Restart \/ Tick
    BY <1>2, Handlers DEF Quiet, Alerting
  <2>2. QED
    BY <1>1, <2>1, AlertsEdit, AlertsProcess
<1>3. QED
  BY <1>2, AlertsProcess

(* So they are behind the rows in every reachable state.                    *)
LEMMA AlertsInvariant == Spec => [](Pushing /\ Owing)
<1>1. QED
  BY TypeInvariant, AlertsInit, AlertsStep, PTL DEF Spec

(* "runs after commit so alert IDs are durable" (main.py): whoever is       *)
(* notified of an alerted event finds its alert in the database, whatever   *)
(* fails, is committed by the health reporter or crashes around the commit. *)
THEOREM PushedIsDurable == Spec => []PushedAlertIsStored
<1>1. Pushing => PushedAlertIsStored
  BY DEF Pushing
<1>2. QED
  BY <1>1, AlertsInvariant, PTL

(* No failure between the start of the watchlist check and the parking and  *)
(* gate handlers is passed over: what reaches them has an alert stored for  *)
(* every list that matched and was left alone (alert_engine.py, main.py).   *)
THEOREM MatchesAreAlerted == Spec => []MatchIsAlerted
<1>1. Owing => MatchIsAlerted
  BY DEF Owing, OwingAt, Stored, MatchIsAlerted
<1>2. QED
  BY <1>1, AlertsInvariant, PTL

(* Both directions at once: nobody is told of an alert that is not stored,  *)
(* and no match goes on without one.                                        *)
THEOREM AlertsStored == Spec => []AlertsAreStored
<1>1. PushedAlertIsStored /\ MatchIsAlerted => AlertsAreStored
  BY DEF AlertsAreStored
<1>2. QED
  BY <1>1, PushedIsDurable, MatchesAreAlerted, PTL

(***************************************************************************)
(* Tracks leave the voter through its queue.                               *)
(***************************************************************************)

Delivered(c, t) ==
  (track[c][t] # None /\ track[c][t].n >= MinReads /\ track'[c][t] = None /\ proc' # "down")
    => \E d \in todo'[c] : d.text = t /\ d.first = track[c][t].first /\ d.n >= track[c][t].n

(* A track that a frame ends is handed on.                                  *)
LEMMA DeliveredFrame ==
  ASSUME TypeInv, NEW c \in Cams, NEW f \in Frames, Frame(c, f), NEW t \in Texts
  PROVE  Delivered(c, t)
<1>. DEFINE read == WithReads(track[c], seen[c], f)
            gone == Gone(read, f)
<1>. SUFFICES ASSUME track[c][t] # None, track[c][t].n >= MinReads, track'[c][t] = None
              PROVE  \E d \in todo'[c] : d.text = t /\ d.first = track[c][t].first /\ d.n >= track[c][t].n
  BY DEF Delivered
<1>1. track[c][t] \in Track
  BY DEF TypeInv, TypeOK
<1>2. read[t] # None /\ read[t].first = track[c][t].first /\ read[t].n >= track[c][t].n
  <2>1. read[t] = track[c][t] \/ read[t] = [track[c][t] EXCEPT !.n = @ + 1, !.sum = @ + f[t], !.last = now]
    BY DEF WithReads, Added
  <2>2. read[t] = track[c][t] \/ (read[t].first = track[c][t].first /\ read[t].n = track[c][t].n + 1)
    BY <1>1, <2>1 DEF Track
  <2>3. track[c][t].n \in Int
    BY <1>1 DEF Track
  <2>4. read[t] # None
    <3>1. CASE f[t] = None
      BY <3>1 DEF WithReads
    <3>2. CASE f[t] # None
      <4>1. /\ seen[c][t] \in 0 .. MaxSeen /\ now \in Time /\ seen[c][t] < MaxSeen
            /\ f[t] \in Confs /\ track[c][t].first + track[c][t].n = seen[c][t] + 1
        BY <3>2 DEF Frame, Frames, TypeInv, TypeOK, TracksAreFresh
      <4>2. read[t] = Added(track[c][t], seen[c][t] + 1, f[t])
        BY <3>2 DEF WithReads
      <4>3. read[t] \in Track
        BY <1>1, <4>1, <4>2, AddedType
      <4>4. QED
        BY <4>3, PipelineAssumption
    <3>3. QED
      BY <3>1, <3>2
  <2>5. QED
    BY <2>2, <2>3, <2>4
<1>3. /\ track'[c] = Remaining(read, gone)
      /\ todo'[c] = Emitted(read, gone)
  BY DEF Frame, TypeInv, TypeOK
<1>4. t \in gone
  BY <1>2, <1>3 DEF Remaining
<1>5. read[t].n >= MinReads
  <2>1. read[t].n \in Int
    BY <1>1 DEF WithReads, Added, Track
  <2>2. QED
    BY <1>1, <1>2, <2>1, PipelineAssumption DEF Track
<1>6. [text |-> t, first |-> read[t].first, n |-> read[t].n, sum |-> read[t].sum] \in todo'[c]
  BY <1>3, <1>4, <1>5 DEF Emitted
<1>7. QED
  BY <1>2, <1>6

(* So is every track at the end of the loop.                                *)
LEMMA DeliveredLeave ==
  ASSUME TypeInv, NEW c \in Cams, LeaveLoop(c), NEW t \in Texts
  PROVE  Delivered(c, t)
<1>. DEFINE open == {u \in Texts : track[c][u] # None}
<1>. SUFFICES ASSUME track[c][t] # None, track[c][t].n >= MinReads
              PROVE  \E d \in todo'[c] : d.text = t /\ d.first = track[c][t].first /\ d.n >= track[c][t].n
  BY DEF Delivered
<1>1. todo'[c] = Emitted(track[c], open)
  BY DEF LeaveLoop, TypeInv, TypeOK
<1>2. track[c][t].n \in Int
  BY DEF TypeInv, TypeOK, Track
<1>3. [text |-> t, first |-> track[c][t].first, n |-> track[c][t].n, sum |-> track[c][t].sum] \in todo'[c]
  BY <1>1 DEF Emitted
<1>4. QED
  BY <1>2, <1>3

(* Whenever a track disappears while the process lives, by expiry or by the *)
(* flush at shutdown, its reads are handed on (voter.py _expire and flush). *)
THEOREM NoPassIsLost == Spec => NoPassLostOnStop
<1>1. TypeInv /\ [Next]_vars => [\A c \in Cams, t \in Texts : Delivered(c, t)]_vars
  <2>. SUFFICES ASSUME TypeInv, Next, NEW c \in Cams, NEW t \in Texts PROVE Delivered(c, t)
    OBVIOUS
  <2>1. CASE \E f \in Frames : Frame(c, f)
    BY <2>1, DeliveredFrame
  <2>2. CASE LeaveLoop(c)
    BY <2>2, DeliveredLeave
  <2>3. CASE track'[c][t] = track[c][t] \/ proc' = "down"
    BY <2>3 DEF Delivered
  <2>4. \/ track' = track \/ proc' = "down"
        \/ \E b \in Cams : (\E f \in Frames : Frame(b, f)) \/ LeaveLoop(b)
    <3>1. ASSUME NEW b \in Cams,
                 \/ \E d \in todo[b] : Discard(b, d) \/ Suppress(b, d) \/ QueueReview(b, d) \/ Accept(b, d)
                 \/ SelectPlate(b) \/ WriteEvent(b) \/ LoadLists(b)
                 \/ (\E w \in Lists : CheckList(b, w))
                 \/ FireAlert(b) \/ ListsDone(b) \/ CommitAlerts(b) \/ Notify(b)
                 \/ HandOver(b) \/ Drained(b) \/ HealthCommit(b)
          PROVE  track' = track
      BY <3>1 DEF Discard, Suppress, QueueReview, Accept, SelectPlate, WriteEvent, LoadLists, CheckList,
         FireAlert, ListsDone, CommitAlerts, Notify, HandOver, Drained, HealthCommit, voter
    <3>2. Editing \/ Stop \/ Die \/ Restart \/ Tick => track' = track \/ proc' = "down"
      BY DEF Editing, CreateList, AddEntry, RemoveEntry, DeleteList, EditList, Stop, Die, Restart,
         Tick, voter
    <3>3. QED
      BY <3>1, <3>2, Handlers
  <2>5. ASSUME NEW b \in Cams, b # c, (\E f \in Frames : Frame(b, f)) \/ LeaveLoop(b)
        PROVE  track'[c][t] = track[c][t]
    BY <2>5 DEF Frame, LeaveLoop, TypeInv, TypeOK
  <2>6. QED
    BY <2>1, <2>2, <2>3, <2>4, <2>5
<1>2. QED
  BY <1>1, TypeInvariant, PTL DEF Spec, NoPassLostOnStop, Delivered
=============================================================================
