--------------------------- MODULE CameraPipeline ---------------------------
(***************************************************************************)
(* The camera threads of the pipeline process (main.py).                   *)
(*                                                                         *)
(* Per camera one thread samples frames, lets the voter gather the reads   *)
(* of a plate until the plate is gone, and takes the consensus through     *)
(* confidence bands, deduplication, the event write, the watchlist check   *)
(* and the parking and gate handlers.  Everything between two frames is    *)
(* one call stack over one SQLAlchemy session, which the camera's health   *)
(* reporter commits from a thread of its own.  An exception drops the read *)
(* and nobody rolls the session back.                                      *)
(***************************************************************************)
EXTENDS Integers, FiniteSets

CONSTANTS
  Cams,       \* cameras, one thread each
  Texts,      \* what OCR returns, normalised: upper case, no separators
  Lists,      \* watchlists of the site
  Vehicle(_), \* the vehicle a text was read from
  None,
  Confs,      \* OCR confidences in tenths
  Floor,      \* pipeline_min_confidence
  Threshold,  \* pipeline_ocr_confidence_threshold
  ExitGap,    \* pipeline_voter_exit_gap_s in clock units
  MinReads,   \* pipeline_voter_min_reads
  Window,     \* pipeline_dedup_seconds
  Uptime,     \* age of the monotonic clock when the pipeline starts
  MaxTime,    \* bound on the clock
  MaxSeen,    \* bound on the reads of one text at one camera
  MaxFails,   \* bound on failures of PostgreSQL and Redis calls
  MaxBoots,   \* bound on restarts
  Edits       \* whether the watchlists are edited

Time == 0 .. MaxTime

VARIABLES
  now,       \* the clock
  proc,      \* the process: running, asked to stop, or gone
  boot,      \* number of the current process
  fails,     \* failures so far
  seen,      \* reads so far per camera and text (history)
  track,     \* the voter's tracks
  lastSeen,  \* the deduplicator's memory
  pc,        \* where each thread is
  leaving,   \* threads that left the frame loop
  todo,      \* consensus reads the voter has emitted and not yet delivered
  cur,       \* the read in the works
  lists,     \* watchlists the check has still to look at
  hit,       \* the watchlist it has found a match in
  broken,    \* the session needs a rollback that nobody issues
  pending,   \* alert rows flushed and not committed
  owed,      \* lists that matched when the check began and were not edited since (history)
  events,    \* the events table
  alerts,    \* the alerts table
  reviews,   \* the review_queue table
  plateRows, \* number of rows of the plates table per text
  live,      \* the watchlists that exist
  watch,     \* the texts the entries of a watchlist match
  pushed     \* alerted events whose push and webhooks were sent

clocks == <<now, proc, boot, fails>>
voter == <<seen, track>>
tables == <<events, alerts, reviews, plateRows>>
site == <<live, watch>>
vars == <<clocks, voter, lastSeen, pc, leaving, todo, cur, lists, hit, broken, pending,
          owed, tables, site, pushed>>

(* first .. first + n - 1 are the reads of a track, numbered per camera and *)
(* text; sum is the sum of their confidences.                               *)
Track == [first: 1 .. MaxSeen, n: 1 .. MaxSeen, sum: Nat, last: Time]
Consensus == [text: Texts, first: 1 .. MaxSeen, n: 1 .. MaxSeen, sum: Nat]
Event == [cam: Cams, text: Texts, first: 1 .. MaxSeen, n: 1 .. MaxSeen, ts: Time, boot: 0 .. MaxBoots]
(* The read in the works: its event, whether its plate row was there, and   *)
(* whether an alert was made for it.                                        *)
Read == [ev: Event, known: BOOLEAN, made: BOOLEAN]
Review == [cam: Cams, text: Texts, first: 1 .. MaxSeen, n: 1 .. MaxSeen]
Stages == {"frame", "emit", "select", "write", "lists", "check", "fire", "commit",
           "push", "hand", "stopped"}

ASSUME PipelineAssumption ==
  /\ Confs \subseteq Nat /\ Floor \in Nat /\ Threshold \in Nat
  /\ ExitGap \in Nat \ {0} /\ MinReads \in Nat \ {0} /\ Window \in Nat
  /\ MaxTime \in Nat /\ Uptime \in Time
  /\ MaxSeen \in Nat /\ MaxFails \in Nat /\ MaxBoots \in Nat
  /\ Edits \in BOOLEAN
  /\ None \notin Track \cup Read \cup Lists

TypeOK ==
  /\ now \in Time /\ proc \in {"up", "stopping", "down"}
  /\ boot \in 0 .. MaxBoots /\ fails \in 0 .. MaxFails
  /\ seen \in [Cams -> [Texts -> 0 .. MaxSeen]]
  /\ track \in [Cams -> [Texts -> Track \cup {None}]]
  /\ lastSeen \in [Cams -> [Texts -> Time]]
  /\ pc \in [Cams -> Stages] /\ leaving \subseteq Cams
  /\ todo \in [Cams -> SUBSET Consensus]
  /\ cur \in [Cams -> Read \cup {None}]
  /\ lists \in [Cams -> SUBSET Lists] /\ hit \in [Cams -> Lists \cup {None}]
  /\ broken \subseteq Cams
  /\ pending \in [Cams -> SUBSET (Event \X Lists)]
  /\ owed \in [Cams -> SUBSET Lists]
  /\ events \subseteq Event /\ alerts \subseteq Event \X Lists /\ reviews \subseteq Review
  /\ plateRows \in [Texts -> Nat]
  /\ live \subseteq Lists /\ watch \in [Lists -> SUBSET Texts]
  /\ pushed \subseteq Event

Forget(f, x) == [c \in DOMAIN f |-> x]

NoTracks == [t \in Texts |-> None]

Init ==
  /\ now = Uptime /\ proc = "up" /\ boot = 0 /\ fails = 0
  /\ seen = [c \in Cams |-> [t \in Texts |-> 0]]
  /\ track = [c \in Cams |-> NoTracks]
  /\ lastSeen = [c \in Cams |-> [t \in Texts |-> 0]]
  /\ pc = [c \in Cams |-> "frame"] /\ leaving = {}
  /\ todo = [c \in Cams |-> {}] /\ cur = [c \in Cams |-> None]
  /\ lists = [c \in Cams |-> {}] /\ hit = [c \in Cams |-> None]
  /\ broken = {} /\ pending = [c \in Cams |-> {}] /\ owed = [c \in Cams |-> {}]
  /\ events = {} /\ alerts = {} /\ reviews = {}
  /\ plateRows = [t \in Texts |-> 0]
  /\ live \in SUBSET Lists
  /\ watch \in {f \in [Lists -> SUBSET Texts] : \A w \in Lists \ live : f[w] = {}}
  /\ pushed = {}

(***************************************************************************)
(* The voter                                                               *)
(***************************************************************************)

(* A track with the read number k of confidence f added.                    *)
Added(tr, k, f) ==
  IF tr = None THEN [first |-> k, n |-> 1, sum |-> f, last |-> now]
  ELSE [tr EXCEPT !.n = @ + 1, !.sum = @ + f, !.last = now]

(* Tracks with the detections of a frame: a confidence, or None, per text.  *)
WithReads(tracks, numbers, frame) ==
  [t \in Texts |-> IF frame[t] = None THEN tracks[t]
                   ELSE Added(tracks[t], numbers[t] + 1, frame[t])]

(* Definitions whose name starts with Bug are variants of the definition    *)
(* that follows them with one plausible mistake; no specification uses them. *)

BugGone(tracks, frame) ==
  {t \in Texts : /\ tracks[t] # None /\ now - tracks[t].last >= ExitGap
                 /\ \E u \in Texts : frame[u] # None}

(* _expire: the tracks not read for ExitGap, found at every frame, be it    *)
(* empty.                                                                   *)
Gone(tracks, frame) == {t \in Texts : tracks[t] # None /\ now - tracks[t].last >= ExitGap}

BugRemaining(tracks, T) == tracks

Remaining(tracks, T) == [t \in Texts |-> IF t \in T THEN None ELSE tracks[t]]

(* The consensus of every track of T that was read often enough.  All reads *)
(* of a track have its text, so the vote is between equals: what remains of *)
(* it is the number of reads and their mean confidence.                     *)
Emitted(tracks, T) ==
  {[text |-> t, first |-> tracks[t].first, n |-> tracks[t].n, sum |-> tracks[t].sum] :
     t \in {u \in T : tracks[u].n >= MinReads}}

(* voter.update: the frame's detections, then the tracks that have expired. *)
(* Bounds: MaxSeen, and a track has the time to expire.                     *)
Frame(c, frame) ==
  LET read == WithReads(track[c], seen[c], frame)
      gone == Gone(read, frame)
      out == Emitted(read, gone) IN
  /\ proc = "up" /\ pc[c] = "frame"
  /\ \A t \in Texts : frame[t] # None => seen[c][t] < MaxSeen /\ now + ExitGap <= MaxTime
  /\ seen' = [seen EXCEPT ![c] = [t \in Texts |-> IF frame[t] = None THEN @[t] ELSE @[t] + 1]]
  /\ track' = [track EXCEPT ![c] = Remaining(read, gone)]
  /\ todo' = [todo EXCEPT ![c] = out]
  /\ pc' = [pc EXCEPT ![c] = IF out = {} THEN "frame" ELSE "emit"]
  /\ UNCHANGED <<clocks, lastSeen, leaving, cur, lists, hit, broken, pending, owed, tables,
                 site, pushed>>

(***************************************************************************)
(* The session.  A commit makes every flushed row durable, whoever flushed *)
(* it; a failed call leaves the session in need of a rollback.             *)
(***************************************************************************)

Usable(c) == c \notin broken

Commit(c, more) ==
  /\ alerts' = alerts \cup pending[c] \cup more
  /\ pending' = [pending EXCEPT ![c] = {}]

(* one failure of a call to PostgreSQL                                      *)
Break(c) ==
  /\ fails < MaxFails
  /\ fails' = fails + 1
  /\ broken' = broken \cup {c}
  /\ pending' = [pending EXCEPT ![c] = {}]

(* A statement that raises: the session is broken, or was before.           *)
StatementFails(c) ==
  \/ ~Usable(c) /\ UNCHANGED <<fails, broken, pending>>
  \/ Usable(c) /\ Break(c)

(* Where on_consensus returns to, having raised or finished.                *)
Return(c) ==
  /\ pc' = [pc EXCEPT ![c] = "emit"]
  /\ cur' = [cur EXCEPT ![c] = None]
  /\ lists' = [lists EXCEPT ![c] = {}]
  /\ hit' = [hit EXCEPT ![c] = None]
  /\ owed' = [owed EXCEPT ![c] = {}]

Goto(c, s) == pc' = [pc EXCEPT ![c] = s]

(***************************************************************************)
(* on_consensus                                                            *)
(***************************************************************************)

Take(c, d) == todo' = [todo EXCEPT ![c] = @ \ {d}]

(* Below the floor: dropped.                                                *)
Discard(c, d) ==
  /\ pc[c] = "emit" /\ d \in todo[c] /\ d.sum < Floor * d.n
  /\ Take(c, d)
  /\ UNCHANGED <<clocks, voter, lastSeen, pc, leaving, cur, lists, hit, broken, pending, owed,
                 tables, site, pushed>>

(* Between floor and threshold: a review item, committed; failures are      *)
(* swallowed.                                                               *)
QueueReview(c, d) ==
  /\ pc[c] = "emit" /\ d \in todo[c] /\ Floor * d.n <= d.sum /\ d.sum < Threshold * d.n
  /\ Take(c, d)
  /\ \/ /\ Usable(c) /\ Commit(c, {})
        /\ reviews' = reviews \cup {[cam |-> c, text |-> d.text, first |-> d.first, n |-> d.n]}
        /\ UNCHANGED <<fails, broken>>
     \/ StatementFails(c) /\ UNCHANGED <<alerts, reviews>>
  /\ UNCHANGED <<now, proc, boot, voter, lastSeen, pc, leaving, cur, lists, hit, owed, events,
                 plateRows, site, pushed>>

BugIsNew(c, t) == now - lastSeen[c][t] >= Window - 1

IsNew(c, t) == now - lastSeen[c][t] >= Window

(* is_new refuses a repeated plate                                          *)
Suppress(c, d) ==
  /\ pc[c] = "emit" /\ d \in todo[c] /\ d.sum >= Threshold * d.n
  /\ ~IsNew(c, d.text)
  /\ Take(c, d)
  /\ UNCHANGED <<clocks, voter, lastSeen, pc, leaving, cur, lists, hit, broken, pending, owed,
                 tables, site, pushed>>

EventOf(c, d) ==
  [cam |-> c, text |-> d.text, first |-> d.first, n |-> d.n, ts |-> now, boot |-> boot]

BugAccept(c, d) ==
  /\ pc[c] = "emit" /\ d \in todo[c] /\ d.sum >= Threshold * d.n
  /\ IsNew(c, d.text)
  /\ Take(c, d)
  /\ lastSeen' = [lastSeen EXCEPT ![c][d.text] = now + Window]
  /\ cur' = [cur EXCEPT ![c] = [ev |-> EventOf(c, d), known |-> FALSE, made |-> FALSE]]
  /\ Goto(c, "select")
  /\ UNCHANGED <<clocks, voter, leaving, lists, hit, broken, pending, owed, tables, site, pushed>>

(* is_new marks the plate, before anything is written for it.               *)
Accept(c, d) ==
  /\ pc[c] = "emit" /\ d \in todo[c] /\ d.sum >= Threshold * d.n
  /\ IsNew(c, d.text)
  /\ Take(c, d)
  /\ lastSeen' = [lastSeen EXCEPT ![c][d.text] = now]
  /\ cur' = [cur EXCEPT ![c] = [ev |-> EventOf(c, d), known |-> FALSE, made |-> FALSE]]
  /\ Goto(c, "select")
  /\ UNCHANGED <<clocks, voter, leaving, lists, hit, broken, pending, owed, tables, site, pushed>>

(* write_plate_event looks the plate up ...                                 *)
SelectPlate(c) ==
  /\ pc[c] = "select"
  /\ \/ /\ Usable(c)
        /\ cur' = [cur EXCEPT ![c].known = plateRows[cur[c].ev.text] > 0]
        /\ Goto(c, "write")
        /\ UNCHANGED <<fails, broken, pending, lists, hit, owed>>
     \/ StatementFails(c) /\ Return(c)
  /\ UNCHANGED <<now, proc, boot, voter, lastSeen, leaving, todo, tables, site, pushed>>

(* ... and inserts it if it saw none, uploads the snapshot and commits the  *)
(* plate with the event.  The commit may succeed and its answer be lost.    *)
WriteEvent(c) ==
  LET ev == cur[c].ev
      Stored == /\ events' = events \cup {ev}
                /\ plateRows' = [plateRows EXCEPT ![ev.text] = IF cur[c].known THEN @ ELSE @ + 1] IN
  /\ pc[c] = "write"
  /\ \/ /\ Usable(c) /\ Stored /\ Commit(c, {}) /\ Goto(c, "lists")
        /\ UNCHANGED <<fails, broken, cur, lists, hit, owed>>
     \/ /\ Usable(c) /\ Stored /\ alerts' = alerts \cup pending[c] /\ Break(c) /\ Return(c)
     \/ /\ StatementFails(c) /\ Return(c)
        /\ UNCHANGED <<events, plateRows, alerts>>
  /\ UNCHANGED <<now, proc, boot, voter, lastSeen, leaving, todo, reviews, site, pushed>>

(***************************************************************************)
(* check_and_fire                                                          *)
(***************************************************************************)

Text(c) == cur[c].ev.text
Wanted(c) == {w \in live : Text(c) \in watch[w]}

(* The site's watchlists are loaded.                                        *)
LoadLists(c) ==
  /\ pc[c] = "lists"
  /\ \/ /\ Usable(c)
        /\ lists' = [lists EXCEPT ![c] = live]
        /\ owed' = [owed EXCEPT ![c] = Wanted(c)]
        /\ Goto(c, "check")
        /\ UNCHANGED <<fails, broken, pending, cur, hit>>
     \/ StatementFails(c) /\ Return(c)
  /\ UNCHANGED <<now, proc, boot, voter, lastSeen, leaving, todo, tables, site, pushed>>

(* The entries of the next list are loaded and compared with the plate; a   *)
(* list deleted since has none.  Several entries that match make as many    *)
(* alike alerts, here one.                                                  *)
CheckList(c, w) ==
  /\ pc[c] = "check" /\ w \in lists[c]
  /\ \/ /\ Usable(c)
        /\ lists' = [lists EXCEPT ![c] = @ \ {w}]
        /\ IF w \in Wanted(c)
             THEN hit' = [hit EXCEPT ![c] = w] /\ Goto(c, "fire")
             ELSE UNCHANGED <<hit, pc>>
        /\ UNCHANGED <<fails, broken, pending, cur, owed>>
     \/ StatementFails(c) /\ Return(c)
  /\ UNCHANGED <<now, proc, boot, voter, lastSeen, leaving, todo, tables, site, pushed>>

(* The alert is flushed, then announced on Redis, before its commit.  A     *)
(* list deleted since it was matched fails the foreign key; a failed        *)
(* announcement raises and leaves the flushed row to the next commit.       *)
FireAlert(c) ==
  /\ pc[c] = "fire"
  /\ \/ /\ Usable(c) /\ hit[c] \in live
        /\ pending' = [pending EXCEPT ![c] = @ \cup {<<cur[c].ev, hit[c]>>}]
        /\ \/ /\ hit' = [hit EXCEPT ![c] = None] /\ Goto(c, "check")
              /\ cur' = [cur EXCEPT ![c].made = TRUE]
              /\ UNCHANGED <<fails, lists, owed>>
           \/ /\ fails < MaxFails /\ fails' = fails + 1 /\ Return(c)
        /\ UNCHANGED broken
     \/ /\ \/ StatementFails(c)
           \/ /\ Usable(c) /\ hit[c] \notin live
              /\ broken' = broken \cup {c} /\ pending' = [pending EXCEPT ![c] = {}]
              /\ UNCHANGED fails
        /\ Return(c)
  /\ UNCHANGED <<now, proc, boot, voter, lastSeen, leaving, todo, tables, site, pushed>>

BugListsDone(c) ==
  /\ pc[c] = "check" /\ lists[c] = {}
  /\ Goto(c, IF cur[c].made THEN "push" ELSE "hand")
  /\ UNCHANGED <<clocks, voter, lastSeen, leaving, todo, cur, lists, hit, broken, pending, owed,
                 tables, site, pushed>>

(* Every list was checked: commit if an alert was made.                     *)
ListsDone(c) ==
  /\ pc[c] = "check" /\ lists[c] = {}
  /\ Goto(c, IF cur[c].made THEN "commit" ELSE "hand")
  /\ UNCHANGED <<clocks, voter, lastSeen, leaving, todo, cur, lists, hit, broken, pending, owed,
                 tables, site, pushed>>

CommitAlerts(c) ==
  /\ pc[c] = "commit"
  /\ \/ /\ Usable(c) /\ Commit(c, {}) /\ Goto(c, "push")
        /\ UNCHANGED <<fails, broken, cur, lists, hit, owed>>
     \/ /\ Usable(c) /\ alerts' = alerts \cup pending[c] /\ Break(c) /\ Return(c)
     \/ /\ StatementFails(c) /\ Return(c) /\ UNCHANGED alerts
  /\ UNCHANGED <<now, proc, boot, voter, lastSeen, leaving, todo, events, reviews, plateRows,
                 site, pushed>>

(* Push notifications and webhooks: best effort, their failures swallowed.  *)
(* The select of the webhooks may break the session, unnoticed until later; *)
(* a session the reporter breaks during the posts is mended by the rollback *)
(* of the next record (webhook_fire.py:105).                                *)
Notify(c) ==
  /\ pc[c] = "push"
  /\ pushed' = pushed \cup {cur[c].ev}
  /\ Goto(c, "hand")
  /\ \/ UNCHANGED <<fails, broken, pending>>
     \/ Usable(c) /\ Break(c)
     \/ broken' = broken \ {c} /\ pending' = [pending EXCEPT ![c] = {}] /\ UNCHANGED fails
  /\ UNCHANGED <<now, proc, boot, voter, lastSeen, leaving, todo, cur, lists, hit, owed, tables,
                 site>>

(***************************************************************************)
(* Parking and gate handlers (ParkingSession, GateControl): for this module *)
(* calls that may commit, and that may break the session.                   *)
(***************************************************************************)

HandOver(c) ==
  /\ pc[c] = "hand"
  /\ \/ /\ Usable(c) /\ UNCHANGED <<fails, broken>>
        /\ Commit(c, {}) \/ UNCHANGED <<alerts, pending>>
     \/ StatementFails(c) /\ UNCHANGED alerts
  /\ Return(c)
  /\ UNCHANGED <<now, proc, boot, voter, lastSeen, leaving, todo, events, reviews, plateRows,
                 site, pushed>>

(* The voter's loop over the emitted reads is through; a thread that left   *)
(* the frame loop closes its session, which rolls back what it holds.       *)
Drained(c) ==
  /\ pc[c] = "emit" /\ todo[c] = {}
  /\ IF c \in leaving
       THEN /\ Goto(c, "stopped")
            /\ pending' = [pending EXCEPT ![c] = {}]
       ELSE Goto(c, "frame") /\ UNCHANGED pending
  /\ UNCHANGED <<clocks, voter, lastSeen, leaving, todo, cur, lists, hit, broken, owed, tables,
                 site, pushed>>

(***************************************************************************)
(* The health reporter shares the session: when it sees the camera's status *)
(* change it commits, whatever the camera thread has flushed.               *)
(***************************************************************************)

HealthCommit(c) ==
  /\ proc # "down" /\ Usable(c) /\ pc[c] # "stopped"
  /\ \/ pending[c] # {} /\ Commit(c, {}) /\ UNCHANGED <<fails, broken>>
     \/ Break(c) /\ UNCHANGED alerts
  /\ UNCHANGED <<now, proc, boot, voter, lastSeen, pc, leaving, todo, cur, lists, hit, owed,
                 events, reviews, plateRows, site, pushed>>

(***************************************************************************)
(* The process                                                             *)
(***************************************************************************)

(* SIGTERM                                                                  *)
Stop ==
  /\ proc = "up" /\ proc' = "stopping"
  /\ UNCHANGED <<now, boot, fails, voter, lastSeen, pc, leaving, todo, cur, lists, hit, broken,
                 pending, owed, tables, site, pushed>>

BugLeaveLoop(c) ==
  /\ proc # "down" /\ pc[c] = "frame"
  /\ leaving' = leaving \cup {c}
  /\ track' = [track EXCEPT ![c] = NoTracks]
  /\ Goto(c, "emit")
  /\ \/ Usable(c) /\ Commit(c, {}) /\ UNCHANGED <<fails, broken>>
     \/ StatementFails(c) /\ UNCHANGED alerts
  /\ UNCHANGED <<now, proc, boot, seen, lastSeen, todo, cur, lists, hit, owed, events, reviews,
                 plateRows, site, pushed>>

(* A thread leaves its loop when it notices the shutdown at the next frame, *)
(* or when its stream or the recogniser raises: mark_offline commits, flush *)
(* emits every track.  Nothing starts the thread again but a restart.       *)
LeaveLoop(c) ==
  /\ proc # "down" /\ pc[c] = "frame"
  /\ leaving' = leaving \cup {c}
  /\ todo' = [todo EXCEPT ![c] = Emitted(track[c], {t \in Texts : track[c][t] # None})]
  /\ track' = [track EXCEPT ![c] = NoTracks]
  /\ Goto(c, "emit")
  /\ \/ Usable(c) /\ Commit(c, {}) /\ UNCHANGED <<fails, broken>>
     \/ StatementFails(c) /\ UNCHANGED alerts
  /\ UNCHANGED <<now, proc, boot, seen, lastSeen, cur, lists, hit, owed, events, reviews,
                 plateRows, site, pushed>>

(* The process is gone: it crashed, its threads have stopped, or main waited *)
(* ten seconds for them and returned.  What was not committed is gone.      *)
Die ==
  /\ proc # "down" /\ boot < MaxBoots
  /\ proc' = "down"
  /\ track' = Forget(track, NoTracks) /\ lastSeen' = [c \in Cams |-> [t \in Texts |-> 0]]
  /\ pc' = Forget(pc, "stopped") /\ leaving' = {}
  /\ todo' = Forget(todo, {}) /\ cur' = Forget(cur, None)
  /\ lists' = Forget(lists, {}) /\ hit' = Forget(hit, None)
  /\ broken' = {} /\ pending' = Forget(pending, {}) /\ owed' = Forget(owed, {})
  /\ UNCHANGED <<now, boot, fails, seen, tables, site, pushed>>

Restart ==
  /\ proc = "down"
  /\ proc' = "up" /\ boot' = boot + 1
  /\ pc' = Forget(pc, "frame")
  /\ UNCHANGED <<now, fails, voter, lastSeen, leaving, todo, cur, lists, hit, broken, pending,
                 owed, tables, site, pushed>>

(***************************************************************************)
(* Watchlists are edited through the API: a list is created, an entry       *)
(* added or removed, an empty list deleted (with entries the delete fails). *)
(***************************************************************************)

EditList(w) ==
  /\ Edits
  /\ owed' = [c \in Cams |-> owed[c] \ {w}]
  /\ UNCHANGED <<clocks, voter, lastSeen, pc, leaving, todo, cur, lists, hit, broken, pending,
                 tables, pushed>>

CreateList(w) ==
  w \notin live /\ live' = live \cup {w} /\ UNCHANGED watch /\ EditList(w)

AddEntry(w, t) ==
  w \in live /\ watch' = [watch EXCEPT ![w] = @ \cup {t}] /\ UNCHANGED live /\ EditList(w)

RemoveEntry(w, t) ==
  t \in watch[w] /\ watch' = [watch EXCEPT ![w] = @ \ {t}] /\ UNCHANGED live /\ EditList(w)

DeleteList(w) ==
  w \in live /\ watch[w] = {} /\ live' = live \ {w} /\ UNCHANGED watch /\ EditList(w)

Tick ==
  /\ now < MaxTime
  /\ now' = now + 1
  /\ UNCHANGED <<proc, boot, fails, voter, lastSeen, pc, leaving, todo, cur, lists, hit, broken,
                 pending, owed, tables, site, pushed>>

Frames == [Texts -> Confs \cup {None}]

(* What a thread that is at its loop does with the next frame.  That the    *)
(* stream or the recogniser raises is not for fairness to bring about.      *)
NewFrame(c) == (\E f \in Frames : Frame(c, f)) \/ (proc = "stopping" /\ LeaveLoop(c))

ThreadStep(c) ==
  \/ \E d \in todo[c] : Discard(c, d) \/ QueueReview(c, d) \/ Suppress(c, d) \/ Accept(c, d)
  \/ SelectPlate(c)
  \/ WriteEvent(c)
  \/ LoadLists(c)
  \/ \E w \in Lists : CheckList(c, w)
  \/ FireAlert(c)
  \/ ListsDone(c)
  \/ CommitAlerts(c)
  \/ Notify(c)
  \/ HandOver(c)
  \/ Drained(c)

Next ==
  \/ \E c \in Cams : NewFrame(c) \/ LeaveLoop(c) \/ ThreadStep(c) \/ HealthCommit(c)
  \/ \E w \in Lists, t \in Texts :
       CreateList(w) \/ AddEntry(w, t) \/ RemoveEntry(w, t) \/ DeleteList(w)
  \/ Stop
  \/ Die
  \/ Restart
  \/ Tick

Spec == Init /\ [][Next]_vars

(* Frames keep arriving, a thread goes on with its call stack, time passes. *)
FairSpec ==
  /\ Spec
  /\ \A c \in Cams : WF_vars(NewFrame(c)) /\ WF_vars(ThreadStep(c))
  /\ WF_vars(Tick)

(***************************************************************************)
(* Properties                                                              *)
(***************************************************************************)

(* Two intervals of read numbers have no read in common.                    *)
Apart(x, y) == x.first + x.n <= y.first \/ y.first + y.n <= x.first

(* Every event and review item rests on at least MinReads reads, and no     *)
(* read is counted for two of them: through expiry, the flush at shutdown,  *)
(* failures and restarts (voter.py: the expired track is popped before its  *)
(* consensus is delivered).                                                 *)
NoReadCountsTwice ==
  /\ \A x \in events \cup reviews : x.n >= MinReads
  /\ \A x, y \in events : (x.cam = y.cam /\ x.text = y.text /\ x # y) => Apart(x, y)
  /\ \A x, y \in reviews : (x.cam = y.cam /\ x.text = y.text /\ x # y) => Apart(x, y)
  /\ \A x \in events, y \in reviews : (x.cam = y.cam /\ x.text = y.text) => Apart(x, y)

(* One process writes at most one event of a plate per camera and window.   *)
EventsAreSpaced ==
  \A e, f \in events :
    (e.cam = f.cam /\ e.text = f.text /\ e.boot = f.boot /\ e # f)
      => (e.ts - f.ts >= Window \/ f.ts - e.ts >= Window)

(* "runs after commit so alert IDs are durable": who is notified of an      *)
(* alerted event finds an alert for it in the database, whatever fails or   *)
(* crashes around the commit.                                               *)
PushedAlertIsStored == \A e \in pushed : \E w \in Lists : <<e, w>> \in alerts

(* A read reaches the parking and gate handlers only with an alert stored   *)
(* for every watchlist that matched when the check began and was left       *)
(* alone: no failure in between is passed over.                             *)
MatchIsAlerted ==
  \A c \in Cams : pc[c] = "hand" => \A w \in owed[c] : <<cur[c].ev, w>> \in alerts

(* Whoever is notified finds the alert, and whatever matched has one.       *)
AlertsAreStored == PushedAlertIsStored /\ MatchIsAlerted

(* "plates: upserted on read": a camera inserts a plate at most once,       *)
(* whatever fails and restarts between its lookups and inserts; two cameras *)
(* that see the same new plate may insert it each.                          *)
PlateRowsBounded == \A t \in Texts : plateRows[t] <= Cardinality(Cams)

(* A thread that stops in an orderly way has emitted every track that was   *)
(* read often enough.                                                       *)
NoPassLostOnStop ==
  [][\A c \in Cams, t \in Texts :
       (track[c][t] # None /\ track[c][t].n >= MinReads /\ track'[c][t] = None /\ proc' # "down")
         => \E d \in todo'[c] : d.text = t /\ d.first = track[c][t].first
                                  /\ d.n >= track[c][t].n]_vars

(* A plate that is gone leaves the voter: no track stays open for good,     *)
(* whatever the thread is busy with when the plate leaves.                  *)
TracksEnd == \A c \in Cams, t \in Texts : track[c][t] # None ~> track[c][t] = None

(* Every emitted read is worked off, whatever fails on the way.             *)
ReadsAreWorkedOff ==
  \A c \in Cams : pc[c] \notin {"frame", "stopped"} ~> pc[c] \in {"frame", "stopped"}

(* The voter "eliminates single-frame character substitution errors": the   *)
(* reads of one vehicle in one pass, misread or not, give one event.        *)
OneVehicleOneEvent ==
  \A e, f \in events :
    (e.cam = f.cam /\ Vehicle(e.text) = Vehicle(f.text) /\ e.boot = f.boot /\ e # f)
      => (e.ts - f.ts >= Window \/ f.ts - e.ts >= Window)
=============================================================================
