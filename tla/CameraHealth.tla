---------------------------- MODULE CameraHealth ----------------------------
(***************************************************************************)
(* A camera as the dashboard sees it: the heartbeat key in Redis and       *)
(* cameras.health_status in PostgreSQL, kept by a reporter thread beside   *)
(* the camera thread; with the capture (StreamCapture), the start and the  *)
(* shutdown of the pipeline process.  Cameras share no state but the       *)
(* process, so the module is about one of them.                            *)
(***************************************************************************)
EXTENDS StreamCapture

CONSTANTS
  None,            \* no frame yet
  Interval,        \* ticks between two reports
  HeartbeatTTL,    \* ticks the heartbeat key lives
  JoinTimeout,     \* ticks main waits for the camera thread
  ReleaseTimeout   \* ticks the camera thread waits for the capture

VARIABLES
  proc,     \* the pipeline process
  join,     \* ticks main still waits for the camera thread
  enabled,  \* cameras.enabled, of a camera with a stream_url
  cam,      \* the camera thread: pc, wait (ticks)
  session,  \* the thread's database session, shared with the reporter
  last,     \* age of the frame recorded last, None before the first
  rep,      \* the reporter: pc, wait, alive, and whether its last report
            \* was completed (an observation)
  halt,     \* the reporter was told to stop
  beat,     \* ticks the heartbeat key still lives; 0: no key
  row       \* cameras.health_status

health == <<proc, join, enabled, cam, session, last, rep, halt, beat, row>>
vars == <<capture, health>>

ASSUME HealthAssumption ==
  /\ Interval \in Nat \ {0} /\ HeartbeatTTL \in Nat \ {0}
  /\ JoinTimeout \in Nat /\ ReleaseTimeout \in Nat \ {0}
  /\ HeartbeatTTL > Interval
  /\ None \notin Nat

MaxAge == 2 * Interval + HeartbeatTTL - 1

Cam == [pc: {"off", "loop", "detect", "markKey", "markRow", "flush", "join", "closed"},
        wait: 0 .. ReleaseTimeout]
Reporter == [pc: {"off", "sleep", "beat", "row", "tell", "done"}, wait: 0 .. Interval,
             alive: BOOLEAN, good: BOOLEAN]

NoCam == [pc |-> "off", wait |-> 0]
NoReporter == [pc |-> "off", wait |-> 0, alive |-> FALSE, good |-> FALSE]

TypeOK ==
  /\ CaptureTypeOK
  /\ proc \in {"down", "up", "stopping"}
  /\ join \in 0 .. JoinTimeout
  /\ enabled \in BOOLEAN
  /\ cam \in Cam /\ rep \in Reporter
  /\ session \in {"good", "broken"}
  /\ last \in 0 .. MaxAge \cup {None}
  /\ halt \in BOOLEAN
  /\ beat \in 0 .. HeartbeatTTL
  /\ row \in {"unknown", "online", "offline"}

(* A camera as add_camera leaves it.                                        *)
Init ==
  /\ CaptureInit
  /\ proc = "down" /\ join = 0
  /\ enabled = TRUE
  /\ cam = NoCam /\ session = "good" /\ last = None
  /\ rep = NoReporter /\ halt = FALSE
  /\ beat = 0 /\ row = "unknown"

(***************************************************************************)
(* The process                                                             *)
(***************************************************************************)

(* PATCH of the camera.  A running thread does not look at it again: what   *)
(* matters is the value at the next start.                                  *)
Patch ==
  /\ proc = "down"
  /\ enabled' \in BOOLEAN
  /\ UNCHANGED <<capture, proc, join, cam, session, last, rep, halt, beat, row>>

(* main starts a thread, and that one its reporter and its capture, if the  *)
(* camera is enabled.                                                       *)
Start ==
  /\ proc = "down" /\ proc' = "up"
  /\ IF enabled
     THEN /\ CaptureStart
          /\ cam' = [NoCam EXCEPT !.pc = "loop"]
          /\ rep' = [NoReporter EXCEPT !.pc = "sleep", !.wait = Interval]
     ELSE UNCHANGED <<capture, cam, rep>>
  /\ UNCHANGED <<join, enabled, session, last, halt, beat, row>>

Shutdown ==
  /\ proc = "up" /\ proc' = "stopping"
  /\ join' = JoinTimeout
  /\ UNCHANGED <<capture, enabled, cam, session, last, rep, halt, beat, row>>

(* All threads are gone; the key and the row stay.                          *)
Gone ==
  /\ proc' = "down" /\ join' = 0
  /\ src' = NoSource /\ queued' = 0
  /\ cam' = NoCam /\ session' = "good" /\ last' = None
  /\ rep' = NoReporter /\ halt' = FALSE
  /\ UNCHANGED <<backend, stream, enabled, beat, row>>

(* main joined the thread, or waited long enough; it may still wait for     *)
(* other cameras' threads before it exits.                                  *)
Exit ==
  /\ proc = "stopping"
  /\ cam.pc \in {"off", "closed"} \/ join = 0
  /\ Gone

Kill == proc # "down" /\ Gone

(***************************************************************************)
(* The camera thread (process_camera)                                      *)
(***************************************************************************)

Looping == cam.pc = "loop"

(* Leaving the loop: the reporter is told, not waited for.                  *)
Leave == cam' = [cam EXCEPT !.pc = "markKey"] /\ halt' = TRUE

(* A frame: the shutdown is seen here only.                                 *)
CamFrame ==
  /\ Looping /\ TakeFrame
  /\ IF proc = "stopping"
     THEN Leave /\ UNCHANGED last
     ELSE last' = 0 /\ cam' = [cam EXCEPT !.pc = "detect"] /\ UNCHANGED halt
  /\ UNCHANGED <<proc, join, enabled, session, rep, beat, row>>

(* Recognition and what the voter sets off.  An exception of the            *)
(* recognition ends the loop; one of the database is caught further in, and *)
(* nobody rolls the session back.                                           *)
CamDetect ==
  /\ cam.pc = "detect"
  /\ \/ cam' = [cam EXCEPT !.pc = "loop"] /\ session' \in {session, "broken"}
        /\ UNCHANGED halt
     \/ Leave /\ UNCHANGED session
  /\ UNCHANGED <<capture, proc, join, enabled, last, rep, beat, row>>

(* mark_offline: delete the key and announce it; Redis may fail at each.    *)
CamMarkKey ==
  /\ cam.pc = "markKey"
  /\ \/ cam' = [cam EXCEPT !.pc = "markRow"] /\ beat' = 0
     \/ cam' = [cam EXCEPT !.pc = "flush"] /\ beat' \in {beat, 0}
  /\ UNCHANGED <<capture, proc, join, enabled, session, last, rep, halt, row>>

(* mark_offline: the row; the database may fail.                            *)
CamMarkRow ==
  /\ cam.pc = "markRow"
  /\ cam' = [cam EXCEPT !.pc = "flush"]
  /\ \/ session = "good" /\ row' = "offline" /\ UNCHANGED session
     \/ session' \in {session, "broken"} /\ UNCHANGED row
  /\ UNCHANGED <<capture, proc, join, enabled, last, rep, halt, beat>>

(* The voter is flushed, the capture released.                              *)
CamRelease ==
  /\ cam.pc = "flush"
  /\ IF backend = "gst"
     THEN AskStop /\ cam' = [pc |-> "join", wait |-> ReleaseTimeout] /\ UNCHANGED session
     ELSE /\ src' = NoSource /\ queued' = 0 /\ UNCHANGED <<backend, stream>>
          /\ cam' = [cam EXCEPT !.pc = "closed"] /\ session' = "good"
  /\ UNCHANGED <<proc, join, enabled, last, rep, halt, beat, row>>

(* The capture's thread ended, or took too long.  Closing the session       *)
(* resets it, and a reporter still at work uses it again.                   *)
CamClose ==
  /\ cam.pc = "join" /\ (src.pc \in {"ended", "dead"} \/ cam.wait = 0)
  /\ cam' = [NoCam EXCEPT !.pc = "closed"] /\ session' = "good"
  /\ UNCHANGED <<capture, proc, join, enabled, last, rep, halt, beat, row>>

(***************************************************************************)
(* The reporter (CameraHealthReporter._loop)                               *)
(***************************************************************************)

BugRepNext(good) == rep' = [NoReporter EXCEPT !.pc = "sleep", !.wait = Interval, !.good = good]

(* The stop is tested between two reports only.                             *)
RepNext(good) ==
  rep' = IF halt THEN [NoReporter EXCEPT !.pc = "done"]
                 ELSE [NoReporter EXCEPT !.pc = "sleep", !.wait = Interval, !.good = good]

BugIsAlive == last = None \/ last <= 2 * Interval

(* Without a frame yet, the camera counts as alive.                         *)
IsAlive == last = None \/ last < 2 * Interval

(* The sleep is over, whatever happened meanwhile.                          *)
RepWake ==
  /\ rep.pc = "sleep" /\ rep.wait = 0
  /\ rep' = [rep EXCEPT !.pc = "beat", !.alive = IsAlive, !.good = FALSE]
  /\ UNCHANGED <<capture, proc, join, enabled, cam, session, last, halt, beat, row>>

(* SETEX or DELETE; a failure ends the report.                              *)
RepBeat ==
  /\ rep.pc = "beat"
  /\ \/ /\ beat' = IF rep.alive THEN HeartbeatTTL ELSE 0
        /\ rep' = [rep EXCEPT !.pc = "row"]
     \/ RepNext(FALSE) /\ UNCHANGED beat
  /\ UNCHANGED <<capture, proc, join, enabled, cam, session, last, halt, row>>

Status == IF rep.alive THEN "online" ELSE "offline"

(* The row, if its status changed; a failure ends the report and leaves the *)
(* session unusable until it is closed, unless no statement had begun.      *)
RepRow ==
  /\ rep.pc = "row"
  /\ \/ /\ session = "good" /\ row' = Status
        /\ rep' = [rep EXCEPT !.pc = "tell"]
        /\ UNCHANGED session
     \/ RepNext(FALSE) /\ session' \in {session, "broken"} /\ UNCHANGED row
  /\ UNCHANGED <<capture, proc, join, enabled, cam, last, halt, beat>>

(* What the dashboard's sockets are told is no state.  This may fail too.   *)
RepTell ==
  /\ rep.pc = "tell"
  /\ \E good \in BOOLEAN : RepNext(good)
  /\ UNCHANGED <<capture, proc, join, enabled, cam, session, last, halt, beat, row>>

(***************************************************************************)
(* Time                                                                    *)
(***************************************************************************)

(* Steps that take no tick: all but waiting for a frame, recognition, and   *)
(* sleeps.                                                                  *)
Busy ==
  \/ rep.pc \in {"beat", "row", "tell"} \/ (rep.pc = "sleep" /\ rep.wait = 0)
  \/ cam.pc \in {"markKey", "markRow", "flush"}
  \/ Looping /\ queued > 0
  \/ cam.pc = "join" /\ (cam.wait = 0 \/ src.pc \in {"ended", "dead"})
  \/ CaptureBusy

Less(t) == Max({t - 1, 0})

Tick ==
  /\ ~Busy
  /\ src' = Slept
  /\ join' = Less(join) /\ beat' = Less(beat)
  /\ cam' = [cam EXCEPT !.wait = Less(@)] /\ rep' = [rep EXCEPT !.wait = Less(@)]
  /\ last' = IF last = None THEN None ELSE Min({last + 1, MaxAge})
  /\ UNCHANGED <<backend, stream, queued, proc, enabled, session, halt, row>>

GstPulled(ok) == GstPull(ok) /\ UNCHANGED health
CaptureStep == (GstStep \/ (Looping /\ (CvStep \/ CvReadFails))) /\ UNCHANGED health
CvReads == Looping /\ CvRead /\ UNCHANGED health
CamStep == CamFrame \/ CamDetect \/ CamMarkKey \/ CamMarkRow \/ CamRelease \/ CamClose
RepStep == RepWake \/ RepBeat \/ RepRow \/ RepTell
Environment == (StreamDrops \/ StreamReturns \/ GstError) /\ UNCHANGED health

Next ==
  \/ Patch \/ Start \/ Shutdown \/ Exit \/ Kill
  \/ Environment \/ CaptureStep \/ CvReads \/ \E ok \in BOOLEAN : GstPulled(ok)
  \/ CamStep \/ RepStep \/ Tick

(* A sample of a good stream that ends in the queue.                        *)
Delivered == (GstPulled(TRUE) \/ CvReads) /\ src'.n = 0

(* The threads are scheduled, time passes, and a stream that is up delivers *)
(* a frame now and then.                                                    *)
Fairness ==
  /\ WF_vars(Tick) /\ WF_vars(CamStep) /\ WF_vars(RepStep) /\ WF_vars(CaptureStep)
  /\ SF_vars(CvReads \/ GstPulled(TRUE)) /\ SF_vars(Delivered)

Spec == Init /\ [][Next]_vars /\ Fairness

(***************************************************************************)
(* Properties                                                              *)
(***************************************************************************)

(* A camera that has delivered frames keeps its key no longer than 20 s     *)
(* without a frame and the key's 30 s allow ("absence" of the key means     *)
(* "offline", health.py:7).  Before the first frame the key is set all the  *)
(* same.                                                                    *)
HeartbeatMeansFrames ==
  beat > 0 /\ last # None => last < 2 * Interval + HeartbeatTTL - beat

(* Between a completed report and the next, the two places the dashboard    *)
(* reads agree: live-status (the key) and health-summary (the row).         *)
ViewsAgree ==
  rep.pc = "sleep" /\ rep.good /\ ~halt => (row = "online" <=> beat > 0)

(* What the dashboard shows of a camera: the key follows the frames, the    *)
(* row follows the key.                                                     *)
StatusIsTruthful == TypeOK /\ HeartbeatMeansFrames /\ ViewsAgree

(* When the camera thread is through, GStreamer no longer reads from the    *)
(* camera, unless it sleeps before its next attempt, which then does not    *)
(* come.                                                                    *)
StreamIsReleased ==
  cam.pc = "closed" => src.pc \in {"off", "dead", "ended", "wait"}

(* A camera whose stream stays up is read again, whatever happened before,  *)
(* unless its capture thread died while a pipeline was built.               *)
StreamRecovers ==
  <>[](stream /\ src.pc # "dead" /\ cam.pc \in {"loop", "detect"}) => []<>(last = 0)

(* The key of a camera that stopped lapses although a report that was under *)
(* way sets it again after mark_offline.                                    *)
StoppedHeartbeatLapses ==
  <>[](cam.pc = "closed") => <>[](beat = 0)
=============================================================================
