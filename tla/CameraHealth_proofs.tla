------------------------ MODULE CameraHealth_proofs ------------------------
(***************************************************************************)
(* What CameraHealth promises whatever the camera thread, its reporter,    *)
(* the capture and the process do, for any queue, delays and intervals.    *)
(*                                                                         *)
(* The heartbeat is tied to the frames through what the reporter holds     *)
(* between its look at the clock and its SETEX, the row to the key through *)
(* the report that is under way, and the end of the capture to the wait of *)
(* release(): Inv says how.                                                *)
(***************************************************************************)
EXTENDS CameraHealth, TLAPS

(* A camera thread that has left its loop has told the reporter.            *)
LeaveIsTold ==
  cam.pc \in {"markKey", "markRow", "flush", "join", "closed"} => halt

(* The answer a reporter holds is as old as its report, which takes no tick.*)
AnswerIsFresh ==
  rep.pc = "beat" /\ rep.alive /\ last # None => last < 2 * Interval

(* What a report that nobody was told to stop has done so far still stands, *)
(* and after a completed one the key outlives the sleep.                    *)
ReportsAreSound ==
  /\ rep.pc \in {"beat", "row", "tell"} => ~rep.good
  /\ rep.pc \in {"row", "tell"} /\ ~halt => beat = IF rep.alive THEN HeartbeatTTL ELSE 0
  /\ rep.pc = "tell" /\ ~halt => row = Status
  /\ rep.pc = "sleep" /\ rep.good /\ ~halt => beat = 0 \/ beat > rep.wait

HealthInv ==
  LeaveIsTold /\ AnswerIsFresh /\ ReportsAreSound /\ HeartbeatMeansFrames /\ ViewsAgree

(* States in which a capture does not read from the camera.                *)
Still == {"off", "dead", "ended", "wait"}

(* A capture that was asked to stop has seen it before release() has waited *)
(* for a tick, and what has seen it does not read again.                    *)
ReleaseInv ==
  /\ cam.pc = "join" =>
       backend = "gst" /\ src.stop /\ (cam.wait = ReleaseTimeout \/ src.pc \in Still)
  /\ cam.pc = "closed" =>
       IF backend = "gst" THEN src.stop /\ src.pc \in Still ELSE src.pc = "off"

Inv == TypeOK /\ HealthInv /\ ReleaseInv

USE CaptureAssumption, HealthAssumption

(***************************************************************************)
(* Numbers                                                                 *)
(***************************************************************************)

(* The greater of two numbers.                                              *)
LEMMA MaxPair ==
  ASSUME NEW a \in Int, NEW b \in Int
  PROVE  Max({a, b}) = IF a >= b THEN a ELSE b
<1> DEFINE m == IF a >= b THEN a ELSE b
<1>1. m \in {a, b} /\ \A y \in {a, b} : m >= y
  OBVIOUS
<1>2. \A x \in {a, b} : (\A y \in {a, b} : x >= y) => x = m
  OBVIOUS
<1>3. QED
  BY <1>1, <1>2 DEF Max

(* The lesser of two numbers.                                               *)
LEMMA MinPair ==
  ASSUME NEW a \in Int, NEW b \in Int
  PROVE  Min({a, b}) = IF a <= b THEN a ELSE b
<1> DEFINE m == IF a <= b THEN a ELSE b
<1>1. m \in {a, b} /\ \A y \in {a, b} : m <= y
  OBVIOUS
<1>2. \A x \in {a, b} : (\A y \in {a, b} : x <= y) => x = m
  OBVIOUS
<1>3. QED
  BY <1>1, <1>2 DEF Min

(* A tick takes one from a number, but no more than there is.               *)
LEMMA LessIs ==
  ASSUME NEW t \in Nat
  PROVE  Less(t) = IF t = 0 THEN 0 ELSE t - 1
  BY MaxPair DEF Less

(* The bounds of the capture's counters.                                    *)
LEMMA Bounds ==
  /\ ErrCap \in Nat /\ ReadFailures - 1 <= ErrCap
  /\ Max({MaxBackoff, ReconnectDelay}) \in Nat
  /\ MaxBackoff <= Max({MaxBackoff, ReconnectDelay})
  /\ ReconnectDelay <= Max({MaxBackoff, ReconnectDelay})
  /\ MaxAge \in Nat
<1>1. ErrCap = IF MaxBackoff >= ReadFailures - 1 THEN MaxBackoff ELSE ReadFailures - 1
  BY MaxPair DEF ErrCap
<1>2. Max({MaxBackoff, ReconnectDelay}) = IF MaxBackoff >= ReconnectDelay THEN MaxBackoff
                                                                        ELSE ReconnectDelay
  BY MaxPair
<1>3. QED
  BY <1>1, <1>2 DEF MaxAge

(* No delay after errors is longer than the longest.                        *)
LEMMA BackoffType ==
  ASSUME NEW errs \in Nat
  PROVE  Backoff(errs) \in 0 .. MaxBackoff
<1>1. ReconnectDelay * errs \in Nat
  OBVIOUS
<1>2. QED
  BY <1>1, MinPair DEF Backoff

(***************************************************************************)
(* The capture                                                             *)
(***************************************************************************)

(* The fields of a source.                                                  *)
LEMMA SourceParts ==
  ASSUME CaptureTypeOK
  PROVE  /\ src = [pc |-> src.pc, errs |-> src.errs, wait |-> src.wait, n |-> src.n,
                   stop |-> src.stop]
         /\ src.pc \in {"off", "build", "play", "broken", "wait", "dead", "ended"}
         /\ src.errs \in 0 .. ErrCap /\ src.wait \in 0 .. Max({MaxBackoff, ReconnectDelay})
         /\ src.n \in 0 .. Sample - 1 /\ src.stop \in BOOLEAN
  BY DEF CaptureTypeOK, Source

(* A capture that has not started.                                          *)
LEMMA NoSourceType == NoSource \in Source /\ [NoSource EXCEPT !.pc = "build"] \in Source
<1>1. 0 \in 0 .. ErrCap /\ 0 \in 0 .. Max({MaxBackoff, ReconnectDelay}) /\ 0 \in 0 .. Sample - 1
  BY Bounds
<1>2. NoSource \in Source
  BY <1>1 DEF NoSource, Source
<1>3. [NoSource EXCEPT !.pc = "build"] \in Source
  BY <1>2 DEF Source
<1>4. QED
  BY <1>2, <1>3

(* What one step of the capture may make of its source.                     *)
CaptureMoves ==
  /\ CaptureTypeOK'
  /\ UNCHANGED backend
  /\ src'.stop = src.stop
  /\ (backend = "gst" /\ src.stop /\ src.pc \in Still) => src'.pc \in Still

(* GStreamer's thread goes on, or ends when asked to.                       *)
LEMMA ReconnectMoves ==
  ASSUME CaptureTypeOK, NEW errs \in Nat, Reconnect(errs), src.pc \notin Still
  PROVE  CaptureMoves
<1>1. Min({errs, ErrCap}) \in 0 .. ErrCap
  BY Bounds, MinPair
<1>2. Backoff(errs) \in 0 .. Max({MaxBackoff, ReconnectDelay})
  BY BackoffType, Bounds
<1>3. src' \in Source
  BY <1>1, <1>2, SourceParts DEF Reconnect, Source
<1>4. src'.stop = src.stop
  BY SourceParts DEF Reconnect
<1>5. QED
  BY <1>3, <1>4 DEF Reconnect, CaptureMoves, CaptureTypeOK

(* The counter of frames goes round.                                        *)
LEMMA NextFrame ==
  ASSUME CaptureTypeOK
  PROVE  (src.n + 1) % Sample \in 0 .. Sample - 1
  BY SourceParts

(* The stream comes and goes.                                               *)
LEMMA StreamMoves ==
  ASSUME CaptureTypeOK, StreamDrops \/ StreamReturns
  PROVE  CaptureMoves /\ UNCHANGED queued
<1>1. CASE StreamDrops
  <2>1. src' \in Source /\ src'.stop = src.stop
        /\ (src.pc \in Still => src'.pc = src.pc)
    BY <1>1, SourceParts DEF StreamDrops, Source, Still
  <2>2. QED
    BY <1>1, <2>1 DEF StreamDrops, CaptureMoves, CaptureTypeOK
<1>2. CASE StreamReturns
  BY <1>2 DEF StreamReturns, CaptureMoves, CaptureTypeOK
<1>3. QED
  BY <1>1, <1>2

(* A step of either capture that leaves the queue alone.                    *)
LEMMA StepMoves ==
  ASSUME CaptureTypeOK, GstStep \/ CvStep \/ CvReadFails
  PROVE  CaptureMoves /\ UNCHANGED queued
<1>1. CASE GstBuild
  <2>1. src' \in Source /\ src'.stop = src.stop /\ src.pc \notin Still
    BY <1>1, SourceParts DEF GstBuild, Source, Still
  <2>2. QED
    BY <1>1, <2>1 DEF GstBuild, CaptureMoves, CaptureTypeOK
<1>2. CASE GstMessage
  <2>1. src.pc \notin Still /\ src.errs \in Nat
    BY <1>2, SourceParts, Bounds DEF GstMessage, Still
  <2>2. QED
    BY <1>2, <2>1, ReconnectMoves DEF GstMessage, Reconnect
<1>3. CASE GstStopped
  <2>1. src' \in Source /\ src'.stop = src.stop /\ src.pc \notin Still
    BY <1>3, SourceParts DEF GstStopped, Source, Still
  <2>2. QED
    BY <1>3, <2>1 DEF GstStopped, CaptureMoves, CaptureTypeOK
<1>4. CASE Wake
  <2>1. src' \in Source /\ src'.stop = src.stop /\ (src.stop => src'.pc = "ended")
    BY <1>4, SourceParts DEF Wake, Source
  <2>2. QED
    BY <1>4, <2>1 DEF Wake, CaptureMoves, CaptureTypeOK, Still
<1>5. CASE CvOpen
  <2>1. 0 \in 0 .. ErrCap /\ ReconnectDelay \in 0 .. Max({MaxBackoff, ReconnectDelay})
    BY Bounds
  <2>2. src' \in Source /\ src'.stop = src.stop
    BY <1>5, <2>1, SourceParts DEF CvOpen, Source
  <2>3. QED
    BY <1>5, <2>2 DEF CvOpen, CaptureMoves, CaptureTypeOK
<1>6. CASE CvReadFails
  <2>1. src.errs + 1 < ReadFailures => src.errs + 1 \in 0 .. ErrCap
    BY Bounds, SourceParts
  <2>2. src' \in Source /\ src'.stop = src.stop
    BY <1>6, <2>1, SourceParts DEF CvReadFails, Source
  <2>3. QED
    BY <1>6, <2>2 DEF CvReadFails, CaptureMoves, CaptureTypeOK
<1>7. QED
  BY <1>1, <1>2, <1>3, <1>4, <1>5, <1>6 DEF GstStep, CvStep

(* A sample is pulled, or a frame read.                                     *)
LEMMA FrameMoves ==
  ASSUME CaptureTypeOK, CvRead \/ \E ok \in BOOLEAN : GstPull(ok)
  PROVE  CaptureMoves
<1> DEFINE n == (src.n + 1) % Sample
<1>1. n \in 0 .. Sample - 1
  BY NextFrame
<1>2. 0 \in 0 .. ErrCap /\ 0 \in 0 .. QueueSize /\ 1 \in 0 .. QueueSize
  BY Bounds
<1>3. CASE CvRead
  <2>1. src' = [src EXCEPT !.n = n, !.errs = 0] /\ queued' \in {0, 1}
        /\ UNCHANGED <<backend, stream>> /\ backend = "opencv"
    BY <1>3 DEF CvRead
  <2> HIDE DEF n
  <2>2. src' \in Source /\ src'.stop = src.stop
    BY <1>1, <1>2, <2>1, SourceParts DEF Source
  <2>3. QED
    BY <1>2, <2>1, <2>2 DEF CaptureMoves, CaptureTypeOK
<1>4. ASSUME NEW ok \in BOOLEAN, GstPull(ok)
      PROVE  CaptureMoves
  <2>1. src' = [src EXCEPT !.n = n, !.errs = IF n = 0 /\ ok THEN 0 ELSE @]
        /\ queued' \in {queued, IF queued < QueueSize THEN queued + 1 ELSE queued}
        /\ UNCHANGED <<backend, stream>> /\ src.pc = "play"
    BY <1>4 DEF GstPull
  <2> HIDE DEF n
  <2>2. src' \in Source /\ src'.stop = src.stop /\ src.pc \notin Still
    BY <1>1, <1>2, <2>1, SourceParts DEF Source, Still
  <2>3. queued' \in 0 .. QueueSize
    BY <2>1 DEF CaptureTypeOK
  <2>4. QED
    BY <2>1, <2>2, <2>3 DEF CaptureMoves, CaptureTypeOK
<1>5. QED
  BY <1>3, <1>4

(* An exception while a sample is converted.                                *)
LEMMA ErrorMoves ==
  ASSUME CaptureTypeOK, GstError
  PROVE  CaptureMoves
<1>1. src.errs + 1 \in Nat /\ src.pc \notin Still
  BY SourceParts, Bounds DEF GstError, Still
<1>2. QED
  BY <1>1, ReconnectMoves DEF GstError

(* The capture sleeps.                                                      *)
LEMMA SleptType ==
  ASSUME CaptureTypeOK
  PROVE  /\ Slept \in Source /\ Slept.stop = src.stop /\ Slept.pc = src.pc
<1>1. Max({src.wait - 1, 0}) \in 0 .. Max({MaxBackoff, ReconnectDelay})
  <2> DEFINE m == Max({src.wait - 1, 0})
             top == Max({MaxBackoff, ReconnectDelay})
  <2>1. src.wait \in 0 .. top /\ top \in Nat
    BY SourceParts, Bounds
  <2>2. m = IF src.wait = 0 THEN 0 ELSE src.wait - 1
    BY <2>1, LessIs DEF Less
  <2> HIDE DEF m, top
  <2>3. m \in 0 .. top
    BY <2>1, <2>2
  <2>4. QED
    BY <2>3 DEF m, top
<1>2. QED
  BY <1>1, SourceParts DEF Slept, Source

(***************************************************************************)
(* Threads                                                                 *)
(***************************************************************************)

(* The fields of the two threads.                                           *)
LEMMA ThreadParts ==
  ASSUME TypeOK
  PROVE  /\ cam.pc \in {"off", "loop", "detect", "markKey", "markRow", "flush", "join", "closed"}
         /\ cam.wait \in 0 .. ReleaseTimeout
         /\ rep.pc \in {"off", "sleep", "beat", "row", "tell", "done"}
         /\ rep.wait \in 0 .. Interval /\ rep.alive \in BOOLEAN /\ rep.good \in BOOLEAN
         /\ last # None => last \in 0 .. MaxAge
         /\ beat \in 0 .. HeartbeatTTL
  BY DEF TypeOK, Cam, Reporter

(* The age of a frame is a number.                                          *)
LEMMA AgeIsNumber == None \notin 0 .. MaxAge /\ 0 \in 0 .. MaxAge
  BY Bounds

(* Threads that have not started, or have just.                             *)
LEMMA NewThreads ==
  /\ NoCam \in Cam /\ NoReporter \in Reporter
  /\ NoCam.pc = "off" /\ NoReporter.pc = "off" /\ ~NoReporter.good
<1>1. 0 \in 0 .. ReleaseTimeout /\ 0 \in 0 .. Interval
  OBVIOUS
<1>2. QED
  BY <1>1 DEF NoCam, NoReporter, Cam, Reporter

(* Init: a camera as it is added.                                           *)
LEMMA InitInv == Init => Inv
<1> SUFFICES ASSUME Init PROVE Inv
  OBVIOUS
<1>1. CaptureTypeOK
  BY NoSourceType DEF Init, CaptureInit, CaptureTypeOK
<1>2. TypeOK
  <2>1. 0 \in 0 .. JoinTimeout /\ 0 \in 0 .. HeartbeatTTL
    OBVIOUS
  <2>2. QED
    BY <1>1, <2>1, NewThreads, Zenon DEF Init, TypeOK
<1>3. HealthInv
  BY NewThreads DEF Init, HealthInv, LeaveIsTold, AnswerIsFresh, ReportsAreSound,
                    HeartbeatMeansFrames, ViewsAgree
<1>4. ReleaseInv
  BY NewThreads DEF Init, ReleaseInv
<1>5. QED
  BY <1>2, <1>3, <1>4 DEF Inv

(* A step of the capture: nothing of the camera's health changes, and one   *)
(* that is still stays still unless the camera thread itself reads.         *)
LEMMA CaptureInv ==
  ASSUME Inv, CaptureMoves, UNCHANGED health,
         backend = "gst" \/ Looping \/ (src.pc = "off" => src'.pc = "off")
  PROVE  Inv'
<1>1. TypeOK'
  BY DEF Inv, TypeOK, CaptureMoves, health
<1>2. HealthInv'
  BY DEF Inv, HealthInv, LeaveIsTold, AnswerIsFresh, ReportsAreSound, HeartbeatMeansFrames,
         ViewsAgree, Status, health
<1>3. ReleaseInv'
  BY DEF Inv, ReleaseInv, CaptureMoves, health, Looping
<1>4. QED
  BY <1>1, <1>2, <1>3 DEF Inv

(* So do the steps of either back end.                                      *)
LEMMA CaptureStepInv ==
  ASSUME Inv,
         Environment \/ CaptureStep \/ CvReads \/ \E ok \in BOOLEAN : GstPulled(ok)
  PROVE  Inv'
<1>0. CaptureTypeOK
  BY DEF Inv, TypeOK
<1>1. CASE Environment
  <2>1. UNCHANGED health
    BY <1>1 DEF Environment
  <2>2. CaptureMoves
    BY <1>0, <1>1, StreamMoves, ErrorMoves DEF Environment
  <2>3. backend = "gst" \/ (src.pc = "off" => src'.pc = "off")
    BY <1>0, <1>1, SourceParts DEF Environment, StreamDrops, StreamReturns, GstError
  <2>4. QED
    BY <2>1, <2>2, <2>3, CaptureInv
<1>2. CASE CaptureStep
  <2>1. UNCHANGED health
    BY <1>2 DEF CaptureStep
  <2>2. CaptureMoves
    BY <1>0, <1>2, StepMoves DEF CaptureStep
  <2>3. backend = "gst" \/ Looping
    BY <1>2 DEF CaptureStep, GstStep, GstBuild, GstMessage, GstStopped
  <2>4. QED
    BY <2>1, <2>2, <2>3, CaptureInv
<1>3. CASE CvReads
  BY <1>0, <1>3, FrameMoves, CaptureInv DEF CvReads
<1>4. ASSUME NEW ok \in BOOLEAN, GstPulled(ok)
      PROVE  Inv'
  <2>1. CaptureMoves /\ UNCHANGED health /\ backend = "gst"
    BY <1>0, <1>4, FrameMoves DEF GstPulled, GstPull
  <2>2. QED
    BY <2>1, CaptureInv
<1>5. QED
  BY <1>1, <1>2, <1>3, <1>4

(***************************************************************************)
(* The process                                                             *)
(***************************************************************************)

(* What a thread is set to.                                                 *)
LEMMA CamSet ==
  ASSUME NEW c \in Cam, NEW s \in {"off", "loop", "detect", "markKey", "markRow", "flush",
                                  "join", "closed"}
  PROVE  /\ [c EXCEPT !.pc = s] \in Cam
         /\ [c EXCEPT !.pc = s].pc = s /\ [c EXCEPT !.pc = s].wait = c.wait
  BY DEF Cam

(* What a reporter is set to when it goes on, and when it goes to sleep.    *)
LEMMA RepSet ==
  ASSUME NEW r \in Reporter, NEW s \in {"off", "sleep", "beat", "row", "tell", "done"}
  PROVE  /\ [r EXCEPT !.pc = s] \in Reporter
         /\ [r EXCEPT !.pc = s].pc = s /\ [r EXCEPT !.pc = s].good = r.good
         /\ [r EXCEPT !.pc = s].alive = r.alive
  BY DEF Reporter

(* A reporter that goes to sleep after a report.                             *)
LEMMA RepSleeps ==
  ASSUME NEW good \in BOOLEAN
  PROVE  LET r == [NoReporter EXCEPT !.pc = "sleep", !.wait = Interval, !.good = good] IN
         r \in Reporter /\ r.pc = "sleep" /\ r.wait = Interval /\ r.good = good
<1>1. Interval \in 0 .. Interval
  OBVIOUS
<1>2. QED
  BY <1>1, NewThreads DEF Reporter

(* Nothing is claimed of a camera whose threads are not there.              *)
LEMMA GoneInv == ASSUME Inv, Gone PROVE Inv'
<1>1. TypeOK'
  <2>1. CaptureTypeOK'
    BY NoSourceType DEF Inv, TypeOK, CaptureTypeOK, Gone
  <2>2. 0 \in 0 .. JoinTimeout
    OBVIOUS
  <2>3. QED
    BY <2>1, <2>2, NewThreads, Zenon DEF Inv, TypeOK, Gone
<1>2. HealthInv'
  BY NewThreads DEF Inv, HealthInv, LeaveIsTold, AnswerIsFresh, ReportsAreSound,
                    HeartbeatMeansFrames, ViewsAgree, Gone
<1>3. ReleaseInv'
  BY NewThreads DEF ReleaseInv, Gone
<1>4. QED
  BY <1>1, <1>2, <1>3 DEF Inv

(* main starts the threads.                                                 *)
LEMMA StartInv == ASSUME Inv, Start PROVE Inv'
<1>1. CASE enabled
  <2> DEFINE c == [NoCam EXCEPT !.pc = "loop"]
             r == [NoReporter EXCEPT !.pc = "sleep", !.wait = Interval]
  <2>1. c \in Cam /\ c.pc = "loop"
    BY NewThreads, CamSet
  <2>2. r \in Reporter /\ r.pc = "sleep" /\ ~r.good
    <3>1. Interval \in 0 .. Interval
      OBVIOUS
    <3>2. QED
      BY <3>1, NewThreads DEF Reporter
  <2>3. cam' = c /\ rep' = r /\ CaptureStart /\ proc' = "up"
        /\ UNCHANGED <<join, enabled, session, last, halt, beat, row>>
    BY <1>1 DEF Start
  <2> HIDE DEF c, r
  <2>4. CaptureTypeOK'
    BY <2>3, NoSourceType DEF CaptureStart, Inv, TypeOK, CaptureTypeOK
  <2>5. TypeOK'
    BY <2>1, <2>2, <2>3, <2>4, Zenon DEF Inv, TypeOK
  <2>6. HealthInv'
    BY <2>1, <2>2, <2>3 DEF Inv, HealthInv, LeaveIsTold, AnswerIsFresh, ReportsAreSound,
                            HeartbeatMeansFrames, ViewsAgree
  <2>7. ReleaseInv'
    BY <2>1, <2>3 DEF ReleaseInv
  <2>8. QED
    BY <2>5, <2>6, <2>7 DEF Inv
<1>2. CASE ~enabled
  <2>1. /\ proc' = "up"
        /\ UNCHANGED <<backend, stream, src, queued, join, enabled, cam, session, last, rep, halt, beat, row>>
    BY <1>2 DEF Start, capture
  <2>2. TypeOK'
    BY <2>1 DEF Inv, TypeOK, CaptureTypeOK
  <2>3. HealthInv' /\ ReleaseInv'
    BY <2>1 DEF Inv, HealthInv, LeaveIsTold, AnswerIsFresh, ReportsAreSound,
                HeartbeatMeansFrames, ViewsAgree, Status, ReleaseInv
  <2>4. QED
    BY <2>2, <2>3 DEF Inv
<1>3. QED
  BY <1>1, <1>2

(* The process is started, told to stop, and ends; an operator enables or   *)
(* disables the camera.                                                     *)
LEMMA ProcessInv ==
  ASSUME Inv, Patch \/ Start \/ Shutdown \/ Exit \/ Kill
  PROVE  Inv'
<1>1. CASE Patch \/ Shutdown
  <2>1. /\ proc' \in {proc, "stopping"} /\ enabled' \in BOOLEAN /\ join' \in 0 .. JoinTimeout
        /\ UNCHANGED <<backend, stream, src, queued, cam, session, last, rep, halt, beat, row>>
    BY <1>1 DEF Patch, Shutdown, capture, Inv, TypeOK
  <2>2. TypeOK'
    BY <2>1 DEF Inv, TypeOK, CaptureTypeOK
  <2>3. HealthInv' /\ ReleaseInv'
    BY <2>1 DEF Inv, HealthInv, LeaveIsTold, AnswerIsFresh, ReportsAreSound,
                HeartbeatMeansFrames, ViewsAgree, Status, ReleaseInv
  <2>4. QED
    BY <2>2, <2>3 DEF Inv
<1>2. CASE Start
  BY <1>2, StartInv
<1>3. CASE Exit \/ Kill
  BY <1>3, GoneInv DEF Exit, Kill
<1>4. QED
  BY <1>1, <1>2, <1>3

(***************************************************************************)
(* The camera thread                                                       *)
(***************************************************************************)

(* A frame, or the shutdown that is seen with it.                           *)
LEMMA CamFrameInv == ASSUME Inv, CamFrame PROVE Inv'
<1>1. CaptureTypeOK' /\ UNCHANGED <<backend, stream, src>>
  BY DEF CamFrame, TakeFrame, Inv, TypeOK, CaptureTypeOK
<1>2. /\ cam' \in Cam
      /\ \/ cam'.pc = "markKey" /\ halt' = TRUE /\ last' = last
         \/ cam'.pc = "detect" /\ halt' = halt /\ last' = 0
      /\ UNCHANGED <<proc, join, enabled, session, rep, beat, row>>
  <2>1. cam \in Cam
    BY DEF Inv, TypeOK
  <2>2. CASE proc = "stopping"
    BY <2>1, <2>2 DEF CamFrame, Leave, Cam
  <2>3. CASE proc # "stopping"
    BY <2>1, <2>3 DEF CamFrame, Cam
  <2>4. QED
    BY <2>2, <2>3
<1>3. halt' \in BOOLEAN /\ last' \in 0 .. MaxAge \cup {None}
  BY <1>2, AgeIsNumber DEF Inv, TypeOK
<1>4. TypeOK'
  BY <1>1, <1>2, <1>3, Zenon DEF Inv, TypeOK
<1>5. HealthInv'
  <2>1. LeaveIsTold'
    BY <1>2 DEF LeaveIsTold
  <2>2. AnswerIsFresh' /\ HeartbeatMeansFrames'
    BY <1>2, ThreadParts DEF Inv, HealthInv, AnswerIsFresh, HeartbeatMeansFrames
  <2>3. ReportsAreSound' /\ ViewsAgree'
    BY <1>2 DEF Inv, HealthInv, ReportsAreSound, ViewsAgree, Status, TypeOK
  <2>4. QED
    BY <2>1, <2>2, <2>3 DEF HealthInv
<1>6. ReleaseInv'
  BY <1>2 DEF ReleaseInv
<1>7. QED
  BY <1>4, <1>5, <1>6 DEF Inv

(* Recognition ends, or ends the loop.                                      *)
LEMMA CamDetectInv == ASSUME Inv, CamDetect PROVE Inv'
<1>1. /\ cam' \in Cam
      /\ \/ cam'.pc = "markKey" /\ halt' = TRUE
         \/ cam'.pc = "loop" /\ halt' = halt
      /\ session' \in {"good", "broken"} /\ halt' \in BOOLEAN
      /\ UNCHANGED <<backend, stream, src, queued, proc, join, enabled, last, rep, beat, row>>
  <2>1. cam \in Cam /\ session \in {"good", "broken"} /\ halt \in BOOLEAN
    BY DEF Inv, TypeOK
  <2>2. UNCHANGED <<backend, stream, src, queued, proc, join, enabled, last, rep, beat, row>>
    BY DEF CamDetect, capture
  <2>3. \/ /\ cam' = [cam EXCEPT !.pc = "loop"] /\ session' \in {session, "broken"}
           /\ UNCHANGED halt
        \/ cam' = [cam EXCEPT !.pc = "markKey"] /\ halt' = TRUE /\ UNCHANGED session
    BY DEF CamDetect, Leave
  <2>4. cam' \in Cam /\ (\/ cam'.pc = "markKey" /\ halt' = TRUE
                         \/ cam'.pc = "loop" /\ halt' = halt)
    BY <2>1, <2>3 DEF Cam
  <2>5. session' \in {"good", "broken"} /\ halt' \in BOOLEAN
    BY <2>1, <2>3
  <2>6. QED
    BY <2>2, <2>4, <2>5
<1>2. TypeOK'
  BY <1>1, Zenon DEF Inv, TypeOK, CaptureTypeOK
<1>3. HealthInv'
  BY <1>1 DEF Inv, HealthInv, LeaveIsTold, AnswerIsFresh, ReportsAreSound,
              HeartbeatMeansFrames, ViewsAgree, Status, TypeOK
<1>4. ReleaseInv'
  BY <1>1 DEF ReleaseInv
<1>5. QED
  BY <1>2, <1>3, <1>4 DEF Inv

(* mark_offline's three calls: of a reporter that was told to stop nothing  *)
(* is claimed.                                                              *)
LEMMA CamMarkInv == ASSUME Inv, CamMarkKey \/ CamMarkRow PROVE Inv'
<1>1. /\ cam' \in Cam /\ cam'.pc \in {"markRow", "flush"}
      /\ beat' \in {beat, 0} /\ row' \in {row, "offline"} /\ session' \in {"good", "broken"}
      /\ UNCHANGED <<backend, stream, src, queued, proc, join, enabled, last, rep, halt>>
  <2>1. cam \in Cam /\ session \in {"good", "broken"}
    BY DEF Inv, TypeOK
  <2>2. CASE CamMarkKey
    <3>1. cam' \in {[cam EXCEPT !.pc = "markRow"], [cam EXCEPT !.pc = "flush"]}
          /\ beat' \in {beat, 0}
      BY <2>2 DEF CamMarkKey
    <3>2. cam' \in Cam /\ cam'.pc \in {"markRow", "flush"}
      BY <2>1, <3>1 DEF Cam
    <3>3. QED
      BY <2>1, <2>2, <3>1, <3>2 DEF CamMarkKey, capture
  <2>3. CASE CamMarkRow
    <3>1. cam' = [cam EXCEPT !.pc = "flush"]
      BY <2>3 DEF CamMarkRow
    <3>2. cam' \in Cam /\ cam'.pc = "flush"
      BY <2>1, <3>1 DEF Cam
    <3>3. row' \in {row, "offline"} /\ session' \in {"good", "broken"}
      BY <2>1, <2>3 DEF CamMarkRow
    <3>4. QED
      BY <2>3, <3>2, <3>3 DEF CamMarkRow, capture
  <2>4. QED
    BY <2>2, <2>3
<1>2. halt
  BY DEF Inv, HealthInv, LeaveIsTold, CamMarkKey, CamMarkRow
<1>3. beat' \in 0 .. HeartbeatTTL
  BY <1>1 DEF Inv, TypeOK
<1>4. TypeOK'
  <2>1. CaptureTypeOK'
    BY <1>1 DEF Inv, TypeOK, CaptureTypeOK
  <2>2. row' \in {"unknown", "online", "offline"}
    BY <1>1 DEF Inv, TypeOK
  <2>3. QED
    BY <1>1, <1>3, <2>1, <2>2, Zenon DEF Inv, TypeOK
<1>5. HealthInv'
  <2>1. LeaveIsTold' /\ ReportsAreSound' /\ ViewsAgree'
    BY <1>1, <1>2 DEF Inv, HealthInv, LeaveIsTold, ReportsAreSound, ViewsAgree
  <2>2. AnswerIsFresh' /\ HeartbeatMeansFrames'
    BY <1>1 DEF Inv, HealthInv, AnswerIsFresh, HeartbeatMeansFrames
  <2>3. QED
    BY <2>1, <2>2 DEF HealthInv
<1>6. ReleaseInv'
  BY <1>1 DEF ReleaseInv
<1>7. QED
  BY <1>4, <1>5, <1>6 DEF Inv

(* release() and its wait.                                                  *)
LEMMA CamReleaseInv == ASSUME Inv, CamRelease \/ CamClose PROVE Inv'
<1>1. ReleaseTimeout \in 0 .. ReleaseTimeout /\ 0 \in 0 .. ReleaseTimeout /\ 0 \in 0 .. QueueSize
  OBVIOUS
<1>2. /\ cam' \in Cam /\ cam'.pc \in {"join", "closed"} /\ session' \in {"good", "broken"}
      /\ cam.pc \in {"flush", "join"}
      /\ UNCHANGED <<backend, stream, proc, join, enabled, last, rep, halt, beat, row>>
  <2>1. cam \in Cam /\ session \in {"good", "broken"}
    BY DEF Inv, TypeOK
  <2>2. CASE CamRelease
    <3>1. cam.pc = "flush" /\ session' \in {session, "good"}
          /\ cam' \in {[pc |-> "join", wait |-> ReleaseTimeout], [cam EXCEPT !.pc = "closed"]}
          /\ UNCHANGED <<backend, stream, proc, join, enabled, last, rep, halt, beat, row>>
      BY <2>2 DEF CamRelease, AskStop
    <3>2. [pc |-> "join", wait |-> ReleaseTimeout] \in Cam
      BY <1>1 DEF Cam
    <3>3. cam' \in Cam /\ cam'.pc \in {"join", "closed"}
      BY <2>1, <3>1, <3>2 DEF Cam
    <3>4. QED
      BY <2>1, <3>1, <3>3
  <2>3. CASE CamClose
    <3>1. cam' \in Cam /\ cam'.pc = "closed"
      BY <2>3, CamSet, NewThreads DEF CamClose
    <3>2. QED
      BY <2>3, <3>1 DEF CamClose, capture
  <2>4. QED
    BY <2>2, <2>3
<1>3. CaptureTypeOK'
  <2>1. src' \in Source /\ queued' \in 0 .. QueueSize
    BY <1>1, NoSourceType, SourceParts
       DEF CamRelease, CamClose, AskStop, capture, Inv, TypeOK, CaptureTypeOK, Source
  <2>2. QED
    BY <1>2, <2>1 DEF Inv, TypeOK, CaptureTypeOK
<1>4. TypeOK'
  BY <1>2, <1>3, Zenon DEF Inv, TypeOK
<1>5. HealthInv'
  BY <1>2 DEF Inv, HealthInv, LeaveIsTold, AnswerIsFresh, ReportsAreSound,
              HeartbeatMeansFrames, ViewsAgree, Status
<1>6. ReleaseInv'
  <2>1. CASE CamRelease /\ backend = "gst"
    <3>1. cam'.pc = "join" /\ cam'.wait = ReleaseTimeout /\ src'.stop
      BY <2>1, SourceParts DEF CamRelease, AskStop, Inv, TypeOK
    <3>2. QED
      BY <1>2, <2>1, <3>1 DEF ReleaseInv
  <2>2. CASE CamRelease /\ backend # "gst"
    <3>0. NoSource.pc = "off" /\ cam \in Cam
      BY DEF NoSource, Inv, TypeOK
    <3>1. cam'.pc = "closed" /\ src'.pc = "off"
      BY <2>2, <3>0 DEF CamRelease, Cam
    <3>2. QED
      BY <1>2, <2>2, <3>1 DEF ReleaseInv
  <2>3. CASE CamClose
    <3>1. cam'.pc = "closed" /\ UNCHANGED src
      BY <2>3, CamSet, NewThreads DEF CamClose, capture
    <3>2. backend = "gst" /\ src.stop /\ src.pc \in Still
      BY <2>3 DEF CamClose, Inv, ReleaseInv, Still
    <3>3. QED
      BY <1>2, <3>1, <3>2 DEF ReleaseInv
  <2>4. QED
    BY <2>1, <2>2, <2>3
<1>7. QED
  BY <1>4, <1>5, <1>6 DEF Inv

(***************************************************************************)
(* The reporter                                                            *)
(***************************************************************************)

(* After a report the reporter sleeps or, told to stop, is done.            *)
LEMMA RepNextType ==
  ASSUME NEW good \in BOOLEAN, RepNext(good)
  PROVE  /\ rep' \in Reporter
         /\ IF halt THEN rep'.pc = "done"
                    ELSE rep'.pc = "sleep" /\ rep'.wait = Interval /\ rep'.good = good
<1>1. CASE halt
  <2>1. NoReporter \in Reporter /\ rep' = [NoReporter EXCEPT !.pc = "done"]
    BY <1>1, NewThreads DEF RepNext
  <2>2. QED
    BY <1>1, <2>1 DEF Reporter
<1>2. CASE ~halt
  <2>1. rep' = [NoReporter EXCEPT !.pc = "sleep", !.wait = Interval, !.good = good]
    BY <1>2 DEF RepNext
  <2>2. QED
    BY <1>2, <2>1, RepSleeps
<1>3. QED
  BY <1>1, <1>2

(* A step of the reporter leaves the capture and the camera thread alone.   *)
RepFrame == UNCHANGED <<backend, stream, src, queued, proc, join, enabled, cam, last, halt>>

(* So what it says of the capture stays, and what it writes has its type.   *)
LEMMA RepTypes ==
  ASSUME Inv, RepFrame, rep' \in Reporter, beat' \in 0 .. HeartbeatTTL,
         session' \in {"good", "broken"}, row' \in {"unknown", "online", "offline"}
  PROVE  TypeOK' /\ LeaveIsTold' /\ ReleaseInv'
<1>1. CaptureTypeOK'
  BY DEF RepFrame, Inv, TypeOK, CaptureTypeOK
<1>2. TypeOK'
  BY <1>1, Zenon DEF RepFrame, Inv, TypeOK
<1>3. LeaveIsTold' /\ ReleaseInv'
  BY DEF RepFrame, Inv, HealthInv, LeaveIsTold, ReleaseInv
<1>4. QED
  BY <1>2, <1>3

(* The sleep is over: whether frames come is looked at.                     *)
LEMMA RepWakeInv == ASSUME Inv, RepWake PROVE Inv'
<1>1. /\ rep.pc = "sleep" /\ rep' = [rep EXCEPT !.pc = "beat", !.alive = IsAlive, !.good = FALSE]
      /\ RepFrame /\ UNCHANGED <<session, beat, row>>
  BY DEF RepWake, RepFrame, capture
<1>2. IsAlive \in BOOLEAN
  BY DEF IsAlive
<1>3. rep' \in Reporter /\ rep'.pc = "beat" /\ rep'.alive = IsAlive /\ ~rep'.good
  <2> DEFINE alive == IsAlive
  <2>1. rep \in Reporter /\ alive \in BOOLEAN
    BY <1>2 DEF Inv, TypeOK
  <2>2. rep' = [rep EXCEPT !.pc = "beat", !.alive = alive, !.good = FALSE]
    BY <1>1
  <2> HIDE DEF alive
  <2>3. rep' \in Reporter /\ rep'.pc = "beat" /\ rep'.alive = alive /\ ~rep'.good
    BY <2>1, <2>2 DEF Reporter
  <2>4. QED
    BY <2>3 DEF alive
<1>4. TypeOK' /\ LeaveIsTold' /\ ReleaseInv'
  <2>1. beat \in 0 .. HeartbeatTTL /\ session \in {"good", "broken"}
        /\ row \in {"unknown", "online", "offline"}
    BY DEF Inv, TypeOK
  <2>2. QED
    BY <1>1, <1>3, <2>1, RepTypes
<1>5. AnswerIsFresh'
  BY <1>1, <1>3 DEF AnswerIsFresh, IsAlive, RepFrame
<1>6. ReportsAreSound' /\ HeartbeatMeansFrames' /\ ViewsAgree'
  BY <1>1, <1>3 DEF Inv, HealthInv, ReportsAreSound, HeartbeatMeansFrames, ViewsAgree, RepFrame
<1>7. QED
  BY <1>4, <1>5, <1>6 DEF Inv, HealthInv

(* A report that fails, and what follows for the key and the row.           *)
LEMMA RepFailsInv ==
  ASSUME Inv, RepFrame, RepNext(FALSE), UNCHANGED <<beat, row>>,
         session' \in {session, "broken"}
  PROVE  Inv'
<1>1. rep' \in Reporter /\ rep'.pc \in {"sleep", "done"} /\ (rep'.pc = "sleep" => ~rep'.good)
  BY RepNextType
<1>2. TypeOK' /\ LeaveIsTold' /\ ReleaseInv'
  <2>1. beat \in 0 .. HeartbeatTTL /\ session \in {"good", "broken"}
        /\ row \in {"unknown", "online", "offline"}
    BY DEF Inv, TypeOK
  <2>2. QED
    BY <1>1, <2>1, RepTypes
<1>3. AnswerIsFresh' /\ ReportsAreSound' /\ ViewsAgree'
  BY <1>1 DEF AnswerIsFresh, ReportsAreSound, ViewsAgree
<1>4. HeartbeatMeansFrames'
  BY DEF Inv, HealthInv, HeartbeatMeansFrames, RepFrame
<1>5. QED
  BY <1>2, <1>3, <1>4 DEF Inv, HealthInv

(* The key: set only if frames came within two intervals.                   *)
LEMMA RepBeatInv == ASSUME Inv, RepBeat PROVE Inv'
<1>1. rep.pc = "beat" /\ RepFrame /\ UNCHANGED <<session, row>>
  BY DEF RepBeat, RepFrame, capture
<1>2. CASE RepNext(FALSE) /\ UNCHANGED beat
  BY <1>1, <1>2, RepFailsInv
<1>3. CASE /\ beat' = IF rep.alive THEN HeartbeatTTL ELSE 0
           /\ rep' = [rep EXCEPT !.pc = "row"]
  <2>1. rep' \in Reporter /\ rep'.pc = "row" /\ rep'.alive = rep.alive /\ rep'.good = rep.good
    BY <1>3 DEF Inv, TypeOK, Reporter
  <2>2. TypeOK' /\ LeaveIsTold' /\ ReleaseInv'
    <3>1. beat' \in 0 .. HeartbeatTTL /\ session \in {"good", "broken"}
          /\ row \in {"unknown", "online", "offline"}
      BY <1>3 DEF Inv, TypeOK
    <3>2. QED
      BY <1>1, <2>1, <3>1, RepTypes
  <2>3. AnswerIsFresh' /\ ReportsAreSound' /\ ViewsAgree'
    BY <1>1, <1>3, <2>1 DEF Inv, HealthInv, AnswerIsFresh, ReportsAreSound, ViewsAgree
  <2>4. HeartbeatMeansFrames'
    BY <1>1, <1>3, ThreadParts
       DEF Inv, HealthInv, AnswerIsFresh, HeartbeatMeansFrames, RepFrame
  <2>5. QED
    BY <2>2, <2>3, <2>4 DEF Inv, HealthInv
<1>4. QED
  BY <1>2, <1>3 DEF RepBeat

(* The row.                                                                 *)
LEMMA RepRowInv == ASSUME Inv, RepRow PROVE Inv'
<1>1. rep.pc = "row" /\ RepFrame /\ UNCHANGED beat
  BY DEF RepRow, RepFrame, capture
<1>2. CASE RepNext(FALSE) /\ session' \in {session, "broken"} /\ UNCHANGED row
  BY <1>1, <1>2, RepFailsInv
<1>3. CASE /\ row' = Status /\ rep' = [rep EXCEPT !.pc = "tell"] /\ UNCHANGED session
  <2>1. rep' \in Reporter /\ rep'.pc = "tell" /\ rep'.alive = rep.alive /\ rep'.good = rep.good
    BY <1>3 DEF Inv, TypeOK, Reporter
  <2>2. TypeOK' /\ LeaveIsTold' /\ ReleaseInv'
    <3>1. beat \in 0 .. HeartbeatTTL /\ session' \in {"good", "broken"}
          /\ row' \in {"unknown", "online", "offline"}
      BY <1>3 DEF Inv, TypeOK, Status
    <3>2. QED
      BY <1>1, <2>1, <3>1, RepTypes
  <2>3. AnswerIsFresh' /\ ReportsAreSound' /\ ViewsAgree'
    BY <1>1, <1>3, <2>1
       DEF Inv, HealthInv, AnswerIsFresh, ReportsAreSound, ViewsAgree, Status, RepFrame
  <2>4. HeartbeatMeansFrames'
    BY <1>1 DEF Inv, HealthInv, HeartbeatMeansFrames, RepFrame
  <2>5. QED
    BY <2>2, <2>3, <2>4 DEF Inv, HealthInv
<1>4. QED
  BY <1>2, <1>3 DEF RepRow

(* A completed report: the key is there exactly if the row says online, and *)
(* lives longer than the sleep.                                             *)
LEMMA RepTellInv == ASSUME Inv, RepTell PROVE Inv'
<1> SUFFICES ASSUME NEW good \in BOOLEAN, RepNext(good) PROVE Inv'
  BY DEF RepTell
<1>1. rep.pc = "tell" /\ RepFrame /\ UNCHANGED <<session, beat, row>>
  BY DEF RepTell, RepFrame, capture
<1>2. /\ rep' \in Reporter
      /\ IF halt THEN rep'.pc = "done"
                 ELSE rep'.pc = "sleep" /\ rep'.wait = Interval /\ rep'.good = good
  BY RepNextType
<1>3. TypeOK' /\ LeaveIsTold' /\ ReleaseInv'
  <2>1. beat \in 0 .. HeartbeatTTL /\ session \in {"good", "broken"}
        /\ row \in {"unknown", "online", "offline"}
    BY DEF Inv, TypeOK
  <2>2. QED
    BY <1>1, <1>2, <2>1, RepTypes
<1>4. ~halt => (beat = IF rep.alive THEN HeartbeatTTL ELSE 0) /\ row = Status
  BY <1>1 DEF Inv, HealthInv, ReportsAreSound
<1>5. AnswerIsFresh' /\ ReportsAreSound'
  BY <1>1, <1>2, <1>4 DEF AnswerIsFresh, ReportsAreSound, RepFrame
<1>6. ViewsAgree'
  BY <1>1, <1>2, <1>4 DEF ViewsAgree, Status, RepFrame
<1>7. HeartbeatMeansFrames'
  BY <1>1 DEF Inv, HealthInv, HeartbeatMeansFrames, RepFrame
<1>8. QED
  BY <1>3, <1>5, <1>6, <1>7 DEF Inv, HealthInv

(***************************************************************************)
(* Time                                                                    *)
(***************************************************************************)

(* A tick: no report is under way, release() waits for a capture that has   *)
(* seen its stop, and the key gets older with the frame.                    *)
LEMMA TickInv == ASSUME Inv, Tick PROVE Inv'
<1>0. TypeOK /\ CaptureTypeOK
  BY DEF Inv, TypeOK
<1>1. ~Busy /\ src' = Slept /\ join' = Less(join) /\ beat' = Less(beat)
      /\ cam' = [cam EXCEPT !.wait = Less(@)] /\ rep' = [rep EXCEPT !.wait = Less(@)]
      /\ last' = (IF last = None THEN None ELSE Min({last + 1, MaxAge}))
      /\ UNCHANGED <<backend, stream, queued, proc, enabled, session, halt, row>>
  BY DEF Tick
<1>2. CaptureTypeOK' /\ src'.stop = src.stop /\ src'.pc = src.pc
  BY <1>0, <1>1, SleptType DEF CaptureTypeOK
<1>3. /\ cam' \in Cam /\ cam'.pc = cam.pc /\ cam'.wait = (IF cam.wait = 0 THEN 0 ELSE cam.wait - 1)
  <2> DEFINE w == Less(cam.wait)
  <2>1. cam.wait \in 0 .. ReleaseTimeout /\ cam \in Cam
    BY <1>0, ThreadParts DEF TypeOK
  <2>2. w = IF cam.wait = 0 THEN 0 ELSE cam.wait - 1
    BY <2>1, LessIs
  <2>3. cam' = [cam EXCEPT !.wait = w]
    BY <1>1
  <2> HIDE DEF w
  <2>4. w \in 0 .. ReleaseTimeout
    BY <2>1, <2>2
  <2>5. cam' \in Cam /\ cam'.pc = cam.pc /\ cam'.wait = w
    BY <2>1, <2>3, <2>4 DEF Cam
  <2>6. QED
    BY <2>2, <2>5
<1>4. /\ rep' \in Reporter /\ rep'.pc = rep.pc /\ rep'.alive = rep.alive /\ rep'.good = rep.good
      /\ rep'.wait = (IF rep.wait = 0 THEN 0 ELSE rep.wait - 1)
  <2> DEFINE w == Less(rep.wait)
  <2>1. rep.wait \in 0 .. Interval /\ rep \in Reporter
    BY <1>0, ThreadParts DEF TypeOK
  <2>2. w = IF rep.wait = 0 THEN 0 ELSE rep.wait - 1
    BY <2>1, LessIs
  <2>3. rep' = [rep EXCEPT !.wait = w]
    BY <1>1
  <2> HIDE DEF w
  <2>4. w \in 0 .. Interval
    BY <2>1, <2>2
  <2>5. rep' \in Reporter /\ rep'.pc = rep.pc /\ rep'.alive = rep.alive /\ rep'.good = rep.good
        /\ rep'.wait = w
    BY <2>1, <2>3, <2>4 DEF Reporter
  <2>6. QED
    BY <2>2, <2>5
<1>5. beat' = (IF beat = 0 THEN 0 ELSE beat - 1) /\ beat' \in 0 .. HeartbeatTTL
  BY <1>0, <1>1, ThreadParts, LessIs
<1>6. join' \in 0 .. JoinTimeout
  <2>1. join \in 0 .. JoinTimeout
    BY <1>0 DEF TypeOK
  <2>2. QED
    BY <1>1, <2>1, LessIs
<1>7. /\ last = None => last' = None
      /\ last # None => /\ last \in 0 .. MaxAge /\ last' \in 0 .. MaxAge
                        /\ last' <= last + 1
  <2>1. CASE last = None
    BY <1>1, <2>1
  <2>2. CASE last # None
    <3>1. last \in 0 .. MaxAge /\ MaxAge \in Nat
      BY <1>0, <2>2, ThreadParts, Bounds
    <3>2. last' = Min({last + 1, MaxAge})
      BY <1>1, <2>2
    <3> HIDE DEF HealthAssumption, CaptureAssumption
    <3>3. last' = IF last + 1 <= MaxAge THEN last + 1 ELSE MaxAge
      BY <3>1, <3>2, MinPair
    <3>4. QED
      BY <2>2, <3>1, <3>3
  <2>3. QED
    BY <2>1, <2>2
<1>8. TypeOK'
  <2>1. last' \in 0 .. MaxAge \cup {None}
    BY <1>7
  <2>2. proc' \in {"down", "up", "stopping"} /\ enabled' \in BOOLEAN
        /\ session' \in {"good", "broken"} /\ halt' \in BOOLEAN
        /\ row' \in {"unknown", "online", "offline"}
    BY <1>0, <1>1 DEF TypeOK
  <2>3. QED
    BY <1>2, <1>3, <1>4, <1>5, <1>6, <2>1, <2>2, Zenon DEF TypeOK
<1>9. rep.pc \notin {"beat", "row", "tell"} /\ (rep.pc = "sleep" => rep.wait # 0)
      /\ (cam.pc = "join" => cam.wait # 0 /\ src.pc \notin {"ended", "dead"})
  BY <1>1 DEF Busy
<1>10. LeaveIsTold' /\ AnswerIsFresh'
  BY <1>1, <1>3, <1>4, <1>9 DEF Inv, HealthInv, LeaveIsTold, AnswerIsFresh
<1>11. HeartbeatMeansFrames'
  <2>1. beat \in 0 .. HeartbeatTTL
    BY <1>0, ThreadParts
  <2>2. SUFFICES ASSUME beat' > 0, last' # None
                 PROVE  last' < 2 * Interval + HeartbeatTTL - beat'
    BY DEF HeartbeatMeansFrames
  <2>3. last # None /\ beat > 0 /\ beat' = beat - 1
    BY <1>5, <1>7, <2>1, <2>2
  <2>4. last < 2 * Interval + HeartbeatTTL - beat
    BY <2>3 DEF Inv, HealthInv, HeartbeatMeansFrames
  <2>5. last \in Nat /\ last' \in Nat /\ last' <= last + 1
    BY <1>7, <2>3
  <2>6. QED
    BY <2>1, <2>3, <2>4, <2>5
<1>12. ReportsAreSound' /\ ViewsAgree'
  <2>1. CASE rep.pc = "sleep" /\ rep.good /\ ~halt
    <3>1. beat = 0 \/ beat > rep.wait
      BY <2>1 DEF Inv, HealthInv, ReportsAreSound
    <3>2. beat \in Nat /\ rep.wait \in Nat /\ rep.wait # 0
      BY <1>0, <1>9, <2>1, ThreadParts
    <3>3. beat' = 0 \/ beat' > rep'.wait
      BY <1>4, <1>5, <3>1, <3>2
    <3>4. beat > 0 <=> beat' > 0
      BY <1>5, <3>1, <3>2
    <3>5. ReportsAreSound'
      BY <1>1, <1>4, <2>1, <3>3 DEF ReportsAreSound
    <3>6. ViewsAgree'
      BY <1>1, <1>4, <2>1, <3>4 DEF Inv, HealthInv, ViewsAgree
    <3>7. QED
      BY <3>5, <3>6
  <2>2. CASE ~(rep.pc = "sleep" /\ rep.good /\ ~halt)
    BY <1>1, <1>4, <1>9, <2>2 DEF ReportsAreSound, ViewsAgree
  <2>3. QED
    BY <2>1, <2>2
<1>13. ReleaseInv'
  <2>1. cam.pc = "join" => src.pc \in Still
    BY <1>0, <1>1, SourceParts DEF Busy, CaptureBusy, Still, Inv, ReleaseInv
  <2>2. QED
    BY <1>1, <1>2, <1>3, <2>1 DEF Inv, ReleaseInv
<1>14. QED
  BY <1>8, <1>10, <1>11, <1>12, <1>13 DEF Inv, HealthInv

(***************************************************************************)
(* The theorems                                                            *)
(***************************************************************************)

(* Every step keeps the invariant.                                          *)
LEMMA NextInv == Inv /\ [Next]_vars => Inv'
<1> SUFFICES ASSUME Inv, [Next]_vars PROVE Inv'
  OBVIOUS
<1>1. CASE CamStep
  BY <1>1, CamFrameInv, CamDetectInv, CamMarkInv, CamReleaseInv DEF CamStep
<1>2. CASE RepStep
  BY <1>2, RepWakeInv, RepBeatInv, RepRowInv, RepTellInv DEF RepStep
<1>3. CASE Environment \/ CaptureStep \/ CvReads \/ \E ok \in BOOLEAN : GstPulled(ok)
  BY <1>3, CaptureStepInv
<1>4. CASE Patch \/ Start \/ Shutdown \/ Exit \/ Kill
  BY <1>4, ProcessInv
<1>5. CASE Tick
  BY <1>5, TickInv
<1>6. CASE UNCHANGED vars
  <2>1. CaptureMoves
    BY <1>6 DEF vars, capture, CaptureMoves, Inv, TypeOK, CaptureTypeOK
  <2>2. UNCHANGED health /\ UNCHANGED src
    BY <1>6 DEF vars, capture
  <2>3. QED
    BY <2>1, <2>2, CaptureInv
<1>7. QED
  BY <1>1, <1>2, <1>3, <1>4, <1>5, <1>6 DEF Next

(* The invariant holds in every state.                                      *)
LEMMA SpecInv == Spec => []Inv
  BY InitInv, NextInv, PTL DEF Spec

(* The key of a camera that delivered a frame once is never older than its  *)
(* frames allow, and after a completed report the row and the key agree     *)
(* until the next: for every interval, TTL and delay, wherever threads,     *)
(* Redis and PostgreSQL fail.                                               *)
THEOREM StatusHolds == Spec => []StatusIsTruthful
<1>1. Inv => StatusIsTruthful
  BY DEF Inv, HealthInv, StatusIsTruthful
<1>2. QED
  BY <1>1, SpecInv, PTL

(* A camera thread that is through has let go of the camera.                *)
THEOREM StreamReleased == Spec => []StreamIsReleased
<1>1. Inv => StreamIsReleased
  BY DEF Inv, ReleaseInv, StreamIsReleased, Still
<1>2. QED
  BY <1>1, SpecInv, PTL
=============================================================================
