---------------------------- MODULE StreamCapture ----------------------------
(***************************************************************************)
(* One camera's frames: GStreamer in a thread of its own, which feeds a    *)
(* bounded queue, or OpenCV inside the camera thread.  CameraHealth        *)
(* composes it with the camera thread, the reporter and the process.       *)
(* Time is counted in ticks.                                               *)
(***************************************************************************)
EXTENDS Integers, FiniteSetsExt

CONSTANTS
  Sample,          \* one frame of so many is kept
  QueueSize,       \* frames the queue holds
  ReconnectDelay,  \* delay after a failed open, and per error in a row
  MaxBackoff,      \* longest delay after errors
  ReadFailures     \* failed reads in a row before OpenCV opens again

VARIABLES
  backend,  \* what make_capture chose when it was imported
  stream,   \* the camera answers
  src,      \* the capture: pc, errs (in a row), wait (ticks to sleep), n
            \* (frame_count modulo Sample), stop
  queued    \* frames waiting for the camera thread

capture == <<backend, stream, src, queued>>

ASSUME CaptureAssumption ==
  /\ Sample \in Nat \ {0} /\ QueueSize \in Nat \ {0} /\ ReadFailures \in Nat \ {0}
  /\ ReconnectDelay \in Nat \ {0} /\ MaxBackoff \in Nat

(* Errors beyond these lengthen no delay.                                   *)
ErrCap == Max({MaxBackoff, ReadFailures - 1})

(* play: pictures arrive; broken: they no longer will; dead: the thread was *)
(* killed by an exception outside its try; ended: it saw the stop.          *)
Source == [pc: {"off", "build", "play", "broken", "wait", "dead", "ended"},
           errs: 0 .. ErrCap, wait: 0 .. Max({MaxBackoff, ReconnectDelay}),
           n: 0 .. Sample - 1, stop: BOOLEAN]

NoSource == [pc |-> "off", errs |-> 0, wait |-> 0, n |-> 0, stop |-> FALSE]

CaptureTypeOK ==
  /\ backend \in {"gst", "opencv"} /\ stream \in BOOLEAN
  /\ src \in Source
  /\ queued \in 0 .. QueueSize

CaptureInit ==
  /\ backend \in {"gst", "opencv"}
  /\ stream \in BOOLEAN
  /\ src = NoSource /\ queued = 0

CaptureStart ==
  /\ src' = [NoSource EXCEPT !.pc = "build"]
  /\ UNCHANGED <<backend, stream, queued>>

(* The camera or the network.  A pipeline that lost its stream stays so.    *)
StreamDrops ==
  /\ stream /\ stream' = FALSE
  /\ src' = [src EXCEPT !.pc = IF @ = "play" THEN "broken" ELSE @]
  /\ UNCHANGED <<backend, queued>>

StreamReturns ==
  /\ ~stream /\ stream' = TRUE
  /\ UNCHANGED <<backend, src, queued>>

(***************************************************************************)
(* GstCapture._run                                                         *)
(***************************************************************************)

(* The delay grows with the errors in a row.                                *)
Backoff(errs) == Min({ReconnectDelay * errs, MaxBackoff})

BugReconnect(errs) ==
  /\ src' = [src EXCEPT !.pc = IF src.stop \/ errs > 0 THEN "ended" ELSE "wait",
                        !.errs = Min({errs, ErrCap}), !.wait = Backoff(errs)]
  /\ UNCHANGED <<backend, stream, queued>>

(* To the next pipeline, or out of the loop when asked to stop.             *)
Reconnect(errs) ==
  /\ src' = [src EXCEPT !.pc = IF src.stop THEN "ended" ELSE "wait",
                        !.errs = Min({errs, ErrCap}), !.wait = Backoff(errs)]
  /\ UNCHANGED <<backend, stream, queued>>

(* Building the pipeline is outside the try: an exception ends the thread.  *)
GstBuild ==
  /\ backend = "gst" /\ src.pc = "build"
  /\ \E pc \in {IF stream THEN "play" ELSE "broken", "dead"} :
       src' = [src EXCEPT !.pc = IF src.stop THEN "ended" ELSE pc]
  /\ UNCHANGED <<backend, stream, queued>>

(* A sample was pulled.  One in Sample is mapped and put into the queue; it *)
(* is dropped, the newest, when the queue is full.                          *)
GstPull(mapped) ==
  LET n == (src.n + 1) % Sample IN
  /\ backend = "gst" /\ src.pc = "play" /\ ~src.stop
  /\ src' = [src EXCEPT !.n = n, !.errs = IF n = 0 /\ mapped THEN 0 ELSE @]
  /\ queued' = IF n = 0 /\ mapped /\ queued < QueueSize THEN queued + 1 ELSE queued
  /\ UNCHANGED <<backend, stream>>

(* An exception while a sample is converted.                                *)
GstError ==
  /\ backend = "gst" /\ src.pc = "play" /\ ~src.stop
  /\ Reconnect(src.errs + 1)

(* End of stream or an error on the bus: not counted as an error.           *)
GstMessage ==
  /\ backend = "gst" /\ src.pc = "broken"
  /\ Reconnect(src.errs)

(* Both loops test the stop.                                                *)
GstStopped ==
  /\ backend = "gst" /\ src.stop /\ src.pc \in {"play", "broken"}
  /\ src' = [src EXCEPT !.pc = "ended"]
  /\ UNCHANGED <<backend, stream, queued>>

(* The sleep before the next attempt is over.                               *)
Wake ==
  /\ src.pc = "wait" /\ src.wait = 0
  /\ src' = [src EXCEPT !.pc = IF src.stop THEN "ended" ELSE "build"]
  /\ UNCHANGED <<backend, stream, queued>>

(***************************************************************************)
(* StreamCapture.frames, run by the camera thread                          *)
(***************************************************************************)

CvOpen ==
  /\ backend = "opencv" /\ src.pc = "build"
  /\ src' = IF stream THEN [src EXCEPT !.pc = "play", !.errs = 0]
                      ELSE [src EXCEPT !.pc = "wait", !.wait = ReconnectDelay]
  /\ UNCHANGED <<backend, stream, queued>>

(* A frame was read; one in Sample is handed over.                          *)
CvRead ==
  LET n == (src.n + 1) % Sample IN
  /\ backend = "opencv" /\ src.pc = "play" /\ queued = 0
  /\ src' = [src EXCEPT !.n = n, !.errs = 0]
  /\ queued' = IF n = 0 THEN 1 ELSE 0
  /\ UNCHANGED <<backend, stream>>

(* A read failed, also of a stream that answers; too many open it again.    *)
CvReadFails ==
  /\ backend = "opencv" /\ src.pc \in {"play", "broken"} /\ queued = 0
  /\ src' = IF src.errs + 1 >= ReadFailures THEN [src EXCEPT !.pc = "build"]
                                            ELSE [src EXCEPT !.errs = @ + 1]
  /\ UNCHANGED <<backend, stream, queued>>

(* Frames are taken in order; the taker leaves the loop or goes on.         *)
TakeFrame ==
  /\ queued > 0
  /\ queued' = queued - 1
  /\ UNCHANGED <<backend, stream, src>>

BugAskStop == UNCHANGED capture

(* release() asks GStreamer's thread to stop.                               *)
AskStop ==
  /\ src' = [src EXCEPT !.stop = TRUE]
  /\ UNCHANGED <<backend, stream, queued>>

GstStep == GstBuild \/ GstMessage \/ GstStopped \/ (backend = "gst" /\ Wake)
CvStep == CvOpen \/ (backend = "opencv" /\ Wake)

(* What a thread does at once: time does not pass before it.                *)
CaptureBusy ==
  \/ src.pc = "build" \/ (src.pc = "wait" /\ src.wait = 0)
  \/ src.stop /\ src.pc \in {"play", "broken"}

Slept == [src EXCEPT !.wait = Max({@ - 1, 0})]
=============================================================================
