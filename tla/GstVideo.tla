------------------------------ MODULE GstVideo ------------------------------
(***************************************************************************)
(* The GStreamer decoder of one video stream (channel-display-gst.c).      *)
(*                                                                         *)
(* Frames are queued by the channel's coroutine, which runs on the main    *)
(* thread; the pipeline decodes them on its own thread and calls           *)
(* new_sample; both threads run schedule_frame, under queues_mutex; a      *)
(* timer of the main loop draws.  The decoder, and the appsink that keeps  *)
(* decoded samples until they are pulled, are external.                    *)
(*                                                                         *)
(* Whether a frame is late is left open: the mm-time clock may be reset.   *)
(***************************************************************************)
EXTENDS Integers, Sequences

CONSTANTS
  NFrames,  \* bound: frames of the stream
  MaxResets \* bound: resets of the mm-time clock

GstVideoAssumption == NFrames \in Nat /\ MaxResets \in Nat

Frames == 1 .. NFrames
None == 0        \* no frame, no timer, no thread; frames count from 1
Odd == NFrames + 1 \* a buffer whose PTS is that of no frame
MaxBuffers == 2  \* gst_app_sink_set_max_buffers
Main == 1        \* the main thread
Gst == 2         \* the streaming thread of the pipeline

VARIABLES
  pipeline,        \* "playing", or "freed" after an error
  overlay,         \* win_handle: the pipeline draws itself, there is no appsink
  stream,          \* "alive", then "destroyed"
  encoded, appsink, \* buffers to decode, samples to pull
  decoding_queue, display_frame, pending_samples,
  timer_id, sources, \* the id kept, the ids of timers that are attached
  lock, pc,        \* queues_mutex, where both threads are
  local,           \* the frame, or the timer, that the main thread holds
  queued, shown,   \* frames received, frames drawn
  resets

queues == <<decoding_queue, display_frame, pending_samples>>
timers == <<timer_id, sources>>
pipe == <<pipeline, overlay, encoded, appsink>>
vars == <<queues, timers, pipe, stream, lock, pc, local, queued, shown, resets>>

TypeOK ==
  /\ pipeline \in {"playing", "freed"} /\ overlay \in BOOLEAN
  /\ stream \in {"alive", "destroyed"}
  /\ encoded \in Seq(Frames) /\ appsink \in Seq(Frames \union {Odd})
  /\ Len(appsink) <= MaxBuffers
  /\ decoding_queue \in Seq(Frames)
  /\ display_frame \in Frames \union {None} /\ pending_samples \in 0 .. MaxBuffers
  /\ timer_id \in 0 .. 2 /\ sources \subseteq 1 .. 2
  /\ lock \in {None, Main, Gst}
  /\ pc \in [{Main, Gst} -> {"idle", "take", "draw", "reset", "remove",
                             "new_sample", "enter", "in"}]
  /\ local \in 0 .. NFrames + 2
  /\ queued \in 0 .. NFrames /\ shown \in Seq(Frames) /\ resets \in 0 .. MaxResets

(* create_gstreamer_decoder; a pipeline that cannot start leaves no stream. *)
Init ==
  /\ pipeline = "playing" /\ overlay \in BOOLEAN /\ stream = "alive"
  /\ encoded = <<>> /\ appsink = <<>>
  /\ decoding_queue = <<>> /\ display_frame = None /\ pending_samples = 0
  /\ timer_id = None /\ sources = {}
  /\ lock = None /\ pc = [t \in {Main, Gst} |-> "idle"] /\ local = None
  /\ queued = 0 /\ shown = <<>> /\ resets = 0

-----------------------------------------------------------------------------
Idle == stream = "alive" /\ pc[Main] = "idle"
Goto(t, where) == pc' = [pc EXCEPT ![t] = where]

(* free_pipeline: the state change waits for the streaming thread, and the  *)
(* last reference to the appsink goes with its samples.                     *)
FreePipeline ==
  /\ pc[Gst] = "idle"
  /\ pipeline' = "freed" /\ encoded' = <<>> /\ appsink' = <<>>
  /\ UNCHANGED overlay

(* spice_gst_decoder_destroy *)
Destroy ==
  /\ IF pipeline = "playing" THEN FreePipeline ELSE UNCHANGED pipe
  /\ stream' = "destroyed"
  /\ sources' = sources \ {timer_id} /\ timer_id' = None
  /\ decoding_queue' = <<>> /\ display_frame' = None /\ pending_samples' = 0

(* spice_gst_decoder_queue_frame: a late MJPEG frame or an empty one is     *)
(* dropped, and so is one before playbin has made its appsrc; after an      *)
(* error the channel destroys the stream.  The push may fail.               *)
QueueFrame ==
  /\ Idle /\ queued < NFrames /\ queued' = queued + 1
  /\ IF pipeline = "freed"
       THEN Destroy
       ELSE /\ \/ UNCHANGED <<queues, pipe>>
               \/ /\ lock = None
                  /\ decoding_queue' = IF overlay THEN decoding_queue
                                       ELSE Append(decoding_queue, queued')
                  /\ encoded' \in {Append(encoded, queued'), encoded}
                  /\ UNCHANGED <<display_frame, pending_samples, pipeline,
                                 overlay, appsink>>
            /\ UNCHANGED <<stream, timers>>
  /\ UNCHANGED <<lock, pc, local, shown, resets>>

(* display_handle_stream_destroy and the resets of the channel *)
StreamDestroy ==
  /\ Idle /\ Destroy
  /\ UNCHANGED <<lock, pc, local, queued, shown, resets>>

(* handle_pipeline_message, GST_MESSAGE_ERROR *)
PipelineError ==
  /\ Idle /\ pipeline = "playing" /\ FreePipeline
  /\ UNCHANGED <<queues, timers, stream, lock, pc, local, queued, shown, resets>>

-----------------------------------------------------------------------------
(* The streaming thread decodes a buffer: into one sample, into none, into  *)
(* an older one once more, or into one whose PTS is unknown.  It waits      *)
(* while the appsink is full, and drops nothing there.  A sink that draws   *)
(* has no callback.                                                         *)
Decode ==
  /\ pc[Gst] = "idle" /\ pipeline = "playing" /\ encoded # <<>>
  /\ encoded' = Tail(encoded)
  /\ \/ UNCHANGED <<appsink, pc>>
     \/ /\ ~overlay /\ Len(appsink) < MaxBuffers
        /\ \E s \in 1 .. Head(encoded) \union {Odd} : appsink' = Append(appsink, s)
        /\ Goto(Gst, "new_sample")
  /\ UNCHANGED <<queues, timers, pipeline, overlay, stream, lock, local, queued,
                 shown, resets>>

(* new_sample *)
NoNeed == timer_id # None /\ display_frame # None
NewSample ==
  /\ pc[Gst] = "new_sample" /\ lock = None
  /\ pending_samples' = pending_samples + 1
  /\ Goto(Gst, IF NoNeed THEN "idle" ELSE "enter")
  /\ UNCHANGED <<decoding_queue, display_frame, timers, pipe, stream, lock,
                 local, queued, shown, resets>>

-----------------------------------------------------------------------------
(* schedule_frame, from either thread: the lock is held from ScheduleLock   *)
(* to Scheduled, and the loop in between fetches and decides.               *)
ScheduleLock(t) ==
  /\ pc[t] = "enter" /\ lock = None
  /\ lock' = t /\ Goto(t, "in")
  /\ UNCHANGED <<queues, timers, pipe, stream, local, queued, shown, resets>>

Fetching(t) == /\ pc[t] = "in" /\ timer_id = None
               /\ display_frame = None /\ pending_samples > 0

(* fetch_pending_sample.  The pull waits for a sample; once the pipeline is *)
(* freed what it finds is undefined: at best a sink that is flushing, and   *)
(* then no sample.  Frames older than the one that matches were dropped by  *)
(* the pipeline; a sample that matches none is dropped itself.              *)
OnlyMatched(pending, matched) == IF matched THEN pending - 1 ELSE pending
Fetched(pending, matched) == pending - 1
Place(f, q) == CHOOSE k \in DOMAIN q : q[k] = f
UpToBefore(f, q) == SubSeq(q, Place(f, q), Len(q))
UpTo(f, q) == SubSeq(q, Place(f, q) + 1, Len(q))
Fetch(t) ==
  /\ Fetching(t)
  /\ \/ /\ pipeline = "playing" /\ appsink # <<>>
        /\ appsink' = Tail(appsink)
        /\ LET s == Head(appsink)
               matched == \E k \in DOMAIN decoding_queue : decoding_queue[k] = s
           IN
           /\ pending_samples' = Fetched(pending_samples, matched)
           /\ IF matched
             THEN /\ display_frame' = s
                  /\ decoding_queue' = UpTo(s, decoding_queue)
             ELSE UNCHANGED <<display_frame, decoding_queue>>
     \/ /\ pipeline = "freed"
        /\ pending_samples' = 0
        /\ UNCHANGED <<appsink, display_frame, decoding_queue>>
  /\ UNCHANGED <<timers, pipeline, overlay, encoded, stream, lock, pc, local,
                 queued, shown, resets>>

NewTimer == CHOOSE i \in 1 .. 2 : i \notin sources

(* The frame is on time, or late and the only one: a timer will draw it.    *)
SetTimer(t) ==
  /\ pc[t] = "in" /\ timer_id = None /\ display_frame # None
  /\ timer_id' = NewTimer /\ sources' = sources \union {NewTimer}
  /\ UNCHANGED <<queues, pipe, stream, lock, pc, local, queued, shown, resets>>

(* It is late, and another is ready: it is dropped.                         *)
DropLate(t) ==
  /\ pc[t] = "in" /\ timer_id = None /\ display_frame # None
  /\ pending_samples > 0
  /\ display_frame' = None
  /\ UNCHANGED <<decoding_queue, pending_samples, timers, pipe, stream, lock,
                 pc, local, queued, shown, resets>>

Scheduled(t) ==
  /\ pc[t] = "in"
  /\ \/ timer_id # None
     \/ display_frame = None /\ pending_samples = 0
  /\ lock' = None /\ Goto(t, "idle")
  /\ UNCHANGED <<queues, timers, pipe, stream, local, queued, shown, resets>>

-----------------------------------------------------------------------------
(* display_frame: the timer fires, takes the frame under the lock, draws it *)
(* without it (stream_display_frame) and schedules the next.                *)
TimerFires ==
  /\ Idle /\ \E i \in sources : sources' = sources \ {i}
  /\ Goto(Main, "take")
  /\ UNCHANGED <<queues, timer_id, pipe, stream, lock, local, queued, shown,
                 resets>>

TakeFrame ==
  /\ pc[Main] = "take" /\ lock = None
  /\ timer_id' = None /\ local' = display_frame /\ display_frame' = None
  /\ Goto(Main, IF display_frame = None THEN "idle" ELSE "draw")
  /\ UNCHANGED <<decoding_queue, pending_samples, sources, pipe, stream, lock,
                 queued, shown, resets>>

AfterDrawIdle == "idle"
AfterDraw == "enter"
Draw ==
  /\ pc[Main] = "draw"
  /\ shown' = Append(shown, local) /\ local' = None
  /\ Goto(Main, AfterDraw)
  /\ UNCHANGED <<queues, timers, pipe, stream, lock, queued, resets>>

(* spice_gst_decoder_reschedule: the mm-time clock was reset.               *)
Reschedule ==
  /\ Idle /\ ~overlay /\ resets < MaxResets
  /\ resets' = resets + 1 /\ Goto(Main, "reset")
  /\ UNCHANGED <<queues, timers, pipe, stream, lock, local, queued, shown>>

TakeTimer ==
  /\ pc[Main] = "reset" /\ lock = None
  /\ local' = timer_id /\ timer_id' = None /\ Goto(Main, "remove")
  /\ UNCHANGED <<queues, sources, pipe, stream, lock, queued, shown, resets>>

KeptTimer(ids) == ids
Removed(ids) == ids \ {local}
RemoveTimer ==
  /\ pc[Main] = "remove"
  /\ sources' = Removed(sources) /\ local' = None /\ Goto(Main, "enter")
  /\ UNCHANGED <<queues, timer_id, pipe, stream, lock, queued, shown, resets>>

-----------------------------------------------------------------------------
Schedule(t) == ScheduleLock(t) \/ Fetch(t) \/ SetTimer(t) \/ DropLate(t) \/ Scheduled(t)
GstThread == Decode \/ NewSample \/ Schedule(Gst)
Finish == TakeFrame \/ Draw \/ TakeTimer \/ RemoveTimer \/ Schedule(Main)
Next == QueueFrame \/ StreamDestroy \/ PipelineError \/ Reschedule
          \/ TimerFires \/ Finish \/ GstThread

(* Both threads run on, and the main loop dispatches its timers.            *)
Fairness == WF_vars(GstThread) /\ WF_vars(Finish) /\ WF_vars(TimerFires)
Spec == Init /\ [][Next]_vars /\ Fairness

-----------------------------------------------------------------------------
(* gst_app_sink_pull_sample waits for a sample, and does so with            *)
(* queues_mutex held: the client would freeze.  pending_samples counts the  *)
(* samples of the appsink but the one whose new_sample has not run.         *)
PullNeverWaits ==
  /\ pipeline = "playing" =>
       pending_samples = Len(appsink) - (IF pc[Gst] = "new_sample" THEN 1 ELSE 0)
  /\ lock = None \/ pc[lock] = "in"

(* A timer always has a frame to draw, and there is one timer: timer_id,    *)
(* but for the one that fires, and the one that a reset of the clock        *)
(* has taken and not removed yet.                                           *)
OneTimer ==
  /\ timer_id # None => display_frame # None
  /\ sources \subseteq {timer_id} \union (IF pc[Main] = "remove" THEN {local} ELSE {})
  /\ timer_id # None /\ pc[Main] # "take" => timer_id \in sources

(* Frames are drawn in the order in which they came, and once at most,      *)
(* whatever the pipeline drops, repeats or does not recognise.              *)
DrawnInOrder == \A j, k \in DOMAIN shown : j < k => shown[j] < shown[k]

(* A sample that was announced is pulled, and a frame whose turn has come   *)
(* is drawn or dropped, whichever thread goes to sleep first; a stream      *)
(* never freezes on a frame that nobody schedules.                          *)
NeverFrozen == (pending_samples > 0 \/ display_frame # None)
                 ~> (pending_samples = 0 /\ display_frame = None)

(* The comment over new_sample (channel-display-gst.c:263-264): it has the  *)
(* callback pull the sample "to avoid a race with free_pipeline()".  The    *)
(* pull now happens in schedule_frame, whenever that runs.                  *)
PullsFromPipeline == \A t \in {Main, Gst} : Fetching(t) => pipeline = "playing"
=============================================================================
