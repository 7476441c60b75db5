------------------------------ MODULE MCMedia ------------------------------
(***************************************************************************)
(* The machines that draw, for TLC: surfaces, the two stream decoders, the *)
(* GLZ window, the image cache and the cursor.  They meet only in what the *)
(* server sends, so one of them runs at a time: every behaviour is that of *)
(* the machine "which" names, with the others in their initial states.     *)
(***************************************************************************)
EXTENDS Integers, Sequences, FiniteSets
CONSTANTS
  Streams, Sizes, MaxObjects, Secondary,                          \* of Display
  W, Thresh, Window, DropLimit, SyncLimit, MaxFrames, MaxSets,    \* of MjpegStream
  Displays, Capacity, MaxImages, MaxLag, LagAfterClear, MaxClears, \* of GlzWindow
  Pictures, AnyOrder, MaxMessages,                                   \* of ImageCache
  NFrames, MaxResets,                                             \* of GstVideo
  Shapes, Null, Blank, MaxSaid, MaxBreaks                         \* of Cursor

VARIABLE which   \* the machine that runs
VARIABLES \* Display
  created, live, size, table, primary, mark, mark_timer, streams, pc, held, legacy,
  known, shown, marked
VARIABLES \* MjpegStream
  now, resetting, decoder, frames, drawn, report, late_run, told, since, syncs, sets
VARIABLES \* GlzWindow
  images, nimages, oldest, tail_gap, incoming, sent, first, clears
VARIABLES \* ImageCache
  cache_images, handled, messages, mirror, lastUse, stale
VARIABLES \* GstVideo
  pipeline, overlay, stream, encoded, appsink, decoding_queue, display_frame,
  pending_samples, timer_id, sources, lock, gst_pc, local, queued, gst_shown, resets
VARIABLES \* Cursor
  cursors, init_done, last_cursor, mouse_cursor, show_cursor, mouse_mode, cursor_known,
  open, wire, cursor_sent, hidden, cursor_messages, cursor_resets

D == INSTANCE Display
J == INSTANCE MjpegStream
Z == INSTANCE GlzWindow
I == INSTANCE ImageCache WITH Ids <- Pictures, images <- cache_images
G == INSTANCE GstVideo WITH pc <- gst_pc, shown <- gst_shown
C == INSTANCE Cursor WITH
       MaxMessages <- MaxSaid, MaxResets <- MaxBreaks,
       known <- cursor_known, sent <- cursor_sent,
       messages <- cursor_messages, resets <- cursor_resets

displayVars == <<created, live, size, table, primary, mark, mark_timer, streams, pc,
                 held, legacy, known, shown, marked>>
mjpegVars == <<now, resetting, decoder, frames, drawn, report, late_run, told, since,
               syncs, sets>>
glzVars == <<images, nimages, oldest, tail_gap, incoming, sent, first, clears>>
cacheVars == <<cache_images, handled, messages, mirror, lastUse, stale>>
gstVars == <<pipeline, overlay, stream, encoded, appsink, decoding_queue, display_frame,
             pending_samples, timer_id, sources, lock, gst_pc, local, queued, gst_shown,
             resets>>
cursorVars == <<cursors, init_done, last_cursor, mouse_cursor, show_cursor, mouse_mode,
                cursor_known, open, wire, cursor_sent, hidden, cursor_messages,
                cursor_resets>>
mcvars == <<which, displayVars, mjpegVars, glzVars, cacheVars, gstVars, cursorVars>>

\* Machine x takes the step: it is the one that runs, and the others keep still.
On(x) ==
  /\ which = x /\ UNCHANGED which
  /\ IF x = "display" THEN TRUE ELSE UNCHANGED displayVars
  /\ IF x = "mjpeg" THEN TRUE ELSE UNCHANGED mjpegVars
  /\ IF x = "glz" THEN TRUE ELSE UNCHANGED glzVars
  /\ IF x = "cache" THEN TRUE ELSE UNCHANGED cacheVars
  /\ IF x = "gst" THEN TRUE ELSE UNCHANGED gstVars
  /\ IF x = "cursor" THEN TRUE ELSE UNCHANGED cursorVars

MCInit ==
  /\ which \in {"display", "mjpeg", "glz", "cache", "gst", "cursor"}
  /\ D!Init /\ (which # "display" => legacy)
  /\ J!Init /\ Z!Init /\ I!Init
  /\ G!Init /\ (which # "gst" => overlay)
  /\ C!Init /\ (which # "cursor" => mouse_mode = "client")

MCNext ==
  \/ \E s \in Sizes :
       \/ On("display") /\ D!Mode(s)
       \/ On("display") /\ D!SurfaceCreatePrimary(s)
  \/ \E s \in Streams : On("display") /\ D!StreamDestroy(s)
  \/ \E id \in D!Ids :
       \/ On("display") /\ D!SurfaceDestroy(id)
       \/ On("display") /\ D!Draw(id)
  \/ \E s \in Streams, id \in D!Ids : On("display") /\ D!StreamCreate(s, id)
  \/ On("display") /\ D!SurfaceCreate
  \/ On("display") /\ D!Mark
  \/ On("display") /\ D!ResetDisplay
  \/ On("display") /\ D!StreamDestroyAll
  \/ On("display") /\ D!ChannelReset
  \/ On("display") /\ D!Replace
  \/ On("display") /\ D!Created
  \/ On("display") /\ D!Destroyed
  \/ On("display") /\ D!Drawn
  \/ On("display") /\ D!MarkFalse
  \/ \E time \in {(now + k) % W : k \in {-1, 0, 2}} : On("mjpeg") /\ J!StreamData(time)
  \/ \E time \in J!Times : On("mjpeg") /\ J!SetTime(time)
  \/ On("mjpeg") /\ J!ActivateReport
  \/ On("mjpeg") /\ J!Tick
  \/ On("mjpeg") /\ J!DecodeFrame
  \/ On("mjpeg") /\ J!Reschedule
  \/ On("glz") /\ Z!ServerSends
  \/ On("glz") /\ Z!Clear
  \/ \E d \in Displays : On("glz") /\ Z!Decode(d)
  \/ \E d \in Displays :
       \/ On("cache") /\ I!Handle(d)
       \/ On("cache") /\ I!Server(d)
  \/ On("gst") /\ G!QueueFrame
  \/ On("gst") /\ G!StreamDestroy
  \/ On("gst") /\ G!PipelineError
  \/ On("gst") /\ G!Reschedule
  \/ On("gst") /\ G!TimerFires
  \/ On("gst") /\ G!TakeFrame
  \/ On("gst") /\ G!Draw
  \/ On("gst") /\ G!TakeTimer
  \/ On("gst") /\ G!RemoveTimer
  \/ On("gst") /\ G!Schedule(1)
  \/ On("gst") /\ G!Decode
  \/ On("gst") /\ G!NewSample
  \/ On("gst") /\ G!Schedule(2)
  \/ On("cursor") /\ C!ServerSays
  \/ On("cursor") /\ C!Handle
  \/ On("cursor") /\ C!ModeChanges
  \/ On("cursor") /\ C!Reset

MCSpec == MCInit /\ [][MCNext]_mcvars

ASSUME MediaAssumption ==
  /\ D!DisplayAssumption /\ J!MjpegStreamAssumption /\ Z!GlzWindowAssumption
  /\ I!ImageCacheAssumption /\ G!GstVideoAssumption /\ C!CursorAssumption

-----------------------------------------------------------------------------
\* The variables of the six machines have their types, and the bounded queues and
\* counters of the code (the appsink, the late and drop counters) keep their limits.
MCTypes == D!TypeOK /\ J!TypeOK /\ Z!TypeOK /\ I!TypeOK /\ G!TypeOK /\ C!TypeOK

\* Display channel (channel-display.c): no stream draws on a surface that is gone, what
\* the application was last given to show is alive, the primary is the one the server
\* made, and a mark the server sent is still known when the surface is replaced.
DisplaySafe == D!StreamsOnLive /\ D!ShownIsLive /\ D!PrimaryExact /\ D!MarkKept

\* MJPEG streams (channel-display-mjpeg.c): every frame is drawn, queued, dropped or
\* counted, a timer is pending exactly when a frame is held, frames are drawn in order,
\* and the reports add up to what was decoded and dropped.
MjpegSafe == J!NoFrameForgotten /\ J!TimerIsTrue /\ J!InOrder /\ J!ReportsComplete

\* GLZ window (decode-glz.c): an image a later one refers to is still in the window, and
\* the two displays that share the window never wait for each other for ever.  Image cache
\* (spice-session.c, channel-display.c): what the server believes cached is cached, a lossy
\* image is put where there is none, and of the displays that wait for each other's images
\* one goes on.
ImagesSafe ==
  /\ Z!ReferencesKept /\ Z!NeverStuck
  /\ I!MirrorHolds /\ I!PutsLossyAnew /\ I!SomeoneGoesOn

\* GStreamer decoder (channel-display-gst.c): pulling a sample never blocks the main
\* loop, one timer runs, and frames are drawn in order.
GstSafe == G!PullNeverWaits /\ G!OneTimer /\ G!DrawnInOrder

\* A sample that was announced is pulled, and a frame that was decoded is drawn or dropped
\* in the end (schedule_frame), under the fairness of GstVideo.
GstLive == which = "gst" /\ G!Fairness => G!NeverFrozen

\* Cursor (channel-cursor.c, spice-widget.c): the widget shows the shape the server last
\* sent, when the server shows it.
CursorSafe == C!ShapeAgrees /\ C!ShownWhenTold
============================================================================
