---------------------------- MODULE MjpegStream ----------------------------
(***************************************************************************)
(* A video stream with the built-in MJPEG decoder: the frames that come    *)
(* (display_handle_stream_data), the decoder's queue and its timer         *)
(* (channel-display-mjpeg.c), the multimedia clock of the session, which   *)
(* the playback and main channels set, and the reports to the server.      *)
(*                                                                         *)
(* Times are counted modulo 2^32 in the code, modulo W here.               *)
(***************************************************************************)
EXTENDS Integers, Sequences, SequencesExt

CONSTANTS
  W,          \* the modulus of times
  Thresh,     \* MM_TIME_DIFF_RESET_THRESH
  Window, DropLimit, SyncLimit, \* report_max_window, and the two drop limits
  MaxFrames, MaxSets \* bounds: frames, settings of the clock

MjpegStreamAssumption ==
  /\ W \in Nat /\ W > 4 /\ Thresh \in Nat
  /\ Window \in Nat \ {0} /\ DropLimit \in Nat \ {0} /\ SyncLimit \in Nat \ {0}
  /\ MaxFrames \in Nat /\ MaxSets \in Nat

VARIABLES
  now,       \* spice_session_get_mm_time
  resetting, \* mm-time-reset is on its way
  decoder,   \* msgq, cur_frame, what its timer still has to wait, and how far
             \* the clock was moved under the timer without a reset
  frames,    \* num_input_frames
  drawn,     \* the frames displayed
  report,    \* the counters since the last report
  late_run,  \* playback_sync_drops_seq_len
  told,      \* frames and late frames in the reports sent
  since,     \* frames and late frames since reports were asked for
  syncs,     \* run of late frames since the last one in time or sync asked
  sets

clock == <<now, resetting, sets>>
stats == <<report, late_run, told, since, syncs>>
vars == <<clock, decoder, frames, drawn, stats>>

Times == 0 .. W - 1
None == [n |-> 0, time |-> 0]
NoTimer == -1
Off == [frames |-> 0, drops |-> 0, run |-> 0, active |-> FALSE]
Zero == [frames |-> 0, drops |-> 0]

Frames == [n : 1 .. MaxFrames, time : Times]
TypeOK ==
  /\ now \in Times /\ resetting \in BOOLEAN
  /\ decoder \in [msgq : Seq(Frames), cur : Frames \union {None}, wait : -1 .. W,
                   slipped : Nat]
  /\ frames \in 0 .. MaxFrames /\ drawn \in Seq(1 .. MaxFrames)
  /\ report \in [frames : 0 .. Window, drops : Nat, run : 0 .. DropLimit, active : BOOLEAN]
  /\ late_run \in 0 .. SyncLimit /\ syncs \in 0 .. MaxFrames
  /\ told \in [frames : Nat, drops : Nat] /\ since \in [frames : Nat, drops : Nat]
  /\ sets \in 0 .. MaxSets

Empty == [msgq |-> <<>>, cur |-> None, wait |-> NoTimer, slipped |-> 0]
Init ==
  /\ now = W - 2 /\ resetting = FALSE /\ sets = 0
  /\ decoder = Empty /\ frames = 0 /\ drawn = <<>>
  /\ report = Off /\ late_run = 0 /\ told = Zero /\ since = Zero /\ syncs = 0

-----------------------------------------------------------------------------
(* spice_mmtime_diff: the difference as a signed number                     *)
Plain(a, b) == a - b
Wrapped(a, b) == LET d == (a - b) % W IN IF d >= W \div 2 THEN d - W ELSE d
mmtime_diff(a, b) == Wrapped(a, b)

(* mjpeg_decoder_schedule: frames whose time has gone are dropped, the      *)
(* first of the others gets the timer, unless there is one.                 *)
schedule(d) ==
  IF d.wait # NoTimer THEN d
  ELSE LET all == (IF d.cur = None THEN <<>> ELSE <<d.cur>>) \o d.msgq
           due == {k \in DOMAIN all : mmtime_diff(now, all[k].time) <= 0}
       IN IF due = {} THEN Empty
          ELSE LET k == CHOOSE k \in due : \A j \in due : k <= j
               IN [msgq |-> SubSeq(all, k + 1, Len(all)), cur |-> all[k],
                   wait |-> (all[k].time - now) % W, slipped |-> 0]

(* mjpeg_decoder_queue_frame: a frame that goes back in time empties the    *)
(* queue (mjpeg_decoder_drop_queue); a late one is dropped.                 *)
Before(f, d) == d.msgq # <<>> /\ mmtime_diff(f.time, Last(d.msgq).time) < 0
queue_frame(d, f, late) ==
  LET kept == IF Before(f, d) THEN Empty ELSE d IN
  IF late THEN kept ELSE schedule([kept EXCEPT !.msgq = Append(@, f)])

-----------------------------------------------------------------------------
(* display_update_stream_report; whether the time of the window is over is  *)
(* left open.                                                               *)
Counted(late) ==
  [frames |-> report.frames + 1, drops |-> report.drops + (IF late THEN 1 ELSE 0),
   run |-> IF late THEN report.run + 1 ELSE 0, active |-> report.active]
KeptRun(r) == [Off EXCEPT !.active = TRUE, !.run = r.run, !.drops = r.drops]
Cleared(r) == [Off EXCEPT !.active = TRUE]
AfterReport(r) == Cleared(r)

UpdateReport(late) ==
  IF ~report.active THEN UNCHANGED <<report, told, since>>
  ELSE LET r == Counted(late) IN
       /\ since' = [frames |-> since.frames + 1,
                    drops |-> since.drops + (IF late THEN 1 ELSE 0)]
       /\ \/ /\ report' = AfterReport(r)
             /\ told' = [frames |-> told.frames + r.frames, drops |-> told.drops + r.drops]
          \/ /\ r.frames < Window /\ r.run < DropLimit
             /\ report' = r /\ UNCHANGED told

(* display_handle_stream_data *)
StreamData(time) ==
  /\ frames < MaxFrames /\ frames' = frames + 1
  /\ LET late == mmtime_diff(time, now) < 0
         run == IF late THEN late_run + 1 ELSE 0
         d == queue_frame(decoder, [n |-> frames', time |-> time], late)
     IN
     /\ decoder' = d
     /\ UpdateReport(late)
     /\ late_run' = IF run >= SyncLimit THEN 0 ELSE run
     /\ syncs' = IF late /\ run < SyncLimit THEN syncs + 1 ELSE 0
  /\ UNCHANGED <<clock, drawn>>

(* display_handle_stream_activate_report *)
ActivateReport ==
  /\ ~report.active /\ report' = [Off EXCEPT !.active = TRUE]
  /\ UNCHANGED <<clock, decoder, frames, drawn, late_run, told, since, syncs>>

-----------------------------------------------------------------------------
Tick ==
  /\ now' = (now + 1) % W
  /\ decoder.wait # NoTimer
  /\ decoder.wait > 0
  /\ decoder' = [decoder EXCEPT !.wait = @ - 1]
  /\ UNCHANGED <<resetting, sets, frames, drawn, stats>>

(* mjpeg_decoder_decode_frame, when the timer fires                         *)
DecodeFrame ==
  /\ decoder.wait = 0
  /\ drawn' = Append(drawn, decoder.cur.n)
  /\ decoder' = schedule([decoder EXCEPT !.cur = None, !.wait = NoTimer])
  /\ UNCHANGED <<clock, frames, stats>>

(* spice_session_set_mm_time: a small step forward is no reset.             *)
SetTime(time) ==
  /\ sets < MaxSets /\ sets' = sets + 1 /\ ~resetting
  /\ now' = time
  /\ IF mmtime_diff(time, now + Thresh) > 0 \/ mmtime_diff(time, now) < 0
       THEN resetting' = TRUE /\ UNCHANGED decoder
       ELSE /\ decoder' = [decoder EXCEPT !.slipped =
                            IF decoder.wait = NoTimer THEN 0 ELSE @ + mmtime_diff(time, now)]
            /\ UNCHANGED resetting
  /\ UNCHANGED <<frames, drawn, stats>>

(* mjpeg_decoder_reschedule *)
KeepTimer(d) == schedule(d)
DropTimer(d) == schedule([d EXCEPT !.wait = NoTimer])
rescheduled(d) == DropTimer(d)
Reschedule ==
  /\ resetting /\ resetting' = FALSE
  /\ decoder' = rescheduled(decoder)
  /\ UNCHANGED <<now, sets, frames, drawn, stats>>

Next ==
  \/ \E k \in {-1, 0, 2} : StreamData((now + k) % W)
  \/ \E time \in Times : SetTime(time)
  \/ ActivateReport \/ Tick \/ DecodeFrame \/ Reschedule
Spec == Init /\ [][Next]_vars

-----------------------------------------------------------------------------
(* A frame that is kept always has a timer that will take it on, and a      *)
(* timer always has a frame.                                                *)
NoFrameForgotten ==
  /\ decoder.wait = NoTimer => decoder.cur = None /\ decoder.msgq = <<>>
  /\ decoder.wait # NoTimer => decoder.cur # None

(* The timer waits for the time of its frame by the clock of now, also      *)
(* after the clock was set back, or far forward, or wrapped around (case    *)
(* 1.a of the comment in channel-display.c:1397); only steps too small to   *)
(* be a reset, which the timer does not hear of, make it wait longer.       *)
TimerIsTrue ==
  decoder.wait # NoTimer /\ ~resetting =>
    decoder.wait = (decoder.cur.time + decoder.slipped - now) % W

(* Frames are drawn in the order in which they came.                        *)
InOrder == \A j, k \in DOMAIN drawn : j < k => drawn[j] < drawn[k]

(* Every frame since the reports were asked for is in one report or counted *)
(* for the next, the server hears at once of a run of late frames, and the  *)
(* audio is asked to slow down before the run gets longer.                  *)
ReportsComplete ==
  /\ since.frames = told.frames + report.frames
  /\ since.drops = told.drops + report.drops
  /\ report.run < DropLimit /\ syncs < SyncLimit
=============================================================================
