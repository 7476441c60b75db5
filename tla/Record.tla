------------------------------- MODULE Record -------------------------------
(***************************************************************************)
(* Recording: the record channel (channel-record.c) and the GStreamer back *)
(* end that feeds it (the record half of spice-gstaudio.c).                *)
(*                                                                         *)
(* A streaming thread puts samples into the sink and posts one message per *)
(* sample on the bus; the main loop takes a message and pulls a sample,    *)
(* which waits when there is none.  The samples are cut into frames of the *)
(* codec; the first data after a START is preceded by the mode and a mark. *)
(* STOP, START and a reset of the channel come between any two of these.   *)
(*                                                                         *)
(* The pipeline is external: it forgets its samples when it is stopped,    *)
(* and not the messages on its bus.                                        *)
(***************************************************************************)
EXTENDS Naturals, Sequences, FiniteSets, FiniteSetsExt

CONSTANTS
    Frame,      \* frame_bytes
    Sizes,      \* the sizes of the samples
    MaxSamples, \* samples that are recorded, bounded
    MaxStarts   \* START messages, bounded

RecordAssumption == Frame \in Nat \ {0} /\ Sizes \subseteq Nat \ {0}

VARIABLES
    on,         \* last_frame # NULL: a START was handled and no reset since
    started,    \* rc->started: mode and mark were sent
    last_frame, \* the bytes of the frame that is not complete yet
    playing,    \* the state of the pipeline: "null", "ready", "playing"
    samples,    \* the samples in the sink
    posting,    \* the streaming thread is about to post a message
    bus,        \* messages on the bus
    blocked,    \* the main loop waits in gst_app_sink_pull_sample
    wire,       \* what the server was sent since the last START
    given,      \* the bytes that were pulled since then; they are numbered
    made, starts

channel == <<on, started, last_frame, wire, given, starts>>
sink == <<samples, posting, bus, made>>
vars == <<channel, playing, sink, blocked>>

Init ==
    /\ on = FALSE /\ started = FALSE /\ last_frame = <<>> /\ playing = "null"
    /\ samples = <<>> /\ posting = FALSE /\ bus = 0 /\ blocked = FALSE
    /\ wire = <<>> /\ given = 0 /\ made = 0 /\ starts = 0

----------------------------------------------------------------------------
\* The channel.

\* What the frame that is being put together is after another piece.
Pieced(part, piece) == part \o piece

\* Mutant: a frame that is just full is kept.
Overfills(part, n) == n > Frame - Len(part)

\* Whether a piece of n bytes completes the frame.
Fills(part, n) == n = Frame - Len(part)

\* One turn of the loop of spice_record_channel_send_data: a complete frame goes out,
\* the rest begins the next one.
Turn(r) ==
  IF r.data = <<>> THEN r
  ELSE LET n == Min({Len(r.data), Frame - Len(r.part)})
           frame == Pieced(r.part, SubSeq(r.data, 1, n))
       IN  IF ~Fills(r.part, n)
           THEN [r EXCEPT !.part = frame, !.data = <<>>]
           ELSE [part |-> <<>>, data |-> SubSeq(r.data, n + 1, Len(r.data)),
                 out |-> Append(r.out, frame)]

\* The loop: a turn takes at least one byte.
Cut(r) ==
  LET after[n \in 0 .. Len(r.data)] == IF n = 0 THEN r ELSE Turn(after[n - 1])
  IN  after[Len(r.data)]

\* The mode and the mark that precede the first data of a recording.
Preamble == IF started THEN <<>> ELSE <<"mode", "mark">>

\* What a frame is to the decoder of the server.
Sort(frame) ==
    IF Len(frame) = Frame /\ \A i \in DOMAIN frame : frame[i] = frame[1] + i - 1
    THEN "data" ELSE "torn"

\* spice_record_channel_send_data.
SendData(k) ==
    IF ~on THEN UNCHANGED channel
    ELSE LET cut == Cut([part |-> last_frame, out |-> <<>>,
                         data |-> [i \in 1..k |-> given + i]])
         IN  /\ wire' = wire \o Preamble \o [i \in DOMAIN cut.out |-> Sort(cut.out[i])]
             /\ started' = TRUE
             /\ given' = given + k
             /\ last_frame' = cut.part
             /\ UNCHANGED <<on, starts>>

\* The frames that have been sent are whole, and in order: what is left is what
\* comes after them.
Whole == last_frame = [i \in DOMAIN last_frame |-> given - Len(last_frame) + i]

\* record_handle_start and record_start; the server starts what it has stopped.
HandleStart ==
    /\ ~blocked /\ starts < MaxStarts /\ playing # "playing"
    /\ starts' = starts + 1
    /\ on' = TRUE /\ last_frame' = <<>> /\ wire' = <<>> /\ given' = 0
    /\ playing' = "playing"
    /\ UNCHANGED <<started, sink, blocked>>

\* record_stop of the back end: the sink forgets its samples.
Stopped ==
    /\ playing' = IF playing = "playing" THEN "ready" ELSE playing
    /\ samples' = <<>> /\ posting' = FALSE

\* record_handle_stop: the partial frame stays until the next START.
HandleStop ==
    /\ ~blocked /\ playing = "playing"
    /\ Stopped
    /\ started' = FALSE
    /\ UNCHANGED <<on, last_frame, wire, given, starts, bus, made, blocked>>

\* channel_reset.
Reset ==
    /\ ~blocked /\ on
    /\ on' = FALSE /\ last_frame' = <<>> /\ wire' = <<>> /\ given' = 0
    /\ Stopped
    /\ started' = FALSE
    /\ UNCHANGED <<starts, bus, made, blocked>>

----------------------------------------------------------------------------
\* The pipeline.

\* The streaming thread: a sample, and then record_new_buffer.
Sample ==
    /\ playing = "playing" /\ ~posting /\ made < MaxSamples
    /\ made' = made + 1
    /\ \E k \in Sizes : samples' = Append(samples, k)
    /\ posting' = TRUE
    /\ UNCHANGED <<channel, playing, bus, blocked>>

record_new_buffer ==
    /\ posting
    /\ posting' = FALSE
    /\ bus' = bus + 1
    /\ UNCHANGED <<channel, playing, samples, made, blocked>>

\* Mutant: a message that finds the main loop late is dropped.
Merged == 0

\* The messages that are left when one was taken.
MessagesLeft == bus - 1

\* record_bus_cb: a sink that is stopped answers NULL at once, and one that has
\* no sample yet makes the main loop wait for it.
record_bus_cb ==
    /\ ~blocked /\ bus > 0
    /\ bus' = MessagesLeft
    /\ \/ /\ playing # "playing"
          /\ UNCHANGED <<channel, samples, blocked>>
       \/ /\ playing = "playing" /\ samples # <<>>
          /\ SendData(Head(samples))
          /\ samples' = Tail(samples)
          /\ UNCHANGED blocked
       \/ /\ playing = "playing" /\ samples = <<>>
          /\ blocked' = TRUE
          /\ UNCHANGED <<channel, samples>>
    /\ UNCHANGED <<playing, posting, made>>

\* The sample that the main loop waited for.
PullEnds ==
    /\ blocked /\ samples # <<>>
    /\ blocked' = FALSE
    /\ SendData(Head(samples))
    /\ samples' = Tail(samples)
    /\ UNCHANGED <<playing, posting, bus, made>>

Next ==
    \/ HandleStart \/ HandleStop \/ Reset
    \/ Sample \/ record_new_buffer \/ record_bus_cb \/ PullEnds

Spec == Init /\ [][Next]_vars

----------------------------------------------------------------------------
TypeOK ==
    /\ {on, started, posting, blocked} \subseteq BOOLEAN
    /\ last_frame \in Seq(Nat) /\ Len(last_frame) < Frame
    /\ playing \in {"null", "ready", "playing"} /\ bus \in Nat
    /\ samples \in Seq(Sizes) /\ wire \in Seq({"mode", "mark", "data", "torn"})

\* What a recording sends is its mode, a mark, and then every byte that was
\* recorded, in frames of the codec and in order; less than a frame is held back.
FramesAreWhole ==
    /\ Whole
    /\ \A i \in DOMAIN wire : wire[i] # "torn"
    /\ on => given = Len(last_frame)
                     + Frame * Cardinality({i \in DOMAIN wire : wire[i] = "data"})

\* No data before the mode and the mark of its own recording.
MarkedFirst ==
    wire # <<>> => Len(wire) > 1 /\ wire[1] = "mode" /\ wire[2] = "mark"

\* Every sample has a message that will fetch it, whatever stops and starts came
\* between: recording does not fall behind for good.
SamplesAreFetched ==
    playing = "playing" =>
        Len(samples) <= bus + (IF posting THEN 1 ELSE 0) + (IF blocked THEN 1 ELSE 0)
=============================================================================
