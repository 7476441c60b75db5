------------------------------- MODULE Pulse -------------------------------
(***************************************************************************)
(* The PulseAudio back end (spice-pulse.c): the playback and the record    *)
(* stream that follow the start and stop messages of their channels, and   *)
(* the volumes that the main channel asks for.                             *)
(*                                                                         *)
(* Everything here is asynchronous.  The context may get ready after a     *)
(* channel has started; a cork or an uncork is an operation that ends      *)
(* later, on a stream that may have been replaced; a stream that is        *)
(* stopped is corked and kept (playback) or given up (record).  The volume *)
(* of a stream that is not open is read from the database of the server:   *)
(* one operation for every request that waits.                             *)
(*                                                                         *)
(* The server is external: it may connect or fail, and ends every          *)
(* operation unless the stream it is about was given up.                   *)
(***************************************************************************)
EXTENDS Naturals, Sequences, SequencesExt

CONSTANTS
    Specs,      \* rates and numbers of channels, and latencies
    Early,      \* whether volumes may be asked for while one is being read
                \* from an open stream
    MaxStarts,  \* messages of the channels, bounded
    MaxAsks     \* requests for a volume, bounded

Sides == {"playback", "record"}

VARIABLES
    context,    \* the state of the context: "connecting", "ready", "failed"
    started,    \* s->started, per side
    stream,     \* s->stream: 0 when NULL, otherwise which one it is
    spec,       \* s->spec (and target_delay)
    corked,     \* pa_stream_is_corked of the playback stream
    cork_op,    \* the operation that corks: what comes next and its stream
    uncork_op,  \* the operation that uncorks: its stream, 0 when NULL
    results,    \* p->results: the requests that wait, <<side, the operation>>
    pending,    \* p->pending_restore_task is set
    restore,    \* an operation reads the database
    updated,    \* info_updated, per side
    name,       \* info.name # NULL, per side
    opened,     \* streams made so far
    starts, asks

sound  == <<started, stream, spec, corked, cork_op, uncork_op, opened, starts>>
volume == <<results, pending, restore, updated, name, asks>>
vars == <<context, sound, volume>>

None == [next |-> "none", on |-> 0]

Init ==
    /\ context = "connecting"
    /\ started = [s \in Sides |-> FALSE] /\ stream = [s \in Sides |-> 0]
    /\ spec = [s \in Sides |-> CHOOSE v \in Specs : TRUE]
    /\ corked = FALSE /\ cork_op = None
    /\ uncork_op = 0 /\ opened = 0 /\ starts = 0
    /\ results = <<>> /\ pending = FALSE /\ restore = FALSE
    /\ updated = [s \in Sides |-> FALSE] /\ name = [s \in Sides |-> FALSE]
    /\ asks = 0

----------------------------------------------------------------------------
\* The streams.

\* create_playback, create_record: the new stream plays at once.
Create(sides) ==
    /\ stream' = [s \in Sides |-> IF s \in sides
                                  THEN opened + (IF s = "record" /\ sides = Sides THEN 2 ELSE 1)
                                  ELSE stream[s]]
    /\ opened' = opened + (IF sides = Sides THEN 2 ELSE IF sides = {} THEN 0 ELSE 1)
    /\ corked' = (corked /\ "playback" \notin sides)

\* stream_uncork: an operation that corks is given up, but corks all the same.
stream_uncork ==
    /\ cork_op' = None
    /\ IF corked /\ uncork_op = 0
       THEN corked' = FALSE /\ uncork_op' = stream["playback"]
       ELSE UNCHANGED <<corked, uncork_op>>

\* stream_cork: nothing happens while an operation that corks is known of.
stream_cork(next) ==
    /\ uncork_op' = 0
    /\ IF ~corked /\ cork_op = None
       THEN corked' = TRUE /\ cork_op' = [next |-> next, on |-> stream["playback"]]
       ELSE UNCHANGED <<corked, cork_op>>

Starts == starts < MaxStarts /\ starts' = starts + 1

\* What both START handlers do first.  A stream that does not fit is given up;
\* what was started on it is forgotten by the server and not by the client.
Fits(side, v) == stream[side] # 0 /\ spec[side] = v
Start(side, v) ==
    /\ Starts
    /\ started' = [started EXCEPT ![side] = TRUE]
    /\ spec' = [spec EXCEPT ![side] = v]
    /\ ~Fits(side, v) =>
         /\ IF context = "ready" THEN Create({side})
            ELSE stream' = [stream EXCEPT ![side] = 0] /\ UNCHANGED <<opened, corked>>
         /\ UNCHANGED <<cork_op, uncork_op>>
    /\ Fits(side, v) => UNCHANGED <<stream, opened>>
    /\ UNCHANGED <<context, volume>>

playback_start ==
    \E v \in Specs :
      /\ Start("playback", v)
      /\ Fits("playback", v) => IF context = "ready" THEN stream_uncork
                               ELSE UNCHANGED <<corked, cork_op, uncork_op>>

\* record_start: nothing corks the record stream, so that there is nothing to uncork.
record_start ==
    \E v \in Specs :
      /\ Start("record", v)
      /\ Fits("record", v) => UNCHANGED <<corked, cork_op, uncork_op>>

\* playback_stop, and channel_weak_notified when the channel is gone.
PlaybackStop ==
    /\ started' = [started EXCEPT !["playback"] = FALSE]
    /\ IF stream["playback"] # 0
       THEN stream_cork("flush") ELSE UNCHANGED <<corked, cork_op, uncork_op>>
    /\ started["playback"]
    /\ UNCHANGED <<context, stream, spec, opened, starts, volume>>

\* record_stop: the stream is given up.
RecordStop ==
    /\ started["record"]
    /\ started' = [started EXCEPT !["record"] = FALSE]
    /\ stream' = [stream EXCEPT !["record"] = 0]
    /\ UNCHANGED <<context, spec, corked, cork_op, uncork_op, opened,
                   starts, volume>>

\* playback_min_latency_changed: a stream that is behind is corked until
\* stream_update_latency_callback finds that it has caught up.
MinLatencyChanged ==
    /\ Starts
    /\ stream["playback"] # 0
    /\ stream_cork("nothing")
    /\ UNCHANGED <<context, started, stream, spec, opened, volume>>

LatencyUpdated ==
    /\ stream["playback"] # 0 /\ started["playback"] /\ corked
    /\ stream_uncork
    /\ UNCHANGED <<context, started, stream, spec, opened, starts, volume>>

\* pulse_cork_cb, pulse_cork_flush_cb and pulse_flush_cb; pulse_uncork_cb.  The
\* operations of a stream that was given up do not end.
CorkEnds ==
    /\ cork_op # None /\ cork_op.on = stream["playback"]
    /\ cork_op' = IF cork_op.next = "flush" THEN [cork_op EXCEPT !.next = "nothing"] ELSE None
    /\ UNCHANGED <<context, started, stream, spec, corked, uncork_op,
                   opened, starts, volume>>

UncorkEnds ==
    /\ uncork_op # 0 /\ uncork_op = stream["playback"]
    /\ uncork_op' = 0
    /\ UNCHANGED <<context, started, stream, spec, corked, cork_op,
                   opened, starts, volume>>

----------------------------------------------------------------------------
\* The volumes.

\* spice_pulse_complete_all_async_tasks.
CompleteAll == results' = <<>> /\ pending' = FALSE /\ restore' = FALSE

\* context_state_callback, when the context gets ready.
Waiting == {s \in Sides : started[s] /\ stream[s] = 0}

ContextReady ==
    /\ context = "connecting"
    /\ context' = "ready"
    /\ Create(Waiting)
    /\ pending' = FALSE /\ restore' = (restore \/ pending)
    /\ UNCHANGED <<started, spec, cork_op, uncork_op, starts, results,
                   updated, name, asks>>

ContextFails ==
    /\ context # "failed"
    /\ context' = "failed"
    /\ IF pending THEN CompleteAll ELSE UNCHANGED <<results, pending, restore>>
    /\ UNCHANGED <<sound, updated, name, asks>>

\* pulse_stream_restore_info_async.  An open stream is asked itself; what is
\* known already is answered at once; otherwise the first request that waits
\* has the database read, and those after it rely on the one that does.
Own(side) == stream[side] # 0 /\ context = "ready"
Known == \E s \in Sides : name[s]

Ask(side) ==
    /\ asks < MaxAsks /\ context # "failed"
    /\ asks' = asks + 1
    /\ Early \/ ~\E i \in DOMAIN results : results[i][2] = "own"
    /\ \/ /\ Own(side)
          /\ updated' = [updated EXCEPT ![side] = FALSE]
          /\ results' = Append(results, <<side, "own">>)
          /\ UNCHANGED <<pending, restore>>
       \/ /\ ~Own(side) /\ Known
          /\ UNCHANGED <<updated, results, pending, restore>>
       \/ /\ ~Own(side) /\ ~Known /\ results # <<>>
          /\ results' = Append(results, <<side, "shared">>)
          /\ UNCHANGED <<updated, pending, restore>>
       \/ /\ ~Own(side) /\ ~Known /\ results = <<>>
          /\ updated' = [s \in Sides |-> FALSE]
          /\ results' = <<<<side, "shared">>>>
          /\ restore' = (context = "ready") /\ pending' = (context # "ready")
    /\ UNCHANGED <<context, sound, name>>

\* stream_restore_read_cb: an entry of the database, and its end.
RestoreEntry ==
    /\ restore /\ context = "ready"
    /\ \E s \in Sides :
         /\ ~updated[s]
         /\ updated' = [updated EXCEPT ![s] = TRUE]
         /\ name' = [name EXCEPT ![s] = TRUE]
    /\ UNCHANGED <<context, sound, results, pending, restore, asks>>

\* Mutant: only the request that started the reading is answered.
FirstOnly == results' = Tail(results) /\ pending' = FALSE /\ restore' = FALSE

\* We can complete all the requests now that the database was read.
RestoreCompletes == CompleteAll

RestoreEnds ==
    /\ restore /\ context = "ready"
    /\ RestoreCompletes
    /\ UNCHANGED <<context, sound, updated, name, asks>>

\* sink_input_info_cb, source_output_info_cb: the entry, and the end, which
\* answers the request it was for.
OwnEnds ==
    /\ context = "ready"
    /\ \E i \in DOMAIN results :
         /\ results[i][2] = "own"
         /\ \/ /\ updated' = [updated EXCEPT ![results[i][1]] = TRUE]
               /\ name' = [name EXCEPT ![results[i][1]] = TRUE]
            \/ UNCHANGED <<updated, name>>
         /\ results' = RemoveAt(results, i)
    /\ UNCHANGED <<context, sound, pending, restore, asks>>

Next ==
    \/ playback_start \/ record_start \/ \E side \in Sides : Ask(side)
    \/ PlaybackStop \/ RecordStop \/ MinLatencyChanged \/ LatencyUpdated
    \/ CorkEnds \/ UncorkEnds \/ ContextReady \/ ContextFails
    \/ RestoreEntry \/ RestoreEnds \/ OwnEnds

Spec == Init /\ [][Next]_vars

----------------------------------------------------------------------------
TypeOK ==
    /\ context \in {"connecting", "ready", "failed"}
    /\ started \in [Sides -> BOOLEAN] /\ stream \in [Sides -> 0..opened]
    /\ cork_op.on \in 0..opened /\ uncork_op \in 0..opened
    /\ results \in Seq(Sides \X {"own", "shared"})
    /\ updated \in [Sides -> BOOLEAN] /\ name \in [Sides -> BOOLEAN]

\* A channel that has started has a stream as soon as the context is ready,
\* whichever came first; and a playback that is corked although it has started
\* can be uncorked, because no operation that does it is thought to be under way.
PlaysWhenStarted ==
    context = "ready" =>
        /\ \A s \in Sides : started[s] => stream[s] # 0
        /\ started["playback"] /\ corked => uncork_op = 0

\* A playback that was stopped is silent.  The one case in which it is not is
\* that an operation of a stream that was given up is still known of: the new
\* stream is not corked because of it.
SilentWhenStopped ==
    stream["playback"] # 0 /\ ~started["playback"] /\ ~corked =>
        cork_op # None /\ cork_op.on # stream["playback"]

\* Every request for a volume that waits has an operation that will answer it:
\* its own, the one that reads the database, or the one that will as soon as the
\* context is ready.
VolumeAnswered ==
    context # "failed" =>
        \A i \in DOMAIN results : results[i][2] = "shared" => restore \/ pending
=============================================================================
