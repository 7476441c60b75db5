------------------------------ MODULE Playback ------------------------------
(***************************************************************************)
(* Playing: the playback channels of a session (channel-playback.c, with   *)
(* playback_channel of spice-session.c) and the GStreamer back end that    *)
(* plays them (the playback half of spice-gstaudio.c, connected through    *)
(* spice-audio.c).                                                         *)
(*                                                                         *)
(* A coroutine that emits a signal parks until the main loop has run the   *)
(* handlers: "run" says which emission is on its way.  In between the      *)
(* application and the session may drop the channel, and a new one may     *)
(* come before the object of the old one is gone.                          *)
(*                                                                         *)
(* The server is external: it changes the mode while it does not play, and *)
(* sends its own clock only then.  The pipeline can always be made.        *)
(***************************************************************************)
EXTENDS Naturals

CONSTANTS
    Formats,     \* rates and numbers of channels of a START
    Volumes,     \* volume and mute, as one setting
    None,        \* no pipeline, no setting
    MaxChannels, \* playback channels a session has had, bounded
    MaxMessages  \* messages of the server, bounded

PlaybackAssumption ==
    None \notin Formats \cup Volumes /\ Formats # {} /\ MaxChannels \in Nat

Channels == 1 .. MaxChannels
Nobody == 0   \* NULL, and the server where the clock is meant

VARIABLES
    life,     \* of the object: "none", "listed" by the session, "dropped", "dead"
    run,      \* of its coroutine: "off", "idle", an emission, "ended", "over"
    on,       \* the server plays on this channel
    mode, codec, is_active, fmt, volume,   \* of the channel
    slot,     \* playback_channel of the session
    pchannel, \* of the back end
    pipe,     \* the format of the pipeline
    playing,  \* its state is PLAYING
    sink,     \* what the sink was told of the volume since it was made
    mmtime,   \* mmtime_id: the clock is set every second
    clock,    \* who set the clock of the session last
    messages

object == <<life, run>>
channel == <<on, mode, codec, is_active, fmt, volume>>
backend == <<pchannel, pipe, playing, sink, mmtime>>
vars == <<object, channel, slot, backend, clock, messages>>

Init ==
    /\ life = [n \in Channels |-> "none"] /\ run = [n \in Channels |-> "off"]
    /\ on = [n \in Channels |-> FALSE]
    /\ mode = [n \in Channels |-> "raw"] /\ codec = [n \in Channels |-> FALSE]
    /\ is_active = [n \in Channels |-> FALSE]
    /\ fmt = [n \in Channels |-> None] /\ volume = [n \in Channels |-> None]
    /\ slot = Nobody /\ pchannel = Nobody /\ pipe = None /\ playing = FALSE
    /\ sink = None /\ mmtime = FALSE /\ clock = Nobody /\ messages = 0

----------------------------------------------------------------------------
\* The back end.

\* Mutant: the clock goes on when the pipeline stops.
KeepsClock == mmtime

\* The clock after playback_stop.
ClockStopped == FALSE

\* playback_stop, which "playback-stop" and the end of the channel call.
playback_stop ==
    /\ playing' = FALSE
    /\ mmtime' = ClockStopped
    /\ UNCHANGED <<pipe, sink>>

\* update_mmtime_timeout_cb: spice_playback_channel_set_delay sets the clock of
\* the session, which a channel that was dropped has no more.
ClockSet == IF life[pchannel] = "listed" THEN pchannel ELSE clock

\* playback_start: a pipeline of another format is dropped, and the one that is
\* made has a sink nobody told the volume.
playback_start(f) ==
    /\ pipe' = f
    /\ sink' = IF pipe = pipe' THEN sink ELSE None
    /\ playing' = TRUE
    /\ mmtime' = TRUE
    /\ clock' = IF mmtime THEN clock ELSE ClockSet

\* playback_volume_changed and playback_mute_changed: without a sink they are lost.
volume_changed(n) ==
    sink' = IF pchannel = n /\ pipe # None THEN volume'[n] ELSE sink

\* get_playback_volume_info_finish: without a pipeline one is started, and stopped
\* at once; the channel is not there to set a clock.
get_volume(f) ==
    /\ pipe = None
    /\ pipe' = f /\ playing' = FALSE
    /\ UNCHANGED <<object, channel, slot, pchannel, sink, mmtime, clock, messages>>

\* channel_weak_notified: the object of channel n is freed.
Finalized(n) ==
    IF pchannel = n THEN playback_stop /\ pchannel' = Nobody ELSE UNCHANGED backend

----------------------------------------------------------------------------
\* The session.

\* connect_channel of the back end refuses a second channel, which is never
\* connected then.
Connected(n) ==
    \/ pchannel = Nobody /\ pchannel' = n /\ run' = [run EXCEPT ![n] = "idle"]
    \/ pchannel # Nobody /\ UNCHANGED <<pchannel, run>>

\* spice_session_channel_new.
channel_new(n) ==
    /\ life[n] = "none" /\ \A m \in Channels : m < n => life[m] \in {"dropped", "dead"}
    /\ life' = [life EXCEPT ![n] = "listed"]
    /\ slot' = n
    /\ Connected(n)
    /\ UNCHANGED <<channel, pipe, playing, sink, mmtime, clock, messages>>

\* spice_session_channel_destroy: the reference of the session is dropped, and
\* playback_channel stays.
channel_destroy(n) ==
    /\ life[n] = "listed"
    /\ IF run[n] \in {"off", "over"}
       THEN life' = [life EXCEPT ![n] = "dead"] /\ Finalized(n)
       ELSE life' = [life EXCEPT ![n] = "dropped"] /\ UNCHANGED backend
    /\ UNCHANGED <<run, channel, slot, clock, messages>>

\* spice_session_set_mm_time for MULTI_MEDIA_TIME and INIT of the main channel.
main_handle_mm_time ==
    /\ \A n \in Channels : ~on[n]
    /\ clock' = Nobody
    /\ UNCHANGED <<object, channel, slot, backend, messages>>

----------------------------------------------------------------------------
\* The coroutine of channel n.

Receive(n) ==
    /\ run[n] = "idle" /\ life[n] = "listed" /\ messages < MaxMessages
    /\ messages' = messages + 1
    /\ UNCHANGED <<life, slot>>

playback_handle_mode(n, m) ==
    /\ Receive(n) /\ ~on[n]
    /\ mode' = [mode EXCEPT ![n] = m]
    /\ UNCHANGED <<run, on, codec, is_active, fmt, volume, backend, clock>>

\* A decoder that cannot be made: the channel is active, and nobody is told.
playback_handle_start(n, f, made) ==
    /\ Receive(n) /\ (mode[n] = "raw" => made)
    /\ on' = [on EXCEPT ![n] = TRUE]
    /\ is_active' = [is_active EXCEPT ![n] = TRUE]
    /\ codec' = [codec EXCEPT ![n] = mode[n] # "raw" /\ made]
    /\ fmt' = [fmt EXCEPT ![n] = f]
    /\ run' = [run EXCEPT ![n] = IF made THEN "start" ELSE "idle"]
    /\ UNCHANGED <<mode, volume, backend, clock>>

Decodes(n) == mode[n] = "raw" \/ codec[n]

\* Data that cannot be decoded are dropped.
playback_handle_data(n) ==
    /\ Receive(n) /\ on[n]
    /\ run' = [run EXCEPT ![n] = IF Decodes(n) THEN "data" ELSE "idle"]
    /\ UNCHANGED <<channel, backend, clock>>

playback_handle_stop(n) ==
    /\ Receive(n) /\ on[n]
    /\ on' = [on EXCEPT ![n] = FALSE]
    /\ run' = [run EXCEPT ![n] = "stop"]
    /\ UNCHANGED <<mode, codec, is_active, fmt, volume, backend, clock>>

\* playback_handle_set_volume and playback_handle_set_mute, to the notification.
playback_handle_set_volume(n, v) ==
    /\ Receive(n)
    /\ volume' = [volume EXCEPT ![n] = v]
    /\ run' = [run EXCEPT ![n] = "volume"]
    /\ UNCHANGED <<on, mode, codec, is_active, fmt, backend, clock>>

\* spice_playback_channel_reset at the end of the coroutine.
Ends(n) ==
    /\ run[n] = "idle"
    /\ run' = [run EXCEPT ![n] = "ending"]
    /\ codec' = [codec EXCEPT ![n] = FALSE]
    /\ on' = [on EXCEPT ![n] = FALSE]
    /\ UNCHANGED <<life, mode, is_active, fmt, volume, slot, backend, clock, messages>>

\* spice_channel_delayed_unref.
Unref(n) ==
    /\ run[n] = "ended"
    /\ run' = [run EXCEPT ![n] = "over"]
    /\ IF life[n] = "dropped"
       THEN life' = [life EXCEPT ![n] = "dead"] /\ Finalized(n)
       ELSE UNCHANGED <<life, backend>>
    /\ UNCHANGED <<channel, slot, clock, messages>>

Inactive(n) == is_active' = [is_active EXCEPT ![n] = FALSE]

\* spice_playback_channel_reset of a channel that migrates, from the main context.
Migrated(n) ==
    /\ run[n] = "idle" /\ life[n] = "listed"
    /\ playback_stop
    /\ codec' = [codec EXCEPT ![n] = FALSE]
    /\ on' = [on EXCEPT ![n] = FALSE]
    /\ Inactive(n)
    /\ UNCHANGED <<object, mode, fmt, volume, slot, pchannel, clock, messages>>

\* The main loop runs the handlers of the emission, and the coroutine goes on.
Started(n) ==
    /\ run[n] = "start"
    /\ playback_start(fmt[n])
    /\ run' = [run EXCEPT ![n] = "idle"]
    /\ UNCHANGED <<life, channel, slot, pchannel, messages>>

\* playback_data: the buffer goes to the pipeline as it is.
Pushed(n) ==
    /\ run[n] = "data"
    /\ run' = [run EXCEPT ![n] = "idle"]
    /\ UNCHANGED <<life, channel, slot, backend, clock, messages>>

VolumeTold(n) ==
    /\ run[n] = "volume"
    /\ UNCHANGED volume /\ volume_changed(n)
    /\ run' = [run EXCEPT ![n] = "idle"]
    /\ UNCHANGED <<life, on, mode, codec, is_active, fmt, slot, pchannel, pipe,
                   playing, mmtime, clock, messages>>

Stopped(n) ==
    /\ run[n] \in {"stop", "ending"}
    /\ playback_stop
    /\ Inactive(n)
    /\ run' = [run EXCEPT ![n] = IF run[n] = "stop" THEN "idle" ELSE "ended"]
    /\ UNCHANGED <<life, on, mode, codec, fmt, volume, slot, pchannel, clock, messages>>

\* update_mmtime_timeout_cb.
update_mmtime ==
    /\ mmtime
    /\ clock' = ClockSet
    /\ UNCHANGED <<object, channel, slot, backend, messages>>

Next ==
    \/ update_mmtime \/ main_handle_mm_time
    \/ \E f \in Formats : get_volume(f)
    \/ \E n \in Channels :
          \/ channel_new(n) \/ channel_destroy(n) \/ Migrated(n) \/ Ends(n) \/ Unref(n)
          \/ \E m \in {"raw", "opus"} : playback_handle_mode(n, m)
          \/ \E f \in Formats, made \in BOOLEAN : playback_handle_start(n, f, made)
          \/ \E v \in Volumes : playback_handle_set_volume(n, v)
          \/ playback_handle_data(n) \/ playback_handle_stop(n)
          \/ Started(n) \/ Pushed(n) \/ VolumeTold(n) \/ Stopped(n)

Spec == Init /\ [][Next]_vars

----------------------------------------------------------------------------
\* The state is well formed.
TypeOK ==
    /\ life \in [Channels -> {"none", "listed", "dropped", "dead"}]
    /\ run \in [Channels -> {"off", "idle", "start", "data", "stop", "volume",
                             "ending", "ended", "over"}]
    /\ {on, codec, is_active} \subseteq [Channels -> BOOLEAN]
    /\ mode \in [Channels -> {"raw", "opus"}]
    /\ fmt \in [Channels -> Formats \cup {None}]
    /\ volume \in [Channels -> Volumes \cup {None}]
    /\ {slot, pchannel, clock} \subseteq Channels \cup {Nobody}
    /\ pipe \in Formats \cup {None} /\ sink \in Volumes \cup {None}
    /\ playing \in BOOLEAN /\ mmtime \in BOOLEAN
    /\ messages \in 0 .. MaxMessages

\* The timer that sets the clock of the session asks a pipeline and a channel:
\* both are there whenever it may run (update_mmtime_timeout_cb).
ClockHasChannel ==
    mmtime => /\ pipe # None /\ playing
              /\ pchannel # Nobody /\ life[pchannel] \in {"listed", "dropped"}

\* What is pushed into the pipeline is in the format it was made for, and the
\* pipeline plays, whatever came between the START and the data.
PlaysInFormat ==
    \A n \in Channels : run[n] = "data" => pchannel = n /\ pipe = fmt[n] /\ playing

\* The displays delay their frames by the clock of a channel that is active
\* (spice_session_is_playback_active): that channel plays, and set the clock.
ActiveSetsClock ==
    \A n \in Channels :
        (life[n] = "listed" /\ run[n] \in {"idle", "ended", "over"} /\ is_active[n] /\ Decodes(n)) =>
            playing /\ mmtime /\ clock = n

\* A sink that was told a volume has the one the server set last.
VolumeHeard ==
    \A n \in Channels :
        (run[n] = "idle" /\ sink # None /\ volume[n] # None /\ pipe # None) => sink = volume[n]

\* A session that gets a playback channel has none: "g_warn_if_fail
\* (s->playback_channel == NULL)" of spice_session_channel_new.
SlotFree == [][\A n \in Channels : life[n] = "none" /\ life'[n] = "listed" => slot = Nobody]_vars
=============================================================================
