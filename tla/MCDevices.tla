----------------------------- MODULE MCDevices -----------------------------
(***************************************************************************)
(* The machines of the devices, for TLC: USB redirection, smartcards, the  *)
(* shared folder and its pipes, and sound.  They share no state, so one of *)
(* them runs at a time: every behaviour is that of the machine "which"     *)
(* names.                                                                  *)
(***************************************************************************)
EXTENDS Integers, Sequences, FiniteSets, TLC
CONSTANTS
  UsbChannels, UsbDevices, Threads, MaxOps, MaxErrors,            \* of Usb
  Readers, MaxEvents, MaxResets,                                  \* of Smartcard
  Ids, Objects, Fallible, MaxFrames, MaxReplies, MaxCloses,       \* of Webdav
  MaxCount, MaxBytes,                                             \* of Pipe
  Specs, Early, MaxStarts, MaxAsks,                               \* of Pulse
  Frame, Sizes, MaxSamples, MaxRecordings,                        \* of Record
  Formats, Volumes, MaxChannels, MaxMessages,                     \* of Playback
  nobody

VARIABLE which   \* the machine that runs
VARIABLES \* Usb
  polkit, bus, devices, removed, channels, life, st, dev, helper, grab, redirecting,
  request, answers, asked, job, lock, listeners, raced, reader, errors
VARIABLES \* Smartcard
  present, cards, used, events, monitored, has_id, up, pending_reader_additions,
  pending_reader_removals, pending_card_insertions, message_queue, in_flight_message,
  net, server, before, changes, resets
VARIABLES \* Webdav
  opened, frames, pending, co, task, done, demuxing, demux, writing, delivered, clients,
  obj, queue, muxed, replies, closes
VARIABLES \* Pipe
  op, pipe_asked, closed, peer_closed, buffer, read, told, got
VARIABLES \* Pulse
  context, started, stream, spec, corked, cork_op, uncork_op, results, pulse_pending,
  restore, updated, name, pulse_opened, starts, asks
VARIABLES \* Record
  on, rec_started, last_frame, playing, samples, posting, rec_bus, blocked, wire, given,
  made, rec_starts
VARIABLES \* Playback
  pb_life, run, pb_on, mode, codec, is_active, fmt, volume, slot, pchannel, pipe,
  pb_playing, sink, mmtime, clock, messages

U == INSTANCE Usb WITH Channels <- UsbChannels, Devices <- UsbDevices, None <- nobody
S == INSTANCE Smartcard WITH None <- nobody
W == INSTANCE Webdav WITH None <- nobody
P == INSTANCE Pipe WITH asked <- pipe_asked
A == INSTANCE Pulse WITH pending <- pulse_pending, opened <- pulse_opened
R == INSTANCE Record WITH
       MaxStarts <- MaxRecordings, started <- rec_started, bus <- rec_bus,
       starts <- rec_starts
B == INSTANCE Playback WITH
       None <- nobody, life <- pb_life, on <- pb_on, playing <- pb_playing

usbVars == <<polkit, bus, devices, removed, channels, life, st, dev, helper, grab,
             redirecting, request, answers, asked, job, lock, listeners, raced, reader,
             errors>>
smartcardVars == <<present, cards, used, events, monitored, has_id, up,
                   pending_reader_additions, pending_reader_removals,
                   pending_card_insertions, message_queue, in_flight_message, net,
                   server, before, changes, resets>>
webdavVars == <<opened, frames, pending, co, task, done, demuxing, demux, writing,
                delivered, clients, obj, queue, muxed, replies, closes>>
pipeVars == <<op, pipe_asked, closed, peer_closed, buffer, read, told, got>>
pulseVars == <<context, started, stream, spec, corked, cork_op, uncork_op, results,
               pulse_pending, restore, updated, name, pulse_opened, starts, asks>>
recordVars == <<on, rec_started, last_frame, playing, samples, posting, rec_bus,
                blocked, wire, given, made, rec_starts>>
playbackVars == <<pb_life, run, pb_on, mode, codec, is_active, fmt, volume, slot,
                  pchannel, pipe, pb_playing, sink, mmtime, clock, messages>>
mcvars == <<which, usbVars, smartcardVars, webdavVars, pipeVars, pulseVars, recordVars,
            playbackVars>>

\* Machine x takes the step: it is the one that runs, and the others keep still.
On(x) ==
  /\ which = x /\ UNCHANGED which
  /\ IF x = "usb" THEN TRUE ELSE UNCHANGED usbVars
  /\ IF x = "smartcard" THEN TRUE ELSE UNCHANGED smartcardVars
  /\ IF x = "webdav" THEN TRUE ELSE UNCHANGED webdavVars
  /\ IF x = "pipe" THEN TRUE ELSE UNCHANGED pipeVars
  /\ IF x = "pulse" THEN TRUE ELSE UNCHANGED pulseVars
  /\ IF x = "record" THEN TRUE ELSE UNCHANGED recordVars
  /\ IF x = "playback" THEN TRUE ELSE UNCHANGED playbackVars

MCInit ==
  /\ which \in {"usb", "smartcard", "webdav", "pipe", "pulse", "record", "playback"}
  /\ U!Init /\ (which # "usb" => polkit)
  /\ S!Init /\ (which # "smartcard" => present = {})
  /\ W!Init /\ P!Init /\ A!Init /\ R!Init /\ B!Init

MCNext ==
  \/ \E d \in UsbDevices :
       \/ On("usb") /\ U!Plug(d)
       \/ On("usb") /\ U!Unplug(d)
       \/ On("usb") /\ U!ConnectDevice(d)
       \/ On("usb") /\ U!DisconnectDevice(d)
       \/ On("usb") /\ U!DisconnectAsync(d)
       \/ On("usb") /\ U!AddDev(d)
       \/ On("usb") /\ U!RemoveDev(d)
  \/ \E c \in UsbChannels :
       \/ On("usb") /\ U!ChannelNew(c)
       \/ On("usb") /\ U!HelperAnswers(c)
       \/ On("usb") /\ U!OpenAclCb(c)
       \/ On("usb") /\ U!HandleMsgFails(c)
       \/ On("usb") /\ U!DeviceError(c)
       \/ On("usb") /\ U!ChannelReset(c)
       \/ On("usb") /\ U!ChannelDestroy(c)
       \/ On("usb") /\ U!Dispose(c)
  \/ \E t \in U!Agents :
       \/ On("usb") /\ U!Open(t)
       \/ On("usb") /\ U!Opened(t)
       \/ On("usb") /\ U!Close(t)
       \/ On("usb") /\ U!Closed(t)
  \/ On("usb") /\ U!Tell
  \/ \E r \in Readers :
       \/ On("smartcard") /\ S!ReaderPlugged(r)
       \/ On("smartcard") /\ S!ReaderUnplugged(r)
       \/ On("smartcard") /\ S!CardInserted(r)
       \/ On("smartcard") /\ S!CardTaken(r)
  \/ On("smartcard") /\ S!Dispatch
  \/ On("smartcard") /\ S!UpCb
  \/ On("smartcard") /\ S!Answer
  \/ On("smartcard") /\ S!Reset
  \/ On("smartcard") /\ S!ChannelUp
  \/ \E c \in Ids, size \in BOOLEAN : On("webdav") /\ W!GuestWrites(c, size)
  \/ On("webdav") /\ W!ServerSends
  \/ On("webdav") /\ W!CoFeeds
  \/ On("webdav") /\ W!ReadDone
  \/ On("webdav") /\ W!WriteDone
  \/ \E o \in Objects :
       \/ On("webdav") /\ W!ServerReplies(o)
       \/ On("webdav") /\ W!ServerReplyCb(o)
  \/ On("webdav") /\ W!OutputIdle
  \/ On("webdav") /\ W!OutputFlushed
  \/ On("webdav") /\ W!PortOpened
  \/ On("webdav") /\ W!PortClosed
  \/ On("pipe") /\ P!Read
  \/ On("pipe") /\ P!Write
  \/ \E e \in P!Ends :
       \/ On("pipe") /\ P!Begin(e)
       \/ On("pipe") /\ P!Close(e)
  \/ On("pulse") /\ A!playback_start
  \/ On("pulse") /\ A!record_start
  \/ On("pulse") /\ A!PlaybackStop
  \/ On("pulse") /\ A!RecordStop
  \/ \E side \in A!Sides : On("pulse") /\ A!Ask(side)
  \/ On("pulse") /\ A!MinLatencyChanged
  \/ On("pulse") /\ A!LatencyUpdated
  \/ On("pulse") /\ A!CorkEnds
  \/ On("pulse") /\ A!UncorkEnds
  \/ On("pulse") /\ A!ContextReady
  \/ On("pulse") /\ A!ContextFails
  \/ On("pulse") /\ A!RestoreEntry
  \/ On("pulse") /\ A!RestoreEnds
  \/ On("pulse") /\ A!OwnEnds
  \/ On("record") /\ R!HandleStart
  \/ On("record") /\ R!HandleStop
  \/ On("record") /\ R!Reset
  \/ On("record") /\ R!Sample
  \/ On("record") /\ R!record_new_buffer
  \/ On("record") /\ R!record_bus_cb
  \/ On("record") /\ R!PullEnds
  \/ On("playback") /\ B!update_mmtime
  \/ On("playback") /\ B!main_handle_mm_time
  \/ \E f \in Formats : On("playback") /\ B!get_volume(f)
  \/ \E n \in B!Channels :
       \/ On("playback") /\ B!channel_new(n)
       \/ On("playback") /\ B!channel_destroy(n)
       \/ On("playback") /\ B!Migrated(n)
       \/ On("playback") /\ B!Ends(n)
       \/ On("playback") /\ B!Unref(n)
       \/ On("playback") /\ B!playback_handle_data(n)
       \/ On("playback") /\ B!playback_handle_stop(n)
       \/ On("playback") /\ B!Started(n)
       \/ On("playback") /\ B!Pushed(n)
       \/ On("playback") /\ B!VolumeTold(n)
       \/ On("playback") /\ B!Stopped(n)
  \/ \E n \in B!Channels, m \in {"raw", "opus"} :
       \/ On("playback") /\ B!playback_handle_mode(n, m)
  \/ \E n \in B!Channels, f \in Formats, ok \in BOOLEAN :
       \/ On("playback") /\ B!playback_handle_start(n, f, ok)
  \/ \E n \in B!Channels, v \in Volumes :
       \/ On("playback") /\ B!playback_handle_set_volume(n, v)

MCSpec == MCInit /\ [][MCNext]_mcvars

\* Threads, channels and devices are treated alike (in safety properties only).
Alike == Permutations(Threads) \union Permutations(UsbChannels) \union Permutations(UsbDevices)

\* Bound: one channel and two devices that come, or two channels and one device.
FewOnBus ==
  Cardinality({d \in UsbDevices : bus[d] # "away"})
    + Cardinality({c \in UsbChannels : life[c] # "new"}) <= 3

ASSUME DevicesAssumption ==
  /\ U!UsbAssumption /\ S!SmartcardAssumption /\ W!WebdavAssumption
  /\ P!PipeAssumption /\ R!RecordAssumption /\ B!PlaybackAssumption

-----------------------------------------------------------------------------
\* The variables of the seven machines have their types, and what the code bounds (the
\* frame that is filled, the references of a client) stays within its bounds.
MCTypes ==
  /\ which = "usb" => U!TypeOK
  /\ which = "smartcard" => S!TypeOK
  /\ which = "webdav" => W!TypeOK
  /\ which = "pipe" => P!TypeOK
  /\ which = "pulse" => A!TypeOK
  /\ which = "record" => R!TypeOK
  /\ which = "playback" => B!TypeOK

\* USB redirection (channel-usbredir.c, usb-device-manager.c): a device has one channel,
\* one that was unplugged is not kept open, an error disconnects the device it is of,
\* the keyboard grab is released with the last request, and the listeners are counted.
UsbSafe ==
  which = "usb" =>
    U!OneHolder /\ U!GoneIsReleased /\ U!ErrorIsOwn /\ U!Released /\ U!CountExact

\* Smartcard channel (channel-smartcard.c): an answer is taken for the reader it is
\* about, and when nothing is pending the server knows the readers and cards there are.
SmartcardSafe ==
  which = "smartcard" => S!AnswerFitsReader /\ S!ServerKnows

\* WebDAV channel (channel-webdav.c): what the guest writes to a client goes to that
\* client, one read of the stream is pending, frames to the guest are whole, and the
\* clients that are listed are alive.
WebdavSafe ==
  which = "webdav" => W!Routed /\ W!OneReader /\ W!MuxWhole /\ W!ClientsLive

\* Pipes (giopipe.c): every byte told written is taken once and in order, and a reader
\* and a writer never wait for each other.
PipeSafe ==
  which = "pipe" => P!TakenOnce /\ P!NobodyWaitsForBoth

\* PulseAudio back end (spice-pulse.c): a started channel plays once the context is
\* ready, a stopped one is silent, and every request for the volume is answered.
PulseSafe ==
  which = "pulse" =>
    A!PlaysWhenStarted /\ A!SilentWhenStopped /\ A!VolumeAnswered

\* Record channel and its GStreamer source (channel-record.c, spice-gstaudio.c): the
\* data sent are whole frames, a start mark comes before them, and no sample stays in
\* the sink with nobody told of it.
RecordSafe ==
  which = "record" => R!FramesAreWhole /\ R!MarkedFirst /\ R!SamplesAreFetched

\* Playback channel and its GStreamer sink (channel-playback.c, spice-gstaudio.c): the
\* clock of the session is set by a live channel and only while one plays, and data are
\* played in the format and at the volume the server last told.
PlaybackSafe ==
  which = "playback" =>
    B!ClockHasChannel /\ B!PlaysInFormat /\ B!ActiveSetsClock /\ B!VolumeHeard
============================================================================
