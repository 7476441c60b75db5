----------------------------- MODULE MCDesktop -----------------------------
(***************************************************************************)
(* The machines the user touches, for TLC: mouse and keyboard, the widget, *)
(* the clipboard, the displays and mouse mode of the main channel, the     *)
(* picture on the screen and the USB widget.  They share no state, so one  *)
(* of them runs at a time: a behaviour is that of the machine that "which" *)
(* names.  The screen has two instances, with the canvas and with GL.      *)
(***************************************************************************)
EXTENDS Integers, Sequences, FiniteSets
CONSTANTS
  AckBunch, Partial, MaxMotions, MaxButtons, MaxToggles, MaxBreaks,  \* of Inputs
  Keys, GrabKeys, nothing, Prompt, MaxQueue, MaxMoves, MaxFlips,     \* of Widget
  CrossingGrabs, MaxCopies, MaxGuestCopies, MaxPastes, MaxStops,     \* of Clipboard
  Displays, Channels, MouseModes, MaxOps, MaxEvents,                 \* of MainConfig
  Width, GlWidth, MaxImages, MaxShows, MaxChannels,                  \* of Screen
  Sizes, Heights,                                                    \* of Scaling
  Devices, UsbPrompt, MaxRoom, MaxChecks, MaxErrors                  \* of UsbWidget

VARIABLE which   \* the machine that runs
VARIABLES \* Inputs
  ready, reading, dx, dpy, asked, motion_count, queued, wire, toClient, locks, caps,
  server, moved, clicks, toggles, resets
VARIABLES \* Widget
  focus, over, events, inputs, w, moves, flips
VARIABLES \* Clipboard
  auto, main, connected, grabbed, byGuest, hasdata, targets, local, changes, lookups,
  reads, waits, agent, known, toAgent, clip_toClient, copies, guestCopies, pastes, stops
VARIABLES \* MainConfig
  display, timer, timer_id, main_agent, main_caps, sparse, due, sync, queries,
  generation, heard, requested, main_mode, supported, serverMode, serverModes, requests,
  modes, ops, main_events
VARIABLES \* Screen
  screen_c, attached, built, screen_d, realized, draws, images, shows, channels
VARIABLES \* Scaling
  window, area, scaling, only_downscale
VARIABLES \* UsbWidget
  plug, room, held, redirecting, calls, open, box, clickable, bar, lost, own, stale,
  uw_clicks, errors

I == INSTANCE Inputs WITH
       SPICE_INPUT_MOTION_ACK_BUNCH <- AckBunch, MaxMoves <- MaxMotions,
       MaxClicks <- MaxButtons, MaxResets <- MaxBreaks
W == INSTANCE Widget WITH None <- nothing
C == INSTANCE Clipboard WITH toClient <- clip_toClient
M == INSTANCE MainConfig WITH
       Modes <- MouseModes, agent <- main_agent, caps <- main_caps, mode <- main_mode,
       events <- main_events
S == INSTANCE Screen WITH
       Gl <- FALSE, Mixed <- FALSE, Anytime <- FALSE, c <- screen_c, d <- screen_d
G == INSTANCE Screen WITH
       Gl <- TRUE, Mixed <- FALSE, Anytime <- FALSE, c <- screen_c, d <- screen_d,
       Width <- GlWidth
Z == INSTANCE Scaling
U == INSTANCE UsbWidget WITH
       Prompt <- UsbPrompt, MaxClicks <- MaxChecks, clicks <- uw_clicks

Smallest == CHOOSE r \in Z!Rectangles : TRUE

inputsVars == <<ready, reading, dx, dpy, asked, motion_count, queued, wire, toClient,
                locks, caps, server, moved, clicks, toggles, resets>>
widgetVars == <<focus, over, events, inputs, w, moves, flips>>
clipboardVars == <<auto, main, connected, grabbed, byGuest, hasdata, targets, local,
                   changes, lookups, reads, waits, agent, known, toAgent, clip_toClient,
                   copies, guestCopies, pastes, stops>>
configVars == <<display, timer, timer_id, main_agent, main_caps, sparse, due, sync,
                queries, generation, heard, requested, main_mode, supported, serverMode,
                serverModes, requests, modes, ops, main_events>>
screenVars == <<screen_c, attached, built, screen_d, realized, draws, images, shows,
                channels>>
scalingVars == <<window, area, scaling, only_downscale>>
usbVars == <<plug, room, held, redirecting, calls, open, box, clickable, bar, lost, own,
             stale, uw_clicks, errors>>
mcvars == <<which, inputsVars, widgetVars, clipboardVars, configVars, screenVars,
            scalingVars, usbVars>>

\* Machine x takes the step: it is the one that runs, and the others keep still.
On(x) ==
  /\ which = x /\ UNCHANGED which
  /\ IF x = "inputs" THEN TRUE ELSE UNCHANGED inputsVars
  /\ IF x = "widget" THEN TRUE ELSE UNCHANGED widgetVars
  /\ IF x = "clipboard" THEN TRUE ELSE UNCHANGED clipboardVars
  /\ IF x = "config" THEN TRUE ELSE UNCHANGED configVars
  /\ IF x = "screen" \/ x = "screen2" THEN TRUE ELSE UNCHANGED screenVars
  /\ IF x = "scaling" THEN TRUE ELSE UNCHANGED scalingVars
  /\ IF x = "usb" THEN TRUE ELSE UNCHANGED usbVars

MCInit ==
  /\ which \in {"inputs", "widget", "clipboard", "config", "screen", "screen2", "scaling",
                "usb"}
  /\ I!Init /\ (which # "inputs" => locks = 0)
  /\ W!Init
  /\ C!Init /\ (which # "clipboard" => auto = TRUE)
  /\ M!Init /\ (which # "config" => requested = "client" /\ main_mode = "client")
  /\ S!Init /\ (which \notin {"screen", "screen2"} => screen_d.whole /\ screen_d.cap)
  /\ Z!Init /\ (which # "scaling" => window = Smallest /\ area = Smallest)
  /\ U!Init

MCNext ==
  \/ On("inputs") /\ I!MoveBy
  \/ On("inputs") /\ I!MoveTo
  \/ On("inputs") /\ I!Button
  \/ On("inputs") /\ I!Flush
  \/ On("inputs") /\ I!BeginRead
  \/ On("inputs") /\ I!HandleAck
  \/ On("inputs") /\ I!HandleModifiers
  \/ On("inputs") /\ I!ClientToggles
  \/ On("inputs") /\ I!Up
  \/ On("inputs") /\ I!Down
  \/ On("inputs") /\ I!ServerTakes
  \/ On("inputs") /\ I!GuestToggles
  \/ On("widget") /\ W!HandleEvent
  \/ On("widget") /\ W!KeyTimer
  \/ On("widget") /\ W!motion_event
  \/ On("widget") /\ W!button_event
  \/ On("widget") /\ W!grab_broken
  \/ On("widget") /\ W!grab_notify
  \/ On("widget") /\ W!inhibit_changed
  \/ On("widget") /\ W!update_mouse_mode
  \/ On("widget") /\ W!InputsChange
  \/ On("widget") /\ W!FocusMoves
  \/ On("widget") /\ W!PointerMoves
  \/ On("widget") /\ W!KeyMoves
  \/ On("clipboard") /\ C!AppCopies
  \/ On("clipboard") /\ C!clipboard_owner_change
  \/ On("clipboard") /\ C!clipboard_get_targets
  \/ On("clipboard") /\ C!CopyToGuest
  \/ On("clipboard") /\ C!PasteFromGuest
  \/ On("clipboard") /\ C!clipboard_get
  \/ On("clipboard") /\ C!LoopReturns
  \/ On("clipboard") /\ C!Received
  \/ On("clipboard") /\ C!GuestCopies
  \/ On("clipboard") /\ C!GuestPastes
  \/ On("clipboard") /\ C!AgentHandles
  \/ On("clipboard") /\ C!clipboard_grab
  \/ On("clipboard") /\ C!clipboard_release
  \/ On("clipboard") /\ C!clipboard_request
  \/ On("clipboard") /\ C!clipboard_got_from_guest
  \/ On("clipboard") /\ C!AgentStops
  \/ On("clipboard") /\ C!channel_destroy
  \/ On("clipboard") /\ C!AgentStarts
  \/ On("config") /\ M!UpdateDisplay
  \/ On("config") /\ M!SendConfig
  \/ On("config") /\ M!TimerFires
  \/ On("config") /\ M!AgentStarts
  \/ On("config") /\ M!AgentStops
  \/ On("config") /\ M!Announce
  \/ On("config") /\ M!VolumeRead
  \/ On("config") /\ M!RequestMouseMode
  \/ On("config") /\ M!HandleMode
  \/ On("config") /\ M!ServerHandles
  \/ On("config") /\ M!ServerChanges
  \/ On("config") /\ M!Reconnects
  \/ \E wide \in S!All, deep \in BOOLEAN : On("screen") /\ S!PrimaryCreate(wide, deep)
  \/ \E on \in BOOLEAN : On("screen") /\ S!Mark(on)
  \/ \E mine \in SUBSET S!All, alone \in BOOLEAN :
       \/ On("screen") /\ S!MonitorsConfig(mine, alone)
  \/ \E cols \in SUBSET S!All : On("screen") /\ S!Invalidate(cols)
  \/ On("screen") /\ S!PrimaryDestroy
  \/ On("screen") /\ S!Realize
  \/ On("screen") /\ S!Unrealize
  \/ On("screen") /\ S!ChannelNew
  \/ On("screen") /\ S!ChannelDestroy
  \/ On("screen") /\ S!GetPixbuf
  \/ \E wide \in G!All, deep \in BOOLEAN : On("screen2") /\ G!PrimaryCreate(wide, deep)
  \/ \E on \in BOOLEAN : On("screen2") /\ G!Mark(on)
  \/ \E mine \in SUBSET G!All, alone \in BOOLEAN :
       \/ On("screen2") /\ G!MonitorsConfig(mine, alone)
  \/ \E cols \in SUBSET G!All : On("screen2") /\ G!Invalidate(cols)
  \/ On("screen2") /\ G!PrimaryDestroy
  \/ On("screen2") /\ G!Realize
  \/ On("screen2") /\ G!Unrealize
  \/ On("screen2") /\ G!ChannelNew
  \/ On("screen2") /\ G!ChannelDestroy
  \/ On("screen2") /\ G!GlAreaRender
  \/ On("screen2") /\ G!GlDraw
  \/ \E wide \in 0 .. GlWidth : On("screen2") /\ G!GlScanout(wide)
  \/ \E r \in Z!Rectangles :
       \/ On("scaling") /\ Z!SizeAllocate(r)
       \/ On("scaling") /\ Z!UpdateArea(r)
  \/ On("scaling") /\ Z!SetProperty
  \/ \E u \in Devices :
       \/ On("usb") /\ U!Click(u)
       \/ On("usb") /\ U!DeviceAdded(u)
       \/ On("usb") /\ U!DeviceRemoved(u)
       \/ On("usb") /\ U!DeviceError(u)
  \/ \E i \in DOMAIN calls :
       \/ On("usb") /\ U!Answer(i)
       \/ On("usb") /\ U!Serve(i)
  \/ On("usb") /\ U!Constructed
  \/ On("usb") /\ U!Finalize
  \/ On("usb") /\ U!ChannelNew

MCSpec == MCInit /\ [][MCNext]_mcvars

\* Bound: the requests of the USB widget and of its manager that are under way at once.
FewCalls == Len(calls) <= 2

ASSUME DesktopAssumption ==
  /\ I!InputsAssumption /\ W!WidgetAssumption /\ M!MainConfigAssumption
  /\ S!ScreenAssumption /\ G!ScreenAssumption /\ Z!ScalingAssumption
  /\ U!UsbWidgetAssumption

-----------------------------------------------------------------------------
\* The variables of the seven machines have their types; no machine leaves a message half
\* built at the end of a step.
MCTypes ==
  /\ which = "inputs" => I!TypeOK
  /\ which = "widget" => W!TypeOK
  /\ which = "clipboard" => C!TypeOK
  /\ which = "config" => M!TypeOK
  /\ which = "screen" => S!TypeOK
  /\ which = "screen2" => G!TypeOK
  /\ which = "scaling" => Z!TypeOK
  /\ which = "usb" => U!TypeOK

\* Inputs channel (channel-inputs.c): every motion is sent, held or lost with the
\* connection, a motion that is held waits for an acknowledgement that will come, a
\* button follows the motions made before it, and the lock keys agree in the end.
InputsSafe ==
  which = "inputs" =>
    I!MotionConserved /\ I!HeldIsAwaited /\ I!ClickedAfterMotion /\ I!LocksAgree

\* Display widget, keyboard and mouse (spice-widget.c): a key the guest holds is
\* remembered, none is held once the widget has lost the keyboard, and a grab is one the
\* state of the widget allows.  USB widget (usb-device-widget.c): with no request under
\* way its check boxes say what is redirected, and can be clicked when they should.
WidgetSafe ==
  /\ which = "widget" => W!Remembered /\ W!NoKeyLeft /\ W!GrabsAllowed
  /\ which = "usb" => U!BoxTellsDevice /\ U!BoxesAreLive

\* Clipboard (spice-gtk-session.c, channel-main.c): with no message under way both sides
\* agree who owns the clipboard, never both, what the guest owns is held for it, and a
\* paste ends.
ClipboardSafe ==
  which = "clipboard" =>
    C!SidesAgree /\ C!NeverBoth /\ C!HeldForGuest /\ C!PasteIsAnswered

\* Main channel (channel-main.c): a change of the displays is told to the agent or a
\* timer will tell it, and the mouse mode asked for last is the one asked of the server.
ConfigSafe ==
  which = "config" => M!LayoutWillBeTold /\ M!ModeFollowed

\* Display widget, picture (spice-widget.c, spice-widget-cairo.c): what is drawn is a
\* live image, "ready" says what it must, a GL draw that waits for its answer is
\* remembered, the picture fits the window and the pointer reaches all of it.
ScreenSafe ==
  /\ which = "screen" => S!PictureIsLive /\ S!ReadyExact /\ S!DrawRemembered
  /\ which = "screen2" => G!PictureIsLive /\ G!ReadyExact /\ G!DrawRemembered
  /\ which = "scaling" => Z!Fits /\ Z!PointerReaches

\* Every GL draw of the server is answered (gl_draw_done), with the frames the widget
\* draws or when it cannot draw them: the frame clock draws the GL area (Screen!Fairness).
DrawAnswered == which = "screen2" /\ G!Fairness => G!DrawAnswered
============================================================================
