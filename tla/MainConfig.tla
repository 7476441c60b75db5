----------------------------- MODULE MainConfig -----------------------------
(***************************************************************************)
(* What the main channel tells the other side about the client            *)
(* (channel-main.c): the layout of its displays and the volume of its      *)
(* sound, to the agent of the guest, and the mouse mode that the           *)
(* application asked for, to the server.                                   *)
(*                                                                         *)
(* The layout is told by a timer that every change arms again; when the    *)
(* timer fires the agent may be gone, or a display may be missing, and     *)
(* then nothing is told until something arms it anew.  The volumes are     *)
(* read asynchronously, and the answer comes to whichever agent is there.  *)
(* The server and the agent are external.                                  *)
(***************************************************************************)
EXTENDS Naturals, FiniteSets, Sequences

CONSTANTS
    Displays,   \* the displays (c->display)
    Channels,   \* those that have a display channel (n_display_channels)
    Modes,      \* the mouse modes
    MaxOps,     \* calls of the application, bounded
    MaxEvents   \* what the agent and the server do by themselves, bounded

MainConfigAssumption == Channels \subseteq Displays

VARIABLES
    display,    \* display_state and whether the display has dimensions
    timer,      \* a timer runs that calls timer_set_display
    timer_id,   \* what the channel believes of it
    agent,      \* agent_connected
    caps,       \* agent_caps_received
    sparse,     \* the agent has the capability SPARSE_MONITORS_CONFIG
    due,        \* a change that was to be told was not told yet
    sync,       \* agent_volume_playback_sync (or _record_sync, they are alike)
    queries,    \* volumes that are being read: the agent they were read for
    generation, \* how many agents there have been
    heard,      \* how often the agent that is there was told the volume
    requested, mode, supported,  \* requested_mouse_mode, mouse_mode, what INIT said
    serverMode, serverModes,     \* the server: its mode, and what it can do
    requests,   \* MOUSE_MODE_REQUEST messages on their way
    modes,      \* MOUSE_MODE messages on their way: <<supported, current>>
    ops, events

layout == <<display, timer, timer_id, due>>
volume == <<sync, queries, heard>>
there  == <<agent, caps, sparse, generation>>
mouse  == <<requested, mode, supported, serverMode, serverModes, requests, modes>>
vars == <<layout, volume, there, mouse, ops, events>>

States == {"undefined", "enabled", "disabled"}

Init ==
    /\ display = [d \in Displays |-> [state |-> "undefined", sized |-> FALSE]]
    /\ timer = FALSE /\ timer_id = FALSE /\ due = FALSE
    /\ agent = FALSE /\ caps = FALSE /\ sparse = FALSE /\ generation = 0
    /\ sync = FALSE /\ queries = <<>> /\ heard = 0
    /\ requested \in Modes /\ mode \in Modes /\ serverMode = mode
    /\ supported = {mode} /\ serverModes = {mode}
    /\ requests = <<>> /\ modes = <<>> /\ ops = 0 /\ events = 0

----------------------------------------------------------------------------
\* The displays.

\* update_display_timer: the timer that runs is replaced.
update_display_timer == /\ timer' = TRUE /\ timer_id' = TRUE

Called == ops < MaxOps /\ ops' = ops + 1
Happens == events < MaxEvents /\ events' = events + 1

\* spice_main_channel_update_display and .._update_display_enabled.  A call
\* with update = FALSE leaves the telling to a later send_monitor_config.
Changed(shown, update) ==
    /\ display' = shown
    /\ IF update
       THEN update_display_timer /\ due' = TRUE
       ELSE UNCHANGED <<timer, timer_id>> /\ due' = (due /\ timer)
    /\ UNCHANGED <<volume, there, mouse, events>>

UpdateDisplay ==
    /\ Called
    /\ \E update \in BOOLEAN :
         \/ \E d \in Displays : Changed([display EXCEPT ![d].sized = ~@], update)
         \/ \E d \in Displays : \E s \in {"enabled", "disabled"} \ {display[d].state} :
              Changed([display EXCEPT ![d].state = s], update)
         \/ \E s \in {"enabled", "disabled"} : \* the display -1: all of them
              Changed([d \in Displays |-> [display[d] EXCEPT !.state = s]], update)

\* The layout can be told: some display has dimensions, and an agent that needs
\* every monitor is not left without one.
Tellable ==
    /\ \E d \in Displays : display[d].sized
    /\ ~(caps /\ sparse) => \A d \in Channels : display[d].state # "undefined"

\* spice_main_channel_send_monitor_config.
SendConfig ==
    /\ agent
    /\ Called
    /\ timer' = (timer /\ ~timer_id) /\ timer_id' = FALSE
    /\ due' = FALSE
    /\ UNCHANGED <<display, volume, there, mouse, events>>

\* timer_set_display.
TimerFires ==
    /\ timer
    /\ timer' = FALSE /\ timer_id' = FALSE
    /\ due' = (due /\ ~(agent /\ Tellable))
    /\ UNCHANGED <<display, volume, there, mouse, ops, events>>

----------------------------------------------------------------------------
\* The agent.

\* agent_start: the agent knows nothing yet.
AgentStarts ==
    /\ ~agent /\ Happens
    /\ agent' = TRUE /\ caps' = FALSE /\ sync' = FALSE
    /\ generation' = generation + 1 /\ heard' = 0
    /\ due' = TRUE
    /\ UNCHANGED <<display, timer, timer_id, sparse, queries, mouse, ops>>

\* agent_stopped and the reset of the channel, by spice_main_channel_reset_agent.
AgentStops ==
    /\ agent
    /\ agent' = FALSE /\ caps' = FALSE
    /\ UNCHANGED <<layout, volume, sparse, generation, mouse, ops, events>>

\* ANNOUNCE_CAPABILITIES: the layout is told at once, and the volumes are read.
Announce ==
    /\ agent /\ (caps => Happens) /\ (~caps => UNCHANGED events)
    /\ caps' = TRUE /\ sparse' \in BOOLEAN
    /\ update_display_timer
    /\ sync' = TRUE
    /\ queries' = IF sync THEN queries ELSE Append(queries, generation)
    /\ UNCHANGED <<agent, generation, display, due, heard, mouse, ops>>

\* audio_playback_volume_info_cb: the answer is told to the agent that is there,
\* and a failure allows another try.
VolumeRead ==
    /\ queries # <<>>
    /\ queries' = Tail(queries)
    /\ \/ heard' = (IF agent THEN heard + 1 ELSE heard) /\ UNCHANGED sync
       \/ sync' = FALSE /\ UNCHANGED heard
    /\ UNCHANGED <<layout, there, mouse, ops, events>>

----------------------------------------------------------------------------
\* The mouse mode.

\* spice_main_channel_request_mouse_mode.
Request(m) == requested' = m /\ requests' = Append(requests, m)

RequestMouseMode ==
    /\ Called
    /\ \E m \in Modes : Request(m)
    /\ UNCHANGED <<layout, volume, there, mode, supported, serverMode, serverModes,
                   modes, events>>

\* Mutant: the mode is taken, and the wish of the application forgotten.
OnlyTakes(can, now) == /\ mode' = now /\ UNCHANGED <<requested, requests>>

\* set_mouse_mode: the request is made again as soon as the server can follow it.
set_mouse_mode(can, now) ==
    /\ mode' = now
    /\ IF requested # now /\ requested \in can
       THEN Request(requested) ELSE UNCHANGED <<requested, requests>>

\* main_handle_mouse_mode, and main_handle_init.
HandleMode ==
    /\ modes # <<>>
    /\ modes' = Tail(modes)
    /\ supported' = Head(modes)[1]
    /\ set_mouse_mode(Head(modes)[1], Head(modes)[2])
    /\ UNCHANGED <<layout, volume, there, serverMode, serverModes, ops, events>>

\* The server follows a request that it can follow, and ignores another.
ServerHandles ==
    /\ requests # <<>>
    /\ requests' = Tail(requests)
    /\ IF Head(requests) \in serverModes /\ Head(requests) # serverMode
       THEN /\ serverMode' = Head(requests)
            /\ modes' = Append(modes, <<serverModes, Head(requests)>>)
       ELSE UNCHANGED <<serverMode, modes>>
    /\ UNCHANGED <<layout, volume, there, requested, mode, supported, serverModes,
                   ops, events>>

\* What the server can do changes, and it may have to change the mode too.
ServerChanges ==
    /\ Happens
    /\ serverModes' \in SUBSET Modes \ {{}, serverModes}
    /\ serverMode' \in serverModes'
    /\ serverMode \in serverModes' => serverMode' = serverMode
    /\ modes' = Append(modes, <<serverModes', serverMode'>>)
    /\ UNCHANGED <<layout, volume, there, requested, mode, supported, requests, ops>>

\* The channel is reset: what was on its way is lost; INIT comes with the next
\* connection.
Reconnects ==
    /\ Happens
    /\ requests' = <<>> /\ modes' = <<<<serverModes, serverMode>>>>
    /\ agent' = FALSE /\ caps' = FALSE /\ sync' = FALSE
    /\ UNCHANGED <<layout, queries, heard, sparse, generation, requested, mode,
                   supported, serverMode, serverModes, ops>>

Next ==
    \/ UpdateDisplay \/ SendConfig \/ TimerFires
    \/ AgentStarts \/ AgentStops \/ Announce \/ VolumeRead
    \/ RequestMouseMode \/ HandleMode \/ ServerHandles \/ ServerChanges \/ Reconnects

Spec == Init /\ [][Next]_vars

----------------------------------------------------------------------------
TypeOK ==
    /\ display \in [Displays -> [state : States, sized : BOOLEAN]]
    /\ {timer, timer_id, due, agent, caps, sparse, sync} \subseteq BOOLEAN
    /\ queries \in Seq(1..generation) /\ heard \in Nat
    /\ {requested, mode, serverMode} \subseteq Modes
    /\ supported \subseteq Modes /\ requests \in Seq(Modes)

\* No layout is left untold: while the agent is there and a layout that was to be
\* told can be told, a timer runs that will do it, whatever the order in which
\* the agent came, the application changed the displays and earlier timers fired
\* for nothing.
LayoutWillBeTold == agent /\ caps /\ due /\ Tellable => timer

\* The wish of the application is not lost between requests and modes that cross,
\* or in a reset of the channel: when nothing is under way the mode is the one
\* that was requested, or one that the server cannot follow.
ModeFollowed ==
    requests = <<>> /\ modes = <<>> => mode = requested \/ requested \notin supported

\* "only one per connection": an agent is told the volume at most once.
OneVolume == heard <= 1
=============================================================================
