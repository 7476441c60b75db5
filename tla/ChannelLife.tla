---------------------------- MODULE ChannelLife ----------------------------
(***************************************************************************)
(* The life of one SpiceChannel: connecting (delayed idle, open_host, TLS, *)
(* link, authentication), running, disconnecting, reconnecting, switching  *)
(* host, and the references that keep the object alive (spice-channel.c,   *)
(* with spice_session_channel_open_host and spice_session_channel_destroy  *)
(* of spice-session.c).                                                    *)
(*                                                                         *)
(* Everything runs on the main thread.  The coroutine gives control back   *)
(* only where it parks, so a step of the coroutine goes from one park to   *)
(* the next decision; while "run" holds nothing else happens.              *)
(***************************************************************************)
EXTENDS Integers, FiniteSets

CONSTANTS
  HasPort, HasTlsPort,  \* the ports the session was given
  Roles,                \* the parts the channel may play in a migration
  MayDestroy,           \* the session may destroy the channel
  Reasons,              \* the reasons spice_channel_disconnect is given
  MaxConnects           \* bound: calls of channel_connect

ASSUME LifeAssumption ==
  /\ {HasPort, HasTlsPort, MayDestroy} \subseteq BOOLEAN
  /\ Roles \subseteq {"plain", "source", "target"}
  /\ Reasons \subseteq {"NONE", "CLOSED", "SWITCHING"}
  /\ MaxConnects \in Nat

VARIABLES
  state, event, has_error, tls, sock, connect_delayed,   \* SpiceChannelPrivate
  session,   \* the channel still points to its session
  role,      \* of a session that migrates, or of the one it migrates to
  migrating, \* in migration_left, between migrate_end and after_main_init
  leaked,    \* history: references that a migration makes the code forget
  major,     \* "protocol" of the session: 2, or 1 (spice 0.4)
  refs,      \* references to the channel
  unrefs,    \* idles of spice_channel_delayed_unref pending
  co, run,   \* where the coroutine is, and whether it has the control
  cond,      \* its condition source is attached (frozen)
  told,      \* history: what the last channel-event told the application
  asked,     \* history: it asked to disconnect and has not connected since
  connects   \* history: calls of channel_connect

connVars == <<state, event, has_error, tls, sock, connect_delayed>>
histVars == <<told, asked, connects>>
sessVars == <<session, role, migrating, leaked>>
vars == <<connVars, sessVars, major, refs, unrefs, co, run, cond, histVars>>

Errors == {"ERROR_CONNECT", "ERROR_TLS", "ERROR_LINK", "ERROR_AUTH", "ERROR_IO"}
Events == Errors \cup {"NONE", "OPENED", "CLOSED", "SWITCHING"}
States == {"UNCONNECTED", "RECONNECTING", "CONNECTING", "READY", "SWITCHING",
           "MIGRATING"}
\* parks that set wait_id, so that g_coroutine_wakeup resumes them
SocketWaits == {"tls", "hdr", "msg", "auth", "wait_in"}
\* parks nothing but their own callback ends
Callbacks == {"open_idle", "opening", "opened", "frozen"}

TypeOK ==
  /\ state \in States /\ event \in Errors \cup {"NONE"}
  /\ has_error \in BOOLEAN /\ tls \in BOOLEAN /\ sock \in BOOLEAN
  /\ connect_delayed \in BOOLEAN /\ session \in BOOLEAN /\ major \in {1, 2}
  /\ role \in Roles /\ migrating \in BOOLEAN /\ leaked \in 0 .. connects
  /\ refs \in Nat /\ unrefs \in Nat
  /\ co \in SocketWaits \cup Callbacks
              \cup {"none", "start", "connected", "iterate", "cleanup", "stuck"}
  /\ run \in BOOLEAN /\ cond \in BOOLEAN
  /\ told \in Events /\ asked \in BOOLEAN /\ connects \in 0 .. MaxConnects

Init ==
  /\ state = "UNCONNECTED" /\ event = "NONE" /\ has_error = FALSE
  /\ tls = FALSE /\ sock = FALSE /\ connect_delayed = FALSE
  /\ session = TRUE /\ major = 2 /\ refs = 1 /\ unrefs = 0
  /\ role \in Roles /\ migrating = FALSE /\ leaked = 0
  /\ co = "none" /\ run = FALSE /\ cond = FALSE
  /\ told = "NONE" /\ asked = FALSE /\ connects = 0

-----------------------------------------------------------------------------
(* Calls made on the main context *)

MainLoop == ~run /\ refs > 0

\* channel_connect with TLS flag t; from the coroutine the reference it drops
\* right after is the one its own start took
ChannelConnect(t, dropped) ==
  /\ connects < MaxConnects
  /\ IF session
       THEN /\ state' = "CONNECTING" /\ tls' = t
            /\ connect_delayed' = TRUE
            /\ refs' = refs + 1 - dropped
            /\ connects' = connects + 1
       ELSE /\ refs' = refs - dropped
            /\ UNCHANGED <<state, tls, connect_delayed, connects>>

NotConnecting == state \in {"UNCONNECTED", "RECONNECTING"}

\* spice_channel_connect: a no-op unless nothing goes on
Connect ==
  /\ MainLoop
  /\ NotConnecting
  /\ ~sock
  /\ ChannelConnect(FALSE, 0)
  /\ asked' = FALSE /\ told' = "NONE"
  /\ UNCHANGED <<event, has_error, sock, sessVars, major, unrefs, co, run, cond>>

\* g_coroutine_wakeup: the coroutine runs before the call returns
Wakeup == run' = (co \in SocketWaits)

\* spice_channel_disconnect, on a channel whose state is not UNCONNECTED
Break(reason) ==
  /\ has_error' = TRUE
  /\ LET s == IF reason = "SWITCHING" THEN "SWITCHING" ELSE state IN
     IF s = "MIGRATING"
       THEN state' = "READY" /\ UNCHANGED <<run, cond>>
       ELSE state' = s /\ Wakeup /\ cond' = FALSE
  /\ told' = IF reason = "NONE" THEN told ELSE reason
  /\ UNCHANGED <<event, tls, sock, connect_delayed, major, unrefs, co, connects>>

Disconnect ==
  /\ MainLoop /\ state # "UNCONNECTED"
  /\ \E r \in Reasons : Break(r) /\ asked' = (asked \/ r # "SWITCHING")
  /\ UNCHANGED <<sessVars, refs>>

\* spice_session_channel_destroy: clear the session, disconnect, unref
Destroy ==
  /\ MainLoop /\ MayDestroy /\ session
  /\ session' = FALSE /\ migrating' = FALSE /\ UNCHANGED <<role, leaked>>
  /\ refs' = refs - 1
  /\ asked' = TRUE
  /\ IF state = "UNCONNECTED"
       THEN UNCHANGED <<connVars, major, unrefs, co, run, cond, told, connects>>
       ELSE Break("NONE")

\* spice_session_migrate_end on a channel other than the main one: freeze and
\* reset it; nobody drops the reference of a connect the reset cancels
MigrateEnd ==
  /\ MainLoop /\ role = "source" /\ session /\ ~migrating
  /\ migrating' = TRUE
  /\ state' = "MIGRATING"
  /\ sock' = FALSE /\ connect_delayed' = FALSE
  /\ leaked' = leaked + (IF connect_delayed THEN 1 ELSE 0)
  /\ UNCHANGED <<event, has_error, tls, session, role, major, refs, unrefs, co,
                 run, cond, histVars>>

\* after_main_init swaps the connection of the target in, or
\* spice_session_abort_migration forgets the channel
AfterMainInit ==
  /\ MainLoop /\ migrating
  /\ migrating' = FALSE
  /\ \/ state' = "READY" /\ sock' \in {sock, TRUE}
     \/ UNCHANGED <<state, sock>>
  /\ UNCHANGED <<event, has_error, tls, connect_delayed, session, role, leaked,
                 major, refs, unrefs, co, run, cond, histVars>>

-----------------------------------------------------------------------------
(* Sources dispatched by the main loop *)

Resume(where) == run' = TRUE /\ co' = where

\* connect_delayed starts the coroutine
ConnectDelayed ==
  /\ MainLoop /\ connect_delayed
  /\ connect_delayed' = FALSE
  /\ Resume("start")
  /\ UNCHANGED <<state, event, has_error, tls, sock, sessVars, major, refs,
                 unrefs, cond, histVars>>

\* open_host_idle_cb: nobody resumes the coroutine when the channel has lost
\* its session
OpenHostIdle ==
  /\ MainLoop /\ co = "open_idle"
  /\ co' = IF session THEN "opening" ELSE "stuck"
  /\ UNCHANGED <<connVars, sessVars, major, refs, unrefs, run, cond, histVars>>

\* socket_client_connect_ready
ConnectReady ==
  /\ MainLoop /\ co = "opening"
  /\ \/ sock' = TRUE /\ Resume(IF tls THEN "tls" ELSE "connected")
        /\ UNCHANGED event
     \/ event' = "ERROR_CONNECT" /\ Resume("cleanup") /\ UNCHANGED sock
  /\ UNCHANGED <<state, has_error, tls, connect_delayed, sessVars, major, refs,
                 unrefs, cond, histVars>>

SocketReady ==
  /\ MainLoop /\ co \in SocketWaits
  /\ Resume(co)
  /\ UNCHANGED <<connVars, sessVars, major, refs, unrefs, cond, histVars>>

\* the idle that emits OPENED: migrate_channel_event_cb freezes a target
OpenedEmitted ==
  /\ MainLoop /\ co = "opened"
  /\ told' = "OPENED"
  /\ state' = IF role = "target" THEN "MIGRATING" ELSE state
  /\ Resume("iterate")
  /\ UNCHANGED <<event, has_error, tls, sock, connect_delayed, sessVars, major,
                 refs, unrefs, cond, asked, connects>>

ThawFrozen ==
  /\ MainLoop /\ co = "frozen" /\ cond /\ state # "MIGRATING"
  /\ cond' = FALSE
  /\ Resume("iterate")
  /\ UNCHANGED <<connVars, sessVars, major, refs, unrefs, histVars>>

\* what spice_channel_delayed_unref emits for a pending event and a channel
\* that was READY
ClosedOnly(was_ready) == IF was_ready THEN "CLOSED" ELSE told
LastEvent(was_ready) == IF was_ready THEN "CLOSED"
                        ELSE IF event # "NONE" THEN event ELSE told

\* For a channel of the migration session it stops at the state: it calls
\* spice_session_abort_migration, a no-op on that session (its own migration is
\* NULL), and returns.
DelayedUnref ==
  /\ MainLoop /\ unrefs > 0
  /\ unrefs' = unrefs - 1
  /\ state' = "UNCONNECTED"
  /\ IF role = "target" /\ session
       THEN leaked' = leaked + 1 /\ UNCHANGED <<event, told, refs>>
       ELSE /\ told' = LastEvent(state = "READY")
            /\ event' = "NONE"
            /\ refs' = refs - 1
            /\ UNCHANGED leaked
  /\ UNCHANGED <<has_error, tls, sock, connect_delayed, session, role, migrating,
                 major, co, run, cond, asked, connects>>

-----------------------------------------------------------------------------
(* The coroutine *)

At(where) == run /\ co = where
Park(where) == run' = FALSE /\ co' = where
Goto(where) == run' = TRUE /\ co' = where
FailAndReturn(e) == event' = e /\ Park("none")
Fail(e) == event' = e /\ Goto("cleanup")

\* spice_session_channel_open_host, tried without and then with TLS
Start ==
  /\ At("start")
  /\ LET port == session /\ (IF tls THEN HasTlsPort ELSE HasPort)
     IN IF port THEN Park("open_idle") /\ UNCHANGED <<event, tls>>
        ELSE IF ~tls THEN tls' = TRUE /\ Goto("start") /\ UNCHANGED event
        ELSE Fail("ERROR_CONNECT") /\ UNCHANGED tls
  /\ UNCHANGED <<state, has_error, sock, connect_delayed, sessVars, major, refs,
                 unrefs, cond, histVars>>

\* SSL_connect; the loop around it does not look at has_error
TlsConnect ==
  /\ At("tls")
  /\ \/ Park("tls") /\ UNCHANGED event
     \/ Goto("connected") /\ UNCHANGED event
     \/ Fail("ERROR_TLS")
  /\ UNCHANGED <<state, has_error, tls, sock, connect_delayed, sessVars, major,
                 refs, unrefs, cond, histVars>>

\* the label "connected", spice_channel_send_link
Connected ==
  /\ At("connected")
  /\ has_error' = FALSE
  /\ Park("hdr")
  /\ UNCHANGED <<state, event, tls, sock, connect_delayed, sessVars, major, refs,
                 unrefs, cond, histVars>>

\* a failed spice_channel_recv_link_hdr falls back to protocol 1 first
RecvLinkHdr ==
  /\ At("hdr")
  /\ \/ /\ ~has_error
        /\ co' \in {"hdr", "msg"} /\ run' = (co' = "msg")
        /\ UNCHANGED <<state, event, has_error, major>>
     \/ /\ has_error' = TRUE
        /\ IF major = 2
             THEN /\ state' = "RECONNECTING" /\ major' = 1
                  /\ Goto("cleanup") /\ UNCHANGED event
             ELSE Fail("ERROR_LINK") /\ UNCHANGED <<state, major>>
  /\ UNCHANGED <<tls, sock, connect_delayed, sessVars, refs, unrefs, cond,
                 histVars>>

\* spice_channel_recv_link_msg: wait, go on, switch to TLS, or fail
RecvLinkMsg ==
  /\ At("msg")
  /\ \/ /\ ~has_error
        /\ co' \in {"msg", "auth"} /\ run' = (co' = "auth")
        /\ UNCHANGED <<state, event, has_error, tls>>
     \/ /\ ~has_error
        /\ state' = "RECONNECTING" /\ tls' = TRUE
        /\ Goto("cleanup") /\ UNCHANGED <<event, has_error>>
     \/ /\ has_error' = TRUE
        /\ \E e \in {"ERROR_LINK", "ERROR_AUTH"} : Fail(e)
        /\ UNCHANGED <<state, tls>>
  /\ UNCHANGED <<sock, connect_delayed, sessVars, major, refs, unrefs, cond,
                 histVars>>

\* spice_channel_recv_auth
RecvAuth ==
  /\ At("auth")
  /\ \/ /\ ~has_error
        /\ Park("auth") /\ UNCHANGED <<state, event, has_error>>
     \/ /\ ~has_error
        /\ state' = "READY"
        /\ Park("opened") /\ UNCHANGED <<event, has_error>>
     \/ Fail("ERROR_LINK") /\ UNCHANGED <<state, has_error>>
     \/ /\ ~has_error /\ has_error' = TRUE
        /\ Fail("ERROR_AUTH") /\ UNCHANGED state
  /\ UNCHANGED <<tls, sock, connect_delayed, sessVars, major, refs, unrefs, cond,
                 histVars>>

\* the event of a broken socket (G_IO_ERR)
SocketEvent == CASE state = "READY" -> "ERROR_IO"
                 [] state \in {"SWITCHING", "MIGRATING"} -> "ERROR_LINK"
                 [] OTHER -> event

\* spice_channel_iterate: freeze, exit, or write and wait for input
Iterate ==
  /\ At("iterate")
  /\ \/ /\ state = "MIGRATING"
        /\ Park("frozen") /\ cond' = TRUE
        /\ UNCHANGED event
     \/ /\ state # "MIGRATING" /\ ~has_error
        /\ Park("wait_in")
        /\ UNCHANGED <<event, cond>>
     \/ /\ state # "MIGRATING" /\ has_error
        /\ Goto("cleanup")
        /\ event' \in {event, SocketEvent}
        /\ UNCHANGED cond
  /\ UNCHANGED <<state, has_error, tls, sock, connect_delayed, sessVars, major,
                 refs, unrefs, histVars>>

\* spice_channel_iterate_read: the connection breaks, or nothing of note
IterateRead ==
  /\ At("wait_in")
  /\ has_error' \in {has_error, TRUE}
  /\ Goto("iterate")
  /\ UNCHANGED <<state, event, tls, sock, connect_delayed, sessVars, major, refs,
                 unrefs, cond, histVars>>

StartAgain == {"RECONNECTING", "SWITCHING"}
RestartKeepsRef == ChannelConnect(tls, 0)
Restart == ChannelConnect(tls, 1)

\* the label "cleanup": channel_reset, then connect again or leave
Cleanup ==
  /\ At("cleanup")
  /\ sock' = FALSE
  /\ Park("none")
  /\ IF state \in StartAgain
       THEN Restart /\ UNCHANGED unrefs
       ELSE /\ unrefs' = unrefs + 1
            /\ UNCHANGED <<state, tls, connect_delayed, refs, connects>>
  /\ UNCHANGED <<event, has_error, sessVars, major, cond, told, asked>>

Coroutine == \/ Start \/ TlsConnect \/ Connected \/ RecvLinkHdr \/ RecvLinkMsg
             \/ RecvAuth \/ Iterate \/ IterateRead \/ Cleanup
Sources == \/ ConnectDelayed \/ OpenHostIdle \/ ConnectReady \/ SocketReady
           \/ OpenedEmitted \/ ThawFrozen \/ DelayedUnref
Calls == Connect \/ Disconnect \/ Destroy \/ MigrateEnd \/ AfterMainInit

Next == Coroutine \/ Sources \/ Calls

Spec == Init /\ [][Next]_vars

\* GLib dispatches every ready source; a server answers or the socket fails,
\* so that no phase of the connection waits for ever.
Answered == \/ TlsConnect /\ co' # "tls"
            \/ RecvLinkHdr /\ co' # "hdr"
            \/ RecvLinkMsg /\ co' # "msg"
            \/ RecvAuth /\ co' # "auth"
Fairness == /\ WF_vars(Coroutine)
            /\ SF_vars(ConnectDelayed) /\ SF_vars(DelayedUnref)
            /\ SF_vars(OpenHostIdle \/ ConnectReady \/ OpenedEmitted \/ ThawFrozen)
            /\ WF_vars(SocketReady /\ co # "wait_in") /\ SF_vars(Answered)

-----------------------------------------------------------------------------
(* Properties *)

Count(b) == IF b THEN 1 ELSE 0
Activities == Count(connect_delayed) + Count(co # "none") + unrefs

\* The channel is referenced once by its session and once by whatever stage of
\* its coroutine is pending, so no callback runs on a finalized channel; the
\* only references lost are those of the connects migrate_end cancels and of the
\* targets that spice_channel_delayed_unref does not release.
RefExact == refs = Count(session) + Activities + leaked

\* connect_delayed, the coroutine and spice_channel_delayed_unref never overlap:
\* coroutine_init does not reuse the stack of a coroutine that still runs.
OneLife == Activities <= 1

\* Outside of a migration, a connection the application did not ask to end, nor
\* the session, ends with an event that says so (CLOSED, an error, or SWITCHING).
EndIsTold ==
  (role = "plain" /\ state = "UNCONNECTED" /\ connects > 0 /\ ~asked)
    => told \in Errors \cup {"CLOSED", "SWITCHING"}

\* No callback of the channel runs on freed memory or in a life that is over, and no
\* life is over without the application being told.
LifeSafe == RefExact /\ OneLife /\ EndIsTold

\* Connecting comes to an end, whatever the ports, TLS and protocol fallbacks.
ConnectEnds ==
  (state = "CONNECTING" /\ session) ~> (state # "CONNECTING" \/ ~session)

\* Outside of a migration, a channel that was disconnected, or broke, while READY
\* leaves that state (the loop around spice_channel_iterate ends).
ReadyEnds ==
  (role = "plain" /\ state = "READY" /\ has_error) ~> (state # "READY")
=============================================================================
