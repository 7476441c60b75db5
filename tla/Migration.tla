----------------------------- MODULE Migration -----------------------------
(***************************************************************************)
(* Live migration of a session (channel-main.c, spice-session.c,           *)
(* channel-base.c): the main channel's coroutine connects a copy of the    *)
(* session to the target, every channel waiting frozen; then each channel  *)
(* swaps its connection with the one of its copy, when its own MIGRATE     *)
(* message arrives (seamless), or all at once around the target's INIT     *)
(* (semi-seamless).  The server may cancel, the application may disconnect.*)
(*                                                                         *)
(* A step runs from one return to the main loop to the next: the callback  *)
(* that resumes the main channel's coroutine includes what that coroutine  *)
(* does until it waits again.                                              *)
(***************************************************************************)
EXTENDS Integers, FiniteSets

CONSTANTS
  Channels, Main,   \* the channels of the session, and its main channel
  MayFail,          \* a connection to the target may fail
  MayDisconnect,    \* the application may disconnect the session
  MaxBegins         \* bound: migrations the source server begins

MigrationAssumption ==
  /\ IsFiniteSet(Channels) /\ Main \in Channels
  /\ {MayFail, MayDisconnect} \subseteq BOOLEAN
  /\ MaxBegins \in Nat

VARIABLES
  \* SpiceSessionPrivate; migration: there is a migration session
  ring, migration, migration_state, migration_left, full_migration,
  migrate_wait_init, after_main_init,
  frozen,     \* the channels of the session in state MIGRATING
  sock,       \* the host each channel of the session is connected to
  \* the main channel
  main,       \* its coroutine: "read", or parked in main_migrate_connect
  migrate_delayed,
  \* spice_migrate, on the stack of main_migrate_connect
  mig, connect_idle,
  \* the channels of the migration session, and their connections
  target, tsock,
  \* the source server, and the reply it had
  sent, reply, begins

sessVars == <<ring, migration, migration_state, migration_left, full_migration,
              migrate_wait_init, after_main_init, frozen, sock>>
srvVars  == <<sent, reply, begins>>
vars == <<sessVars, main, migrate_delayed, mig, connect_idle, target, tsock,
          srvVars>>

Hosts == {"src", "dst", "none"}

TypeOK ==
  /\ ring \subseteq Channels /\ frozen \subseteq Channels
  /\ migration_left \subseteq Channels
  /\ migration \in BOOLEAN /\ full_migration \in BOOLEAN
  /\ migration_state \in {"NONE", "MIGRATING"}
  /\ migrate_wait_init \in BOOLEAN /\ after_main_init \in BOOLEAN
  /\ sock \in [Channels -> Hosts] /\ tsock \in [Channels -> Hosts]
  /\ main \in {"read", "connect", "notify"}
  /\ migrate_delayed \in BOOLEAN /\ connect_idle \in BOOLEAN
  /\ mig \in [nchannels : 0 .. Cardinality(Channels), do_seamless : BOOLEAN]
  /\ target \in [Channels -> {"none", "connecting", "handshake", "shaken",
                              "ready", "failed", "lost"}]
  /\ sent \in {"none", "begin", "end"} /\ begins \in 0 .. MaxBegins
  /\ reply \in {"none", "ERROR", "CONNECTED", "CONNECTED_SEAMLESS"}

Init ==
  /\ ring = Channels /\ frozen = {} /\ migration_left = {}
  /\ migration = FALSE /\ migration_state = "NONE" /\ full_migration = FALSE
  /\ migrate_wait_init = FALSE /\ after_main_init = FALSE
  /\ sock = [c \in Channels |-> "src"] /\ tsock = [c \in Channels |-> "none"]
  /\ main = "read" /\ migrate_delayed = FALSE /\ connect_idle = FALSE
  /\ mig = [nchannels |-> 0, do_seamless |-> FALSE]
  /\ target = [c \in Channels |-> "none"]
  /\ sent = "none" /\ reply = "none" /\ begins = 0

-----------------------------------------------------------------------------
(* Functions of spice-session.c *)

\* session_disconnect of the migration session: its channels are destroyed; one
\* that was still connecting may yet report an error to migrate_channel_event_cb
DropTargets ==
  /\ target' = [c \in Channels |->
                  IF target[c] \in {"connecting", "lost"} THEN "lost" ELSE "none"]
  /\ tsock' = [c \in Channels |-> "none"]

\* spice_channel_swap, which refuses a connection that is not there
Swapped(cs) == {c \in cs : tsock[c] # "none"}
SwapSock(cs) ==
  [c \in Channels |-> IF c \in Swapped(cs) THEN tsock[c] ELSE sock[c]]
SwapTarget(cs) ==
  [c \in Channels |-> IF c \in Swapped(cs) THEN sock[c] ELSE tsock[c]]

\* spice_session_abort_migration of a session whose channels are in cs: those
\* that already migrated get their connection back
SwapNothing(cs) == sock
SwapBack(cs) == SwapSock(cs)
AbortMigration(cs) ==
  IF ~migration
    THEN UNCHANGED <<migration, migration_state, migration_left, after_main_init,
                     migrate_wait_init, sock, target, tsock>>
    ELSE /\ sock' = IF migration_state = "MIGRATING"
                      THEN SwapBack(cs \ migration_left) ELSE sock
         /\ migration' = FALSE /\ migration_left' = {}
         /\ migration_state' = "NONE"
         /\ migrate_wait_init' = FALSE /\ after_main_init' = FALSE
         /\ DropTargets

\* spice_session_channel_migrate of the channels cs: the last one ends it
ChannelMigrate(cs) ==
  LET left == migration_left \ cs IN
  /\ sock' = SwapSock(cs)
  /\ migration_left' = left
  /\ IF left = {}
       THEN /\ migration' = FALSE /\ migration_state' = "NONE"
            /\ DropTargets
       ELSE /\ tsock' = SwapTarget(cs)
            /\ UNCHANGED <<migration, migration_state, target>>

-----------------------------------------------------------------------------
(* Messages of the source server to the main channel *)

Reading(host) == Main \in ring /\ main = "read" /\ sock[Main] = host

\* main_migrate_connect up to its coroutine_yield (a second one would be refused
\* by spice_session_set_migration_session)
MigrateBegin(seamless) ==
  /\ Reading("src") /\ sent = "none" /\ begins < MaxBegins /\ ~migration
  /\ sent' = "begin" /\ begins' = begins + 1 /\ reply' = "none"
  /\ migration' = TRUE
  /\ mig' = [nchannels |-> 0, do_seamless |-> seamless]
  /\ connect_idle' = TRUE
  /\ main' = "connect"
  /\ UNCHANGED <<ring, migration_state, migration_left, full_migration,
                 migrate_wait_init, after_main_init, frozen, sock,
                 migrate_delayed, target, tsock>>

\* main_handle_migrate_cancel; a server cancels what it has not ended
MigrateCancel ==
  /\ Reading("src") /\ sent = "begin"
  /\ sent' = "none"
  /\ AbortMigration(ring)
  /\ UNCHANGED <<ring, full_migration, frozen, main, migrate_delayed, mig,
                 connect_idle, reply, begins>>

\* main_handle_migrate_end
MigrateEndMsg ==
  /\ Reading("src") /\ sent = "begin" /\ reply = "CONNECTED"
  /\ sent' = "end"
  /\ migrate_delayed' = TRUE
  /\ UNCHANGED <<sessVars, main, mig, connect_idle, target, tsock, reply, begins>>

\* spice_channel_handle_migrate on each channel, after a seamless connection
MigrateMsg(c) ==
  /\ c \in ring /\ main = "read" /\ sock[c] = "src"
  /\ sent \in {"begin", "end"} /\ reply = "CONNECTED_SEAMLESS"
  /\ sent' = IF c = Main THEN "end" ELSE sent
  /\ IF migration THEN ChannelMigrate({c})
       ELSE UNCHANGED <<sock, migration_left, migration, migration_state, target,
                        tsock>>
  /\ UNCHANGED <<ring, full_migration, migrate_wait_init, after_main_init, frozen,
                 main, migrate_delayed, mig, connect_idle, reply, begins>>

\* main_handle_init of the target, spice_session_migrate_after_main_init
MainInit ==
  /\ Reading("dst") /\ migrate_wait_init
  /\ migrate_wait_init' = FALSE
  /\ after_main_init' = TRUE
  /\ UNCHANGED <<ring, migration, migration_state, migration_left, full_migration,
                 frozen, sock, main, migrate_delayed, mig, connect_idle, target,
                 tsock, srvVars>>

-----------------------------------------------------------------------------
(* Callbacks of the main context *)

\* migrate_connect
MigrateConnect ==
  /\ connect_idle
  /\ connect_idle' = FALSE
  /\ target' = [target EXCEPT ![Main] = "connecting"]
  /\ mig' = [mig EXCEPT !.nchannels = 1]
  /\ UNCHANGED <<sessVars, main, migrate_delayed, tsock, srvVars>>

\* coroutine_yieldto(mig->from) once no channel is left to connect: the main
\* channel's coroutine enters spice_session_start_migrating, whose notification
\* yields before migration_left is set
Connected(n) ==
  IF n > 0
    THEN UNCHANGED <<main, full_migration, migration_state>>
    ELSE /\ main' = "notify"
         /\ full_migration' = mig.do_seamless
         /\ migration_state' = "MIGRATING"

Opened(c, host, n, others) ==
  /\ target' = [d \in Channels |-> IF d = c THEN host
                                   ELSE IF d \in others THEN "connecting"
                                   ELSE target[d]]
  /\ tsock' = [tsock EXCEPT ![c] = "dst"]
  /\ mig' = [mig EXCEPT !.nchannels = n]
  /\ Connected(n)

\* migrate_channel_event_cb, OPENED on the main channel: the others follow
ForgetHandshake(others) == Cardinality(others)
CountMainTwice(others) == Cardinality(others) + 2
StillToOpen(others) == Cardinality(others) + (IF mig.do_seamless THEN 1 ELSE 0)
MainOpened ==
  /\ target[Main] = "connecting" /\ mig.nchannels > 0
  /\ LET others == ring \ {Main} IN
     Opened(Main, IF mig.do_seamless THEN "handshake" ELSE "ready",
            StillToOpen(others), others)
  /\ UNCHANGED <<ring, migration, migration_left, migrate_wait_init,
                 after_main_init, frozen, sock, migrate_delayed, connect_idle,
                 srvVars>>

OtherOpened(c) ==
  /\ c # Main /\ target[c] = "connecting" /\ mig.nchannels > 0
  /\ Opened(c, "ready", mig.nchannels - 1, {})
  /\ UNCHANGED <<ring, migration, migration_left, migrate_wait_init,
                 after_main_init, frozen, sock, migrate_delayed, connect_idle,
                 srvVars>>

\* the target answers DO_SEAMLESS (ack or nack), or has no such capability
Handshake ==
  /\ target[Main] = "handshake"
  /\ target' = [target EXCEPT ![Main] = "shaken"]
  /\ mig' \in {mig, [mig EXCEPT !.do_seamless = FALSE]}
  /\ UNCHANGED <<sessVars, main, migrate_delayed, connect_idle, tsock, srvVars>>

\* main_migrate_handshake_done
HandshakeDone ==
  /\ target[Main] = "shaken"
  /\ target' = [target EXCEPT ![Main] = "ready"]
  /\ mig' = [mig EXCEPT !.nchannels = @ - 1]
  /\ Connected(mig.nchannels - 1)
  /\ UNCHANGED <<ring, migration, migration_left, migrate_wait_init,
                 after_main_init, frozen, sock, migrate_delayed, connect_idle,
                 tsock, srvVars>>

\* A connection fails: spice_channel_delayed_unref of a channel of the
\* migration session aborts the migration of that session, which has none, and
\* emits no event.
TargetFails(c) ==
  /\ MayFail /\ target[c] = "connecting"
  /\ target' = [target EXCEPT ![c] = "failed"]
  /\ UNCHANGED <<sessVars, main, migrate_delayed, mig, connect_idle, tsock, srvVars>>

\* A destroyed target channel has left: it emits its error, if it has one, and
\* migrate_channel_event_cb resumes the main channel's coroutine.  (If that has
\* left main_migrate_connect, the callback reads a variable that is gone; the
\* model stops following the session there.)
LostEvent(c) ==
  /\ target[c] = "lost"
  /\ target' = [target EXCEPT ![c] = "none"]
  /\ \/ UNCHANGED <<main, reply>>
     \/ main = "connect" /\ main' = "read" /\ reply' = "ERROR"
  /\ UNCHANGED <<sessVars, migrate_delayed, mig, connect_idle, tsock, sent, begins>>

\* the end of spice_session_start_migrating, and the reply
StartMigrating ==
  /\ main = "notify"
  /\ main' = "read"
  /\ migration_left' = ring
  /\ reply' = IF full_migration THEN "CONNECTED_SEAMLESS" ELSE "CONNECTED"
  /\ UNCHANGED <<ring, migration, migration_state, full_migration,
                 migrate_wait_init, after_main_init, frozen, sock,
                 migrate_delayed, mig, connect_idle, target, tsock, sent, begins>>

\* migrate_delayed: spice_session_migrate_end freezes and resets every channel
\* left, and moves the main one to the target
MigrateEnd ==
  /\ migrate_delayed
  /\ migrate_delayed' = FALSE
  /\ LET left == migration_left \ {Main} IN
     IF ~migration \/ migration_left = {}
       THEN UNCHANGED <<frozen, sock, target, tsock, migration, migration_state,
                        migration_left, migrate_wait_init>>
       ELSE /\ frozen' = frozen \cup left
            /\ sock' = [c \in Channels |-> IF c = Main THEN tsock[Main]
                                           ELSE IF c \in left THEN "none"
                                           ELSE sock[c]]
            /\ migration_left' = left
            /\ migrate_wait_init' = TRUE
            /\ IF left = {}
                 THEN /\ migration' = FALSE /\ migration_state' = "NONE"
                      /\ DropTargets
                 ELSE /\ tsock' = [tsock EXCEPT ![Main] = "none"]
                      /\ UNCHANGED <<migration, migration_state, target>>
  /\ UNCHANGED <<ring, full_migration, after_main_init, main, mig, connect_idle,
                 srvVars>>

ThawNothing == frozen
Thawed == frozen \ migration_left
AfterMainInit ==
  /\ after_main_init
  /\ after_main_init' = FALSE
  /\ frozen' = Thawed
  /\ ChannelMigrate(migration_left)
  /\ UNCHANGED <<ring, full_migration, migrate_wait_init, main, migrate_delayed,
                 mig, connect_idle, srvVars>>

\* session_disconnect_idle
SessionDisconnect ==
  /\ MayDisconnect /\ ring # {}
  /\ ring' = {} /\ frozen' = {}
  /\ AbortMigration({})
  /\ UNCHANGED <<full_migration, main, migrate_delayed, mig, connect_idle, srvVars>>

-----------------------------------------------------------------------------

Server == \/ \E s \in BOOLEAN : MigrateBegin(s)
          \/ MigrateCancel \/ MigrateEndMsg \/ MainInit
          \/ \E c \in Channels : MigrateMsg(c)
Loop == \/ MigrateConnect \/ MainOpened \/ Handshake \/ HandshakeDone
        \/ StartMigrating \/ MigrateEnd \/ AfterMainInit
        \/ \E c \in Channels : OtherOpened(c) \/ LostEvent(c)

Next == \/ Server \/ Loop
        \/ \E c \in Channels : TargetFails(c)
        \/ SessionDisconnect

Spec == Init /\ [][Next]_vars

\* GLib dispatches every callback; the hosts answer; a source server that was
\* told the target is connected ends the migration or cancels it.
Fairness == /\ WF_vars(Loop)
            /\ WF_vars(MigrateCancel \/ MigrateEndMsg \/ MainInit)
            /\ \A c \in Channels : WF_vars(OtherOpened(c)) /\ WF_vars(MigrateMsg(c))
FairSpec == Spec /\ Fairness

-----------------------------------------------------------------------------
(* Properties *)

\* The channels of a session never end up on different hosts, whatever the
\* interleaving of MIGRATE messages, cancellation, idles and disconnection: the
\* abstract specification HostSwitch.
AllOn(host) == \A c \in ring : sock[c] = host
at == IF ring = {} THEN "closed"
      ELSE IF migration THEN "moving"
      ELSE IF AllOn("src") THEN "src"
      ELSE IF AllOn("dst") THEN "dst" ELSE "mixed"
HostSwitch == INSTANCE HostSwitch
HostSwitchSpec == HostSwitch!Spec

\* A channel that migrate_end froze is one that after_main_init will thaw: it is
\* left to migrate, and the target's INIT or that idle is still to come.
FrozenIsLeft ==
  frozen # {} => /\ migration /\ frozen \subseteq migration_left
                 /\ migrate_wait_init \/ after_main_init

\* The server is told CONNECTED only when every channel has its connection to
\* the target and the seamless handshake is over.
ReplyIsReady ==
  (main = "notify" /\ migration) => \A c \in ring : target[c] = "ready"

\* "no need to track idle, call is sync for this coroutine": the callbacks that
\* hold the spice_migrate of main_migrate_connect, a variable on the stack of
\* its coroutine, run only while the coroutine waits in it, as long as the
\* application does not disconnect the session.
CallIsSync ==
  (ring # {} /\ (connect_idle \/ \E c \in Channels : target[c] \in {"lost", "shaken"}))
    => main = "connect"

\* A migration begins, and then ends or is aborted, unless a channel cannot
\* connect to the target.
MigrationEnds ==
  migration ~> (~migration \/ \E c \in Channels : target[c] = "failed")

\* "go back to main channel to report error": main_migrate_connect answers the
\* source server even when the target cannot be reached.
BeginAnswered == main = "connect" ~> main # "connect"
=============================================================================
