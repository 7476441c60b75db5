----------------------------- MODULE MCSession -----------------------------
(***************************************************************************)
(* The machines of a session and its channels, for TLC: the life of a      *)
(* channel, the migration of a session, authentication, and the transmit   *)
(* queue at bounds small enough for its liveness (MCChannelXmit has the    *)
(* larger ones).  Each models what it needs of the others, so one of them  *)
(* runs at a time: every behaviour is that of the machine "which" names.   *)
(***************************************************************************)
EXTENDS ChannelLife
CONSTANTS
  Channels, MainChannel, MayFail, MayDisconnect, MaxBegins,   \* of Migration
  MaxRounds, MaxTypos, MaxBreaks, MaxHalves,                  \* of Auth
  usb, loop, none, ack, f1                                    \* of ChannelXmit

VARIABLE which   \* the machine that runs
VARIABLES \* Migration
  ring, migration, migration_state, migration_left, full_migration, migrate_wait_init,
  after_main_init, frozen, migr_sock, main, migrate_delayed, mig, connect_idle, target,
  tsock, sent, reply, begins
VARIABLES \* Auth
  method, asks, late, user, password, pc, auth_has_error, auth_event, error, needs, err,
  sasl_conn, decoded, wire, turn, accepted, opened, closing, rounds, typos, breaks,
  halves
VARIABLES \* ChannelXmit
  xmit_queue, xmit_queue_blocked, xmit_queue_wakeup_id, xmit_queue_size, xmit_state,
  xmit_has_error, flushing, lock, xmit_pc, xmit_sent, was_empty, loaded, sources,
  xmit_main, xmit_co, xmit_cond, cur, fits, received, conns, xmit_accepted, xmit_wire,
  xmit_target, result

M == INSTANCE Migration WITH Main <- MainChannel, sock <- migr_sock
A == INSTANCE Auth WITH has_error <- auth_has_error, event <- auth_event
X == INSTANCE ChannelXmit WITH
       Producers <- {usb}, Main <- loop, None <- none, Ack <- ack, Tasks <- {f1},
       ReadOnlyMsgs <- {}, MaxMsgs <- 1, MaxReceived <- 1, MaxConns <- 1,
       SizeModulus <- 256, state <- xmit_state, has_error <- xmit_has_error,
       pc <- xmit_pc, sent <- xmit_sent, main <- xmit_main, co <- xmit_co,
       cond <- xmit_cond, accepted <- xmit_accepted, wire <- xmit_wire,
       target <- xmit_target

migrationVars == <<ring, migration, migration_state, migration_left, full_migration,
                   migrate_wait_init, after_main_init, frozen, migr_sock, main,
                   migrate_delayed, mig, connect_idle, target, tsock, sent, reply,
                   begins>>
authVars == <<method, asks, late, user, password, pc, auth_has_error, auth_event, error,
              needs, err, sasl_conn, decoded, wire, turn, accepted, opened, closing,
              rounds, typos, breaks, halves>>
xmitVars == <<xmit_queue, xmit_queue_blocked, xmit_queue_wakeup_id, xmit_queue_size,
              xmit_state, xmit_has_error, flushing, lock, xmit_pc, xmit_sent, was_empty,
              loaded, sources, xmit_main, xmit_co, xmit_cond, cur, fits, received,
              conns, xmit_accepted, xmit_wire, xmit_target, result>>
mcvars == <<which, vars, migrationVars, authVars, xmitVars>>

\* Machine x takes the step: it is the one that runs, and the others keep still.
On(x) ==
  /\ which = x /\ UNCHANGED which
  /\ IF x = "life" THEN TRUE ELSE UNCHANGED vars
  /\ IF x = "migration" THEN TRUE ELSE UNCHANGED migrationVars
  /\ IF x = "auth" THEN TRUE ELSE UNCHANGED authVars
  /\ IF x = "xmit" THEN TRUE ELSE UNCHANGED xmitVars

MCInit ==
  /\ which \in {"life", "migration", "auth", "xmit"}
  /\ Init /\ (which # "life" => role = "plain")
  /\ M!Init /\ X!Init
  /\ A!Init /\ (which # "auth" => method = "ticket")

MCNext ==
  \/ On("life") /\ Start
  \/ On("life") /\ TlsConnect
  \/ On("life") /\ Connected
  \/ On("life") /\ RecvLinkHdr
  \/ On("life") /\ RecvLinkMsg
  \/ On("life") /\ RecvAuth
  \/ On("life") /\ Iterate
  \/ On("life") /\ IterateRead
  \/ On("life") /\ Cleanup
  \/ On("life") /\ ConnectDelayed
  \/ On("life") /\ OpenHostIdle
  \/ On("life") /\ ConnectReady
  \/ On("life") /\ SocketReady
  \/ On("life") /\ OpenedEmitted
  \/ On("life") /\ ThawFrozen
  \/ On("life") /\ DelayedUnref
  \/ On("life") /\ Connect
  \/ On("life") /\ Disconnect
  \/ On("life") /\ Destroy
  \/ On("life") /\ MigrateEnd
  \/ On("life") /\ AfterMainInit
  \/ \E s \in BOOLEAN : On("migration") /\ M!MigrateBegin(s)
  \/ On("migration") /\ M!MigrateCancel
  \/ On("migration") /\ M!MigrateEndMsg
  \/ On("migration") /\ M!MainInit
  \/ On("migration") /\ M!MigrateConnect
  \/ On("migration") /\ M!MainOpened
  \/ On("migration") /\ M!Handshake
  \/ On("migration") /\ M!HandshakeDone
  \/ On("migration") /\ M!StartMigrating
  \/ On("migration") /\ M!MigrateEnd
  \/ On("migration") /\ M!AfterMainInit
  \/ On("migration") /\ M!SessionDisconnect
  \/ \E c \in Channels :
       \/ On("migration") /\ M!MigrateMsg(c)
       \/ On("migration") /\ M!OtherOpened(c)
       \/ On("migration") /\ M!LostEvent(c)
       \/ On("migration") /\ M!TargetFails(c)
  \/ On("auth") /\ A!Connect
  \/ On("auth") /\ A!Lost
  \/ On("auth") /\ A!Disconnect
  \/ On("auth") /\ A!Retry
  \/ On("auth") /\ A!ServerMechs
  \/ On("auth") /\ A!ServerReply
  \/ On("auth") /\ A!ServerTicket
  \/ On("auth") /\ A!ServerSends
  \/ On("auth") /\ A!ReadMechs
  \/ On("auth") /\ A!ReadReply
  \/ On("auth") /\ A!ReadResult
  \/ On("auth") /\ A!RecvAuth
  \/ On("auth") /\ A!WaitEnds
  \/ On("auth") /\ A!Decode
  \/ On("auth") /\ A!Handle
  \/ On("auth") /\ A!Handled
  \/ On("auth") /\ A!RecvNothing
  \/ \E t \in {usb, loop} :
       \/ On("xmit") /\ X!MsgOutNew(t)
       \/ On("xmit") /\ X!SendLock(t)
       \/ On("xmit") /\ X!SendBlocked(t)
       \/ On("xmit") /\ X!SendPush(t)
       \/ On("xmit") /\ X!SendSize(t)
       \/ On("xmit") /\ X!SendAttach(t)
       \/ On("xmit") /\ X!SendStore(t)
  \/ On("xmit") /\ X!DispatchWakeup
  \/ On("xmit") /\ X!ClearWakeupId
  \/ On("xmit") /\ X!IdleWakeup
  \/ On("xmit") /\ X!SocketReady
  \/ On("xmit") /\ X!ConnectDelayed
  \/ On("xmit") /\ X!ThawFrozen
  \/ On("xmit") /\ X!EmitDone
  \/ On("xmit") /\ X!DelayedUnref
  \/ On("xmit") /\ X!ChannelConnect
  \/ On("xmit") /\ X!Disconnect
  \/ On("xmit") /\ X!FlushAsync
  \/ On("xmit") /\ X!Link
  \/ On("xmit") /\ X!Iterate
  \/ On("xmit") /\ X!Pop
  \/ On("xmit") /\ X!PopNull
  \/ On("xmit") /\ X!SizeTest
  \/ On("xmit") /\ X!SizeSubtract
  \/ On("xmit") /\ X!WriteMsg
  \/ On("xmit") /\ X!FlushWire
  \/ On("xmit") /\ X!Park
  \/ On("xmit") /\ X!Read
  \/ On("xmit") /\ X!Recv
  \/ On("xmit") /\ X!Handle
  \/ On("xmit") /\ X!ChannelReset

MCSpec == MCInit /\ [][MCNext]_mcvars

ASSUME SessionAssumption == M!MigrationAssumption /\ A!AuthAssumption

-----------------------------------------------------------------------------
\* The variables of the machines have their types, and the count of channels a
\* migration still has to open stays in its range.
MCTypes ==
  /\ which = "life" => TypeOK
  /\ which = "migration" => M!TypeOK
  /\ which = "auth" => A!TypeOK
  /\ which = "xmit" => X!TypeOK

\* Live migration (spice-session.c, channel-main.c): a channel is frozen only while its
\* migration is unfinished, BEGIN is answered when the target is ready, and the two
\* coroutine calls that must be synchronous are.
SwitchSafe == which = "migration" => M!FrozenIsLeft /\ M!ReplyIsReady /\ M!CallIsSync

\* ... and it is what HostSwitch says: all channels talk to one host.
HostSwitchSpec == M!HostSwitchSpec

\* Authentication (spice-channel.c): after the security layer is agreed both sides use
\* it, an error tells the application what is missing, and nothing that was decoded is
\* left when the coroutine waits for the socket.
AuthSafe == which = "auth" => A!LayerAgrees /\ A!ErrorTellsMissing /\ A!NothingLeft

\* A channel does what it began: a connection is made, refused or told lost, a channel
\* that is left ends, a message that was accepted is written, and a flush is answered.
\* The fairness is that of ChannelLife and ChannelXmit.
ChannelLive ==
  /\ which = "life" /\ Fairness => ConnectEnds
  /\ which = "life" /\ Fairness => ReadyEnds
  /\ which = "xmit" /\ X!Fairness => X!QueueDrains
  /\ which = "xmit" /\ X!Fairness => X!FlushCompletes

\* A session gets where it is going: a migration ends, and a user who gives the right
\* credentials gets in.  The fairness is that of Migration and Auth.
SessionLive ==
  /\ which = "migration" /\ M!Fairness => M!MigrationEnds
  /\ which = "auth" /\ A!Fairness => A!GetsIn
============================================================================
