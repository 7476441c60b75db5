------------------------- MODULE MCSession_proofs -------------------------
(***************************************************************************)
(* Proofs about the machines of MCSession, for every value of their        *)
(* constants: a channel is referenced exactly, has one life at a time and  *)
(* tells its end; a live migration keeps the session on one host.          *)
(***************************************************************************)
EXTENDS MCSession, FiniteSetTheorems, SequenceTheorems, TLAPS

-----------------------------------------------------------------------------
(* The life of a channel: the stages of its coroutine never overlap, its references *)
(* are exact, and the end of a connection is told *)

\* At most one of the three stages is pending.
Shape == /\ unrefs \in {0, 1} /\ refs \in Int /\ leaked \in Int
         /\ connect_delayed => co = "none" /\ unrefs = 0
         /\ co # "none" => unrefs = 0

Busy == connect_delayed \/ co # "none" \/ unrefs = 1

\* Nothing is pending for a channel that is UNCONNECTED, nor for one that is
\* RECONNECTING, unless its coroutine is about to connect again.
Quiet == /\ state = "UNCONNECTED" => ~Busy
         /\ state = "RECONNECTING" /\ Busy => run /\ co = "cleanup"

\* The coroutine that has the control exists.
Alive == run => co # "none"

\* RefExact, without arithmetic on truth values.
Refs == /\ session /\ Busy => refs = 2 + leaked
        /\ ~session /\ ~Busy => refs = leaked
        /\ session /\ ~Busy => refs = 1 + leaked
        /\ ~session /\ Busy => refs = 1 + leaked

LifeInv == Shape /\ Quiet /\ Alive /\ Refs

USE DEF connVars, sessVars, histVars, MainLoop, At, Park, Goto, Fail,
                       Resume

LEMMA CountValue == ASSUME NEW b
                    PROVE  /\ b => Count(b) = 1
                           /\ ~b => Count(b) = 0
BY DEF Count

LEMMA InitLifeInv == Init => LifeInv
BY DEF Init, LifeInv, Shape, Quiet, Alive, Refs, Busy

\* A step inside the coroutine, which leaves the other two stages alone.
LEMMA StaysInside ==
  ASSUME LifeInv, co # "none", co' # "none", state' # "UNCONNECTED",
         state' = "RECONNECTING" => run' /\ co' = "cleanup",
         UNCHANGED <<connect_delayed, session, leaked, refs, unrefs>>
  PROVE  LifeInv'
BY DEF LifeInv, Shape, Quiet, Alive, Refs, Busy

\* spice_channel_disconnect starts and ends none of the three stages.
LEMMA BreakStages ==
  ASSUME NEW r, Break(r)
  PROVE  /\ state' \in {state, "READY", "SWITCHING"}
         /\ run' => run \/ co # "none"
         /\ UNCHANGED <<connect_delayed, unrefs, co>>
<1> DEFINE s == IF r = "SWITCHING" THEN "SWITCHING" ELSE state
<1>1. UNCHANGED <<connect_delayed, unrefs, co>>
      BY DEF Break
<1>2. CASE s = "MIGRATING"
      BY <1>1, <1>2 DEF Break
<1>3. CASE s # "MIGRATING"
  <2>1. state' = s /\ Wakeup
        BY <1>3 DEF Break
  <2>2. run' => co # "none"
        BY <2>1 DEF Wakeup, SocketWaits
  <2> QED BY <1>1, <2>1, <2>2
<1> QED BY <1>2, <1>3

LEMMA NextLifeInv == LifeInv /\ [Next]_vars => LifeInv'
<1> SUFFICES ASSUME LifeInv, [Next]_vars PROVE LifeInv'
    OBVIOUS
<1> USE DEF LifeInv, Shape, Quiet, Alive, Refs, Busy
<1>1. CASE Coroutine
  <2>1. CASE Start
    <3>1. /\ co # "none" /\ co' # "none" /\ state' # "UNCONNECTED"
          /\ state' = "RECONNECTING" => run' /\ co' = "cleanup"
          BY <2>1 DEF Start
    <3>2. UNCHANGED <<connect_delayed, session, leaked, refs, unrefs>>
          BY <2>1 DEF Start
    <3> QED BY <3>1, <3>2, StaysInside
  <2>2. CASE TlsConnect
    <3>1. /\ co # "none" /\ co' # "none" /\ state' # "UNCONNECTED"
          /\ state' = "RECONNECTING" => run' /\ co' = "cleanup"
          BY <2>2 DEF TlsConnect
    <3>2. UNCHANGED <<connect_delayed, session, leaked, refs, unrefs>>
          BY <2>2 DEF TlsConnect
    <3> QED BY <3>1, <3>2, StaysInside
  <2>3. CASE Connected
    <3>1. /\ co # "none" /\ co' # "none" /\ state' # "UNCONNECTED"
          /\ state' = "RECONNECTING" => run' /\ co' = "cleanup"
          BY <2>3 DEF Connected
    <3>2. UNCHANGED <<connect_delayed, session, leaked, refs, unrefs>>
          BY <2>3 DEF Connected
    <3> QED BY <3>1, <3>2, StaysInside
  <2>4. CASE RecvLinkHdr
    <3>1. /\ co # "none" /\ co' # "none" /\ state' # "UNCONNECTED"
          /\ state' = "RECONNECTING" => run' /\ co' = "cleanup"
          BY <2>4 DEF RecvLinkHdr
    <3>2. UNCHANGED <<connect_delayed, session, leaked, refs, unrefs>>
          BY <2>4 DEF RecvLinkHdr
    <3> QED BY <3>1, <3>2, StaysInside
  <2>5. CASE RecvLinkMsg
    <3>1. /\ co # "none" /\ co' # "none" /\ state' # "UNCONNECTED"
          /\ state' = "RECONNECTING" => run' /\ co' = "cleanup"
          BY <2>5 DEF RecvLinkMsg
    <3>2. UNCHANGED <<connect_delayed, session, leaked, refs, unrefs>>
          BY <2>5 DEF RecvLinkMsg
    <3> QED BY <3>1, <3>2, StaysInside
  <2>6. CASE RecvAuth
    <3>1. /\ co # "none" /\ co' # "none" /\ state' # "UNCONNECTED"
          /\ state' = "RECONNECTING" => run' /\ co' = "cleanup"
          BY <2>6 DEF RecvAuth
    <3>2. UNCHANGED <<connect_delayed, session, leaked, refs, unrefs>>
          BY <2>6 DEF RecvAuth
    <3> QED BY <3>1, <3>2, StaysInside
  <2>7. CASE Iterate
    <3>1. /\ co # "none" /\ co' # "none" /\ state' # "UNCONNECTED"
          /\ state' = "RECONNECTING" => run' /\ co' = "cleanup"
          BY <2>7 DEF Iterate
    <3>2. UNCHANGED <<connect_delayed, session, leaked, refs, unrefs>>
          BY <2>7 DEF Iterate
    <3> QED BY <3>1, <3>2, StaysInside
  <2>8. CASE IterateRead   BY <2>8 DEF IterateRead
  <2>9. CASE Cleanup       BY <2>9 DEF Cleanup, Restart, ChannelConnect, StartAgain
  <2> QED BY <1>1, <2>1, <2>2, <2>3, <2>4, <2>5, <2>6, <2>7, <2>8, <2>9 DEF Coroutine
<1>2. CASE Sources
  <2>1. CASE ConnectDelayed  BY <2>1 DEF ConnectDelayed
  <2>2. CASE OpenHostIdle    BY <2>2 DEF OpenHostIdle
  <2>3. CASE ConnectReady    BY <2>3 DEF ConnectReady
  <2>4. CASE SocketReady     BY <2>4 DEF SocketReady, SocketWaits
  <2>5. CASE OpenedEmitted   BY <2>5 DEF OpenedEmitted
  <2>6. CASE ThawFrozen      BY <2>6 DEF ThawFrozen
  <2>7. CASE DelayedUnref    BY <2>7 DEF DelayedUnref
  <2> QED BY <1>2, <2>1, <2>2, <2>3, <2>4, <2>5, <2>6, <2>7 DEF Sources
<1>3. CASE Calls
  <2>1. CASE Connect     BY <2>1 DEF Connect, NotConnecting, ChannelConnect
  <2>2. CASE Disconnect
    <3>1. PICK r \in Reasons : Break(r)
          BY <2>2 DEF Disconnect
    <3>2. /\ state' \in {state, "READY", "SWITCHING"}
          /\ run' => run \/ co # "none"
          /\ UNCHANGED <<connect_delayed, unrefs, co>>
          BY <3>1, BreakStages
    <3>3. UNCHANGED <<session, leaked, refs>> /\ state # "UNCONNECTED"
          BY <2>2 DEF Disconnect
    <3>4. ~run
          BY <2>2 DEF Disconnect
    <3> QED BY <3>2, <3>3, <3>4
  <2>3. CASE Destroy
    <3>1. /\ session /\ ~session' /\ refs' = refs - 1 /\ ~run
          /\ UNCHANGED leaked
          BY <2>3 DEF Destroy
    <3>2. CASE state = "UNCONNECTED"
          BY <2>3, <3>1, <3>2 DEF Destroy
    <3>3. CASE state # "UNCONNECTED"
      <4>1. /\ state' \in {state, "READY", "SWITCHING"}
            /\ run' => run \/ co # "none"
            /\ UNCHANGED <<connect_delayed, unrefs, co>>
            BY <2>3, <3>3, BreakStages DEF Destroy
      <4> QED BY <3>1, <3>3, <4>1
    <3> QED BY <3>2, <3>3
  <2>4. CASE MigrateEnd     BY <2>4 DEF MigrateEnd
  <2>5. CASE AfterMainInit  BY <2>5 DEF AfterMainInit
  <2> QED BY <1>3, <2>1, <2>2, <2>3, <2>4, <2>5 DEF Calls
<1>4. CASE UNCHANGED vars
      BY <1>4 DEF vars
<1> QED BY <1>1, <1>2, <1>3, <1>4 DEF Next

LEMMA LifeInvariance == Spec => []LifeInv
BY InitLifeInv, NextLifeInv, PTL DEF Spec

\* What the inductive invariant says of the two properties.
LEMMA LifeInvSuffices == LifeInv => OneLife /\ RefExact
<1> SUFFICES ASSUME LifeInv PROVE OneLife /\ RefExact
    OBVIOUS
<1> USE DEF LifeInv, Shape, Refs, Busy
<1>1. /\ session => Count(session) = 1
      /\ ~session => Count(session) = 0
      BY CountValue
<1>2. /\ connect_delayed => Count(connect_delayed) = 1
      /\ ~connect_delayed => Count(connect_delayed) = 0
      BY CountValue
<1>3. /\ co # "none" => Count(co # "none") = 1
      /\ co = "none" => Count(co # "none") = 0
      BY CountValue
<1> DEFINE s == Count(session)  d == Count(connect_delayed)
           c == Count(co # "none")
<1>4. Activities = d + c + unrefs
      BY DEF Activities
<1> HIDE DEF s, d, c
<1>5. /\ session => s = 1
      /\ ~session => s = 0
      /\ connect_delayed => d = 1
      /\ ~connect_delayed => d = 0
      /\ co # "none" => c = 1
      /\ co = "none" => c = 0
      BY <1>1, <1>2, <1>3 DEF s, d, c
<1>6. Activities <= 1 /\ refs = s + Activities + leaked
      BY <1>4, <1>5
<1> QED BY <1>6 DEF OneLife, RefExact, s

\* spice_channel_delayed_unref, connect_delayed and the coroutine each own one
\* reference to the channel, and the session one; only a migration leaks any.
THEOREM RefExactTheorem == Spec => []RefExact
BY LifeInvariance, LifeInvSuffices, PTL

\* channel_connect never starts a second coroutine on a channel whose first one
\* has not left ("we connect in idle, to let previous coroutine exit").
THEOREM OneLifeTheorem == Spec => []OneLife
BY LifeInvariance, LifeInvSuffices, PTL

-----------------------------------------------------------------------------
(* The last event *)

Telling == Errors \cup {"CLOSED", "SWITCHING"}

\* Outside of a migration nothing is leaked or frozen, only a channel that was asked
\* to end has lost its session, and past OPENED the state is READY or SWITCHING.
PlainInv ==
  role = "plain" =>
    /\ leaked = 0 /\ ~migrating /\ state # "MIGRATING"
    /\ ~session => asked
    /\ co \in {"opened", "iterate", "wait_in", "frozen"}
         => state \in {"READY", "SWITCHING"}

\* A coroutine that leaves by itself leaves an event, or the state READY that stands
\* for CLOSED, until the application is told.
LastInv ==
  (role = "plain" /\ ~asked) =>
    /\ co = "cleanup"
         => state \in StartAgain \cup {"READY"} \/ event # "NONE"
    /\ unrefs = 1
         => state = "READY" \/ event # "NONE" \/ told \in Telling
    /\ state = "UNCONNECTED" /\ connects > 0 => told \in Telling

EventType == event \in Errors \cup {"NONE"}

TellInv == EventType /\ PlainInv /\ LastInv

LEMMA InitTellInv == Init => TellInv
BY DEF Init, TellInv, EventType, PlainInv, LastInv

\* spice_channel_disconnect outside of a migration.
LEMMA BreakPlain ==
  ASSUME NEW r \in Reasons, Break(r), state # "MIGRATING"
  PROVE  /\ UNCHANGED <<event, co, unrefs, connects>>
         /\ r # "SWITCHING" => state' = state
         /\ r = "SWITCHING" => state' = "SWITCHING" /\ told' = "SWITCHING"
BY DEF Break

LEMMA NextTellInv == LifeInv /\ TellInv /\ [Next]_vars => TellInv'
<1> SUFFICES ASSUME LifeInv, TellInv, [Next]_vars PROVE TellInv'
    OBVIOUS
<1> USE DEF TellInv, EventType, PlainInv, LastInv, Telling, Errors, StartAgain
<1>1. CASE Coroutine
  <2>1. CASE Start        BY <2>1 DEF Start
  <2>2. CASE TlsConnect   BY <2>2 DEF TlsConnect
  <2>3. CASE Connected    BY <2>3 DEF Connected
  <2>4. CASE RecvLinkHdr
    <3>1. \/ co' \in {"hdr", "msg"} /\ UNCHANGED <<state, event>>
          \/ co' = "cleanup" /\ state' = "RECONNECTING" /\ UNCHANGED event
          \/ co' = "cleanup" /\ event' = "ERROR_LINK" /\ UNCHANGED state
          BY <2>4 DEF RecvLinkHdr
    <3>2. co = "hdr" /\ UNCHANGED <<sessVars, unrefs, histVars>>
          BY <2>4 DEF RecvLinkHdr
    <3> QED BY <3>1, <3>2 DEF LifeInv, Shape
  <2>5. CASE RecvLinkMsg
    <3>1. \/ co' \in {"msg", "auth"} /\ UNCHANGED <<state, event>>
          \/ co' = "cleanup" /\ state' = "RECONNECTING" /\ UNCHANGED event
          \/ co' = "cleanup" /\ event' \in Errors /\ UNCHANGED state
          BY <2>5 DEF RecvLinkMsg
    <3>2. co = "msg" /\ UNCHANGED <<sessVars, unrefs, histVars>>
          BY <2>5 DEF RecvLinkMsg
    <3> QED BY <3>1, <3>2 DEF LifeInv, Shape
  <2>6. CASE RecvAuth     BY <2>6 DEF RecvAuth
  <2>7. CASE Iterate      BY <2>7 DEF Iterate, SocketEvent
  <2>8. CASE IterateRead  BY <2>8 DEF IterateRead
  <2>9. CASE Cleanup
        BY <2>9 DEF Cleanup, Restart, ChannelConnect, LifeInv, Shape, Quiet, Busy
  <2> QED BY <1>1, <2>1, <2>2, <2>3, <2>4, <2>5, <2>6, <2>7, <2>8, <2>9 DEF Coroutine
<1>2. CASE Sources
  <2>1. CASE ConnectDelayed  BY <2>1 DEF ConnectDelayed
  <2>2. CASE OpenHostIdle    BY <2>2 DEF OpenHostIdle
  <2>3. CASE ConnectReady    BY <2>3 DEF ConnectReady
  <2>4. CASE SocketReady     BY <2>4 DEF SocketReady, SocketWaits
  <2>5. CASE OpenedEmitted
        BY <2>5 DEF OpenedEmitted, LifeInv, Shape, Quiet, Busy
  <2>6. CASE ThawFrozen      BY <2>6 DEF ThawFrozen
  <2>7. CASE DelayedUnref
        BY <2>7 DEF DelayedUnref, LastEvent, LifeInv, Shape
  <2> QED BY <1>2, <2>1, <2>2, <2>3, <2>4, <2>5, <2>6, <2>7 DEF Sources
<1>3. CASE Calls
  <2>1. CASE Connect
    <3>1. ~Busy
          BY <2>1 DEF Connect, NotConnecting, LifeInv, Quiet
    <3>2. role = "plain" => session
          BY <2>1, <3>1 DEF Connect, LifeInv, Refs
    <3> QED BY <2>1, <3>1, <3>2 DEF Connect, ChannelConnect, Busy
  <2>2. CASE Disconnect
    <3>1. PICK r \in Reasons : Break(r) /\ asked' = (asked \/ r # "SWITCHING")
          BY <2>2 DEF Disconnect
    <3>2. UNCHANGED <<session, role, migrating, leaked>>
          BY <2>2 DEF Disconnect
    <3>3. CASE state = "MIGRATING"
      <4>1. role # "plain"
            BY <3>3
      <4>2. UNCHANGED event
            BY <3>1 DEF Break
      <4> QED BY <3>2, <4>1, <4>2
    <3>4. CASE state # "MIGRATING"
      <4>1. /\ UNCHANGED <<event, co, unrefs, connects>>
            /\ r # "SWITCHING" => state' = state
            /\ r = "SWITCHING" => state' = "SWITCHING" /\ told' = "SWITCHING"
            BY <3>1, <3>4, BreakPlain
      <4> QED BY <3>1, <3>2, <4>1
    <3> QED BY <3>3, <3>4
  <2>3. CASE Destroy
    <3>1. asked' /\ migrating' = FALSE /\ UNCHANGED <<role, leaked>>
          BY <2>3 DEF Destroy
    <3>2. UNCHANGED <<event, co>>
          BY <2>3 DEF Destroy, Break
    <3>3. role = "plain" => state' = state
          BY <2>3 DEF Destroy, Break
    <3> QED BY <3>1, <3>2, <3>3
  <2>4. CASE MigrateEnd     BY <2>4 DEF MigrateEnd
  <2>5. CASE AfterMainInit  BY <2>5 DEF AfterMainInit
  <2> QED BY <1>3, <2>1, <2>2, <2>3, <2>4, <2>5 DEF Calls
<1>4. CASE UNCHANGED vars
      BY <1>4 DEF vars
<1> QED BY <1>1, <1>2, <1>3, <1>4 DEF Next

\* Whatever fails, and whenever the application and the session disconnect, destroy
\* or reconnect the channel: it is referenced exactly, it has one life at a time
\* (spice_channel_delayed_unref, channel_connect) and the end of it is told.
THEOREM LifeSafeTheorem == Spec => []LifeSafe
<1>1. LifeInv /\ TellInv /\ [Next]_vars => LifeInv' /\ TellInv'
      BY NextLifeInv, NextTellInv
<1>2. LifeInv /\ TellInv => LifeSafe
      BY LifeInvSuffices DEF LifeSafe, EndIsTold, TellInv, LastInv, Telling
<1> QED BY <1>1, <1>2, InitLifeInv, InitTellInv, PTL DEF Spec

-----------------------------------------------------------------------------
(* Live migration *)

\* A session has finitely many channels, and the main one is one of them.
LEMMA MigrationConstants == IsFiniteSet(Channels) /\ MainChannel \in Channels
<1>1. M!IsFiniteSet(Channels) = IsFiniteSet(Channels)
      BY DEF M!IsFiniteSet, IsFiniteSet
<1> QED BY <1>1, SessionAssumption DEF M!MigrationAssumption

Others == Channels \ {MainChannel}

\* The channels whose connection to the target is still to be opened.
Pending == {c \in Channels : target[c] # "ready"}

MigrTypes ==
  /\ migr_sock \in [Channels -> M!Hosts] /\ tsock \in [Channels -> M!Hosts]
  /\ target \in [Channels -> {"none", "connecting", "handshake", "shaken",
                              "ready", "failed", "lost"}]
  /\ mig \in [nchannels : Int, do_seamless : BOOLEAN]

SockIs(host)   == \A c \in Channels : migr_sock[c] = host
TsockIs(host)  == \A c \in Channels : tsock[c] = host
TargetIs(st)   == \A c \in Channels : target[c] = st
NoneLeft == migration_left = {} /\ frozen = {}
NoInit   == ~migrate_wait_init /\ ~after_main_init
Plain    == migration_state = "NONE" /\ NoneLeft /\ ~migrate_delayed

\* The session is closed; what is left of a migration comes to nothing.
Closed == ring = {} /\ ~migration /\ frozen = {}

\* No migration: all channels are on one host, and nothing of a migration is left
\* (but a session of one channel is on the target before the INIT of that).
Resting ==
  /\ ring = Channels /\ ~migration /\ Plain
  /\ main = "read" /\ ~connect_idle
  /\ TargetIs("none") /\ TsockIs("none")
  /\ \/ SockIs("src") /\ sent = "none" /\ NoInit
     \/ SockIs("dst")

\* BEGIN was received, and the main channel's coroutine waits for the idle
\* migrate_connect, for the target's main channel or for its other channels.
Begun == /\ ring = Channels /\ migration /\ Plain /\ NoInit
         /\ main = "connect" /\ sent = "begin" /\ reply = "none" /\ SockIs("src")
Asked == Begun /\ connect_idle /\ TargetIs("none") /\ TsockIs("none")
Dialing == /\ Begun /\ ~connect_idle /\ mig.nchannels = 1
           /\ target[MainChannel] \in {"connecting", "failed"}
           /\ \A c \in Others : target[c] = "none"
           /\ TsockIs("none")
Opening == /\ Begun /\ ~connect_idle /\ mig.nchannels = Cardinality(Pending)
           /\ target[MainChannel] \in {"handshake", "shaken", "ready"}
           /\ \A c \in Others : target[c] \in {"connecting", "failed", "ready"}
           /\ \A c \in Channels \ Pending : tsock[c] = "dst"
           /\ tsock[MainChannel] = "dst"

\* The target is ready, and the coroutine is in the notification of
\* spice_session_start_migrating.
Ready == /\ ring = Channels /\ migration /\ ~connect_idle
         /\ TargetIs("ready") /\ migration_state = "MIGRATING"
Notified == /\ Ready /\ main = "notify" /\ NoneLeft /\ NoInit
            /\ ~migrate_delayed /\ sent = "begin" /\ SockIs("src") /\ TsockIs("dst")

\* The channels move one by one, on their own MIGRATE (seamless) ...
Seamless ==
  /\ Ready /\ main = "read" /\ reply = "CONNECTED_SEAMLESS"
  /\ migration_left \subseteq Channels /\ migration_left # {}
  /\ frozen = {} /\ NoInit /\ ~migrate_delayed
  /\ sent = IF MainChannel \in migration_left THEN "begin" ELSE "end"
  /\ \A c \in Channels : IF c \in migration_left
                           THEN migr_sock[c] = "src" /\ tsock[c] = "dst"
                           ELSE migr_sock[c] = "dst" /\ tsock[c] = "src"

\* ... or wait together for MIGRATE_END and its idle (semi-seamless) ...
Waiting ==
  /\ Ready /\ main = "read" /\ reply = "CONNECTED"
  /\ migration_left = Channels
  /\ frozen = {} /\ NoInit
  /\ sent = IF migrate_delayed THEN "end" ELSE "begin"
  /\ SockIs("src") /\ TsockIs("dst")

\* ... and then, frozen, for the INIT of the target and the idle after it.
Frozen ==
  /\ Ready /\ main = "read" /\ reply = "CONNECTED"
  /\ migration_left = Others /\ Others # {} /\ frozen = Others
  /\ (migrate_wait_init <=> ~after_main_init) /\ sent = "end" /\ ~migrate_delayed
  /\ migr_sock[MainChannel] = "dst" /\ tsock[MainChannel] = "none"
  /\ \A c \in Others : migr_sock[c] = "none" /\ tsock[c] = "dst"

Booleans == /\ connect_idle \in BOOLEAN /\ migration \in BOOLEAN
            /\ migrate_wait_init \in BOOLEAN /\ after_main_init \in BOOLEAN
            /\ migrate_delayed \in BOOLEAN /\ full_migration \in BOOLEAN

\* A migration is in one of these phases.
AtHost(host) == Resting /\ SockIs(host)
Moving == Asked \/ Dialing \/ Opening \/ Notified \/ Seamless \/ Waiting \/ Frozen
Phases == Closed \/ AtHost("src") \/ AtHost("dst") \/ Moving
MigrInv == MigrTypes /\ Booleans /\ Phases

\* How a step changes the phase.
Goes == /\ Phases'
        /\ Closed => Closed'
        /\ AtHost("src") => AtHost("src")' \/ Moving' \/ Closed'
        /\ AtHost("dst") => AtHost("dst")' \/ Closed'

USE DEF M!sessVars, M!srvVars, M!Hosts

LEMMA CardSame == ASSUME NEW S PROVE M!Cardinality(S) = Cardinality(S)
BY DEF M!Cardinality, Cardinality

LEMMA InitMigrInv == M!Init => MigrInv
<1> SUFFICES ASSUME M!Init PROVE MigrInv
    OBVIOUS
<1>1. MigrTypes
      BY DEF M!Init, MigrTypes
<1>2. Booleans
      BY DEF M!Init, Booleans
<1>3. SockIs("src") /\ TsockIs("none") /\ TargetIs("none")
      BY DEF M!Init, SockIs, TsockIs, TargetIs
<1>4. AtHost("src")
      BY <1>3 DEF M!Init, AtHost, Resting, Plain, NoneLeft, NoInit
<1> QED BY <1>1, <1>2, <1>4 DEF MigrInv, Phases

\* The phases exclude each other.
LEMMA Exclusive ==
  ASSUME MigrInv
  PROVE  /\ Closed => ~Moving /\ ~Resting
         /\ Moving => ~Resting
         /\ ~(AtHost("src") /\ AtHost("dst"))
BY MigrationConstants
   DEF MigrInv, Closed, AtHost, Resting, Moving, Asked, Dialing, Opening, Begun,
       Notified, Seamless, Waiting, Frozen, Ready, SockIs

\* What the guards of the messages leave of the phases.
LEMMA Guards ==
  ASSUME MigrInv
  PROVE  /\ M!Reading("src") /\ ~migration => AtHost("src") /\ NoInit
         /\ M!Reading("src") /\ sent = "begin" => Seamless \/ Waiting
         /\ M!Reading("dst") /\ migrate_wait_init => Frozen \/ AtHost("dst")
         /\ after_main_init => Frozen \/ AtHost("dst") \/ Closed
         /\ \A c \in ring : main = "read" /\ migr_sock[c] = "src" /\ sent # "none"
                             /\ reply = "CONNECTED_SEAMLESS" => Seamless
         /\ connect_idle => Asked \/ Closed
         /\ target[MainChannel] = "connecting" => Dialing \/ Opening \/ Closed
BY MigrationConstants
   DEF MigrInv, Phases, Closed, AtHost, Resting, Moving, Asked, Dialing, Opening, Begun,
       Notified, Seamless, Waiting, Frozen, Ready, SockIs, TsockIs, TargetIs, M!Reading,
       Plain, NoneLeft, NoInit, Booleans

\* Every step keeps the types.
StatusType(t) == t \in [Channels -> {"none", "connecting", "handshake", "shaken",
                                     "ready", "failed", "lost"}]
SockType(s) == s \in [Channels -> M!Hosts]

LEMMA MigrTypesStep ==
  MigrInv /\ [M!Next]_(M!vars) => MigrTypes' /\ Booleans'
<1> SUFFICES ASSUME MigrInv, [M!Next]_(M!vars) PROVE MigrTypes' /\ Booleans'
    OBVIOUS
<1> USE DEF MigrTypes, Booleans
<1>1. MigrTypes /\ Booleans
      BY DEF MigrInv
<1>2. \A cs : /\ M!SwapSock(cs) \in [Channels -> M!Hosts]
              /\ M!SwapTarget(cs) \in [Channels -> M!Hosts]
      BY <1>1 DEF M!SwapSock, M!SwapTarget, M!Swapped
<1>a. M!DropTargets => StatusType(target') /\ SockType(tsock')
      BY <1>1 DEF M!DropTargets, StatusType, SockType
<1>3. ASSUME NEW cs, M!AbortMigration(cs), UNCHANGED <<mig, connect_idle, migrate_delayed,
                                                     full_migration>>
      PROVE  MigrTypes' /\ Booleans'
  <2>1. SockType(migr_sock') /\ SockType(tsock') /\ StatusType(target')
        BY <1>1, <1>2, <1>3, <1>a DEF M!AbortMigration, M!SwapBack, SockType, StatusType
  <2>2. Booleans'
        BY <1>1, <1>3 DEF M!AbortMigration
  <2> QED BY <1>1, <1>3, <2>1, <2>2 DEF SockType, StatusType
<1>4. ASSUME NEW cs, M!ChannelMigrate(cs), UNCHANGED <<mig, connect_idle>>,
             migrate_wait_init' \in BOOLEAN, after_main_init' \in BOOLEAN,
             migrate_delayed' \in BOOLEAN, full_migration' \in BOOLEAN
      PROVE  MigrTypes' /\ Booleans'
  <2>1. SockType(migr_sock') /\ SockType(tsock') /\ StatusType(target')
        BY <1>1, <1>2, <1>4, <1>a DEF M!ChannelMigrate, SockType, StatusType
  <2>2. Booleans'
        BY <1>1, <1>4 DEF M!ChannelMigrate
  <2> QED BY <1>1, <1>4, <2>1, <2>2 DEF SockType, StatusType
<1>5. ASSUME NEW n, M!Connected(n) PROVE full_migration' \in BOOLEAN
      BY <1>1, <1>5 DEF M!Connected
<1>6. ring \subseteq Channels
      BY MigrationConstants
         DEF MigrInv, Phases, Closed, AtHost, Resting, Moving, Asked, Dialing, Opening,
             Begun, Notified, Seamless, Waiting, Frozen, Ready
<1>7. CASE M!Server
  <2>1. CASE \E s \in BOOLEAN : M!MigrateBegin(s)
        BY <1>1, <2>1 DEF M!MigrateBegin
  <2>2. CASE M!MigrateCancel
        BY <1>3, <2>2 DEF M!MigrateCancel
  <2>3. CASE M!MigrateEndMsg \/ M!MainInit
        BY <1>1, <2>3 DEF M!MigrateEndMsg, M!MainInit
  <2>4. CASE \E c \in Channels : M!MigrateMsg(c)
        BY <1>1, <1>4, <2>4 DEF M!MigrateMsg
  <2> QED BY <1>7, <2>1, <2>2, <2>3, <2>4 DEF M!Server
<1>8. CASE M!MigrateConnect \/ M!Handshake
  <2>1. StatusType(target')
        BY <1>1, <1>8 DEF M!MigrateConnect, M!Handshake, StatusType
  <2>2. mig' \in [nchannels : Int, do_seamless : BOOLEAN]
    <3>1. \/ mig' = [mig EXCEPT !.nchannels = 1]
          \/ mig' = mig
          \/ mig' = [mig EXCEPT !.do_seamless = FALSE]
          BY <1>8 DEF M!MigrateConnect, M!Handshake
    <3>2. [mig EXCEPT !.nchannels = 1] \in [nchannels : Int, do_seamless : BOOLEAN]
          BY <1>1
    <3>3. [mig EXCEPT !.do_seamless = FALSE] \in [nchannels : Int, do_seamless : BOOLEAN]
          BY <1>1
    <3> QED BY <1>1, <3>1, <3>2, <3>3
  <2> QED BY <1>1, <1>8, <2>1, <2>2 DEF M!MigrateConnect, M!Handshake, StatusType
<1>9. CASE M!MainOpened
  <2>1. M!StillToOpen(ring \ {MainChannel}) \in Int
    <3>1. M!Cardinality(ring \ {MainChannel}) \in Nat
          BY <1>6, CardSame, FS_CardinalityType, FS_Subset, MigrationConstants
    <3> QED BY <3>1 DEF M!StillToOpen
  <2>2. M!StillToOpen(ring \ {MainChannel}) \in Int =>
          MigrTypes' /\ (full_migration' \in BOOLEAN => Booleans')
        BY <1>1, <1>9 DEF M!MainOpened, M!Opened, M!Connected
  <2>3. full_migration' \in BOOLEAN
        BY <1>5, <1>9 DEF M!MainOpened, M!Opened
  <2> QED BY <2>1, <2>2, <2>3
<1>10. CASE M!HandshakeDone
  <2>1. StatusType(target')
        BY <1>1, <1>10 DEF M!HandshakeDone, StatusType
  <2>2. mig' \in [nchannels : Int, do_seamless : BOOLEAN]
        BY <1>1, <1>10 DEF M!HandshakeDone
  <2> QED BY <1>1, <1>10, <2>1, <2>2 DEF M!HandshakeDone, M!Connected, StatusType
<1>11. CASE \E c \in Channels : M!OtherOpened(c)
      BY <1>1, <1>11 DEF M!OtherOpened, M!Opened, M!Connected
<1>12. CASE \E c \in Channels : M!LostEvent(c) \/ M!TargetFails(c)
      BY <1>1, <1>12 DEF M!LostEvent, M!TargetFails
<1>13. CASE M!StartMigrating
      BY <1>1, <1>13 DEF M!StartMigrating
<1>14. CASE M!MigrateEnd
  <2>1. SockType(migr_sock') /\ SockType(tsock') /\ StatusType(target')
        BY <1>1, <1>14, <1>a, MigrationConstants DEF M!MigrateEnd, SockType, StatusType
  <2>2. Booleans' /\ UNCHANGED mig
        BY <1>1, <1>14 DEF M!MigrateEnd
  <2> QED BY <1>1, <2>1, <2>2 DEF SockType, StatusType
<1>15. CASE M!AfterMainInit
      BY <1>1, <1>4, <1>15 DEF M!AfterMainInit
<1>16. CASE M!SessionDisconnect
      BY <1>3, <1>16 DEF M!SessionDisconnect
<1>17. CASE UNCHANGED M!vars
      BY <1>1, <1>17 DEF M!vars
<1> QED BY <1>7, <1>8, <1>9, <1>10, <1>11, <1>12, <1>13, <1>14, <1>15, <1>16, <1>17
        DEF M!Next, M!Loop

\* A closed session stays closed.
LEMMA ClosedStays == MigrInv /\ Closed /\ [M!Next]_(M!vars) => Closed'
<1> SUFFICES ASSUME MigrInv, Closed, [M!Next]_(M!vars) PROVE Closed'
    OBVIOUS
<1> USE DEF Closed
<1>1. CASE \E s \in BOOLEAN : M!MigrateBegin(s)
      BY <1>1 DEF M!MigrateBegin, M!Reading
<1>2. CASE M!MigrateCancel \/ M!MigrateEndMsg \/ M!MainInit
      BY <1>2 DEF M!MigrateCancel, M!MigrateEndMsg, M!MainInit, M!Reading
<1>3. CASE \E c \in Channels : M!MigrateMsg(c)
      BY <1>3 DEF M!MigrateMsg
<1>4. CASE M!MigrateConnect \/ M!Handshake \/ M!StartMigrating
      BY <1>4 DEF M!MigrateConnect, M!Handshake, M!StartMigrating
<1>5. CASE M!MainOpened \/ M!HandshakeDone
      BY <1>5 DEF M!MainOpened, M!HandshakeDone
<1>6. CASE M!MigrateEnd \/ M!AfterMainInit
      BY <1>6 DEF M!MigrateEnd, M!AfterMainInit, M!Thawed, M!ChannelMigrate
<1>7. CASE \E c \in Channels : M!OtherOpened(c) \/ M!LostEvent(c) \/ M!TargetFails(c)
      BY <1>7 DEF M!OtherOpened, M!LostEvent, M!TargetFails
<1>8. CASE M!SessionDisconnect
      BY <1>8 DEF M!SessionDisconnect
<1>9. CASE UNCHANGED M!vars
      BY <1>9 DEF M!vars
<1> QED BY <1>1, <1>2, <1>3, <1>4, <1>5, <1>6, <1>7, <1>8, <1>9
        DEF M!Next, M!Server, M!Loop

\* A migration that is cancelled leaves the session on the source.
LEMMA CancelGoes == MigrInv /\ M!MigrateCancel => AtHost("src")'
<1> SUFFICES ASSUME MigrInv, M!MigrateCancel PROVE AtHost("src")'
    OBVIOUS
<1>1. /\ Seamless \/ Waiting
      /\ M!AbortMigration(ring) /\ sent' = "none"
      /\ UNCHANGED <<ring, frozen, main, migrate_delayed, connect_idle>>
      BY Guards DEF M!MigrateCancel
<1>2. /\ migration /\ migration_state = "MIGRATING" /\ ring = Channels /\ frozen = {}
      /\ ~migrate_delayed /\ ~connect_idle /\ main = "read" /\ TargetIs("ready")
      BY <1>1 DEF Seamless, Waiting, Ready, NoInit, M!MigrateCancel
<1>3. /\ migr_sock' = M!SwapBack(ring \ migration_left)
      /\ migration' = FALSE /\ migration_left' = {} /\ migration_state' = "NONE"
      /\ migrate_wait_init' = FALSE /\ after_main_init' = FALSE
      /\ M!DropTargets
      BY <1>1, <1>2 DEF M!AbortMigration
<1>4. \A c \in Channels : migr_sock'[c] = "src"
      BY <1>1, <1>2, <1>3
         DEF Seamless, Waiting, M!SwapBack, M!SwapSock, M!Swapped, SockIs
<1>5. \A c \in Channels : tsock'[c] = "none" /\ target'[c] = "none"
      BY <1>2, <1>3 DEF M!DropTargets, TargetIs
<1> QED BY <1>1, <1>2, <1>3, <1>4, <1>5
        DEF AtHost, Resting, Plain, NoneLeft, NoInit, SockIs, TsockIs, TargetIs

\* A channel that migrates by itself: the last one ends the migration.
LEMMA MigrateMsgGoes ==
  ASSUME NEW c \in Channels, MigrInv, M!MigrateMsg(c)
  PROVE  Seamless /\ (Seamless' \/ AtHost("dst")')
<1>1. /\ Seamless /\ c \in migration_left
      /\ M!ChannelMigrate({c}) /\ sent' = IF c = MainChannel THEN "end" ELSE sent
      /\ UNCHANGED <<ring, migrate_wait_init, after_main_init, frozen, main,
                     migrate_delayed, connect_idle, reply>>
  <2>1. Seamless
        BY Guards DEF M!MigrateMsg
  <2> QED BY <2>1 DEF M!MigrateMsg, Seamless, Ready
<1> USE DEF Seamless, Ready, TargetIs, NoInit
<1>2. /\ migration_left' = migration_left \ {c}
      /\ \A d \in Channels : IF d \in migration_left'
                              THEN migr_sock'[d] = "src" ELSE migr_sock'[d] = "dst"
      BY <1>1 DEF M!ChannelMigrate, M!SwapSock, M!Swapped
<1>3. sent' = IF MainChannel \in migration_left' THEN "begin" ELSE "end"
      BY <1>1, <1>2, MigrationConstants
<1>4. CASE migration_left' = {}
  <2>1. migration' = FALSE /\ migration_state' = "NONE" /\ M!DropTargets
        BY <1>1, <1>2, <1>4 DEF M!ChannelMigrate
  <2>2. \A d \in Channels : tsock'[d] = "none" /\ target'[d] = "none"
        BY <1>1, <2>1 DEF M!DropTargets
  <2> QED BY <1>1, <1>2, <1>4, <2>1, <2>2
          DEF AtHost, Resting, Plain, NoneLeft, NoInit, SockIs, TsockIs
<1>5. CASE migration_left' # {}
  <2>1. /\ tsock' = M!SwapTarget({c})
        /\ UNCHANGED <<migration, migration_state, target>>
        BY <1>1, <1>2, <1>5 DEF M!ChannelMigrate
  <2>2. \A d \in Channels : IF d \in migration_left'
                            THEN tsock'[d] = "dst" ELSE tsock'[d] = "src"
        BY <1>1, <1>2, <2>1 DEF M!SwapTarget, M!Swapped
  <2>3. migration_left' \subseteq Channels
        BY <1>1, <1>2
  <2> QED BY <1>1, <1>2, <1>3, <1>5, <2>1, <2>2, <2>3
<1> QED BY <1>1, <1>4, <1>5

\* MIGRATE_END and the idle it leaves, or, with no other channel, the end.
LEMMA MigrateEndGoes ==
  ASSUME MigrInv, ~Closed, M!MigrateEnd
  PROVE  Waiting /\ (Frozen' \/ AtHost("dst")')
<1> USE MigrationConstants
<1>1. Waiting
      BY DEF M!MigrateEnd, MigrInv, Phases, Closed, AtHost, Resting, Plain, Moving,
             Asked, Dialing, Opening, Begun, Notified, Seamless, Frozen
<1>2. /\ migrate_delayed /\ migration /\ migration_left = Channels /\ frozen = {}
      /\ sent = "end"
      BY <1>1 DEF Waiting, Ready, M!MigrateEnd
<1>3. /\ migrate_delayed' = FALSE /\ frozen' = Others /\ migration_left' = Others
      /\ migr_sock' = [c \in Channels |-> IF c = MainChannel THEN tsock[MainChannel]
                                       ELSE IF c \in Others THEN "none"
                                       ELSE migr_sock[c]]
      /\ migrate_wait_init'
      /\ UNCHANGED <<ring, after_main_init, main, connect_idle, sent, reply>>
      BY <1>2 DEF M!MigrateEnd, Others
<1>4. /\ migr_sock'[MainChannel] = "dst"
      /\ \A c \in Others : migr_sock'[c] = "none"
      BY <1>1, <1>3 DEF Waiting, TsockIs, Others
<1>5. CASE Others = {}
  <2>1. migration' = FALSE /\ migration_state' = "NONE" /\ M!DropTargets
        BY <1>2, <1>5 DEF M!MigrateEnd, Others
  <2>2. \A c \in Channels : tsock'[c] = "none" /\ target'[c] = "none"
        BY <1>1, <2>1 DEF M!DropTargets, Waiting, Ready, TargetIs
  <2>3. \A c \in Channels : migr_sock'[c] = "dst"
        BY <1>4, <1>5 DEF Others
  <2> QED BY <1>1, <1>3, <1>5, <2>1, <2>2, <2>3
          DEF AtHost, Resting, Plain, NoneLeft, SockIs, TsockIs, TargetIs, Waiting, Ready
<1>6. CASE Others # {}
  <2>1. /\ tsock' = [tsock EXCEPT ![MainChannel] = "none"]
        /\ UNCHANGED <<migration, migration_state, target>>
        BY <1>2, <1>6 DEF M!MigrateEnd, Others
  <2>2. /\ tsock'[MainChannel] = "none"
        /\ \A c \in Others : tsock'[c] = "dst"
        BY <1>1, <2>1 DEF Waiting, TsockIs, Others, MigrInv, MigrTypes
  <2> QED BY <1>1, <1>2, <1>3, <1>4, <1>6, <2>1, <2>2
          DEF Frozen, Waiting, Ready, TargetIs, NoInit
<1> QED BY <1>1, <1>5, <1>6

LEMMA AfterMainInitGoes ==
  ASSUME MigrInv, ~Closed, M!AfterMainInit
  PROVE  AtHost("dst")' /\ (Frozen \/ AtHost("dst"))
<1> USE MigrationConstants
<1>1. /\ Frozen \/ AtHost("dst")
      /\ migration_left \subseteq Channels
      BY Guards DEF M!AfterMainInit, Frozen, AtHost, Resting, Plain, NoneLeft, Others
<1>2. /\ frozen' = frozen \ migration_left
      /\ migr_sock' = M!SwapSock(migration_left) /\ migration_left' = {}
      /\ migration' = FALSE /\ migration_state' = "NONE" /\ M!DropTargets
      /\ UNCHANGED <<ring, main, migrate_delayed, connect_idle>>
      BY DEF M!AfterMainInit, M!Thawed, M!ChannelMigrate
<1>3. \A c \in Channels : migr_sock'[c] = "dst"
      BY <1>1, <1>2 DEF M!SwapSock, M!Swapped, Frozen, AtHost, Resting, Plain, NoneLeft,
                        SockIs, Others
<1>4. \A c \in Channels : tsock'[c] = "none" /\ target'[c] = "none"
      BY <1>1, <1>2 DEF M!DropTargets, Frozen, Ready, AtHost, Resting, TargetIs
<1>5. /\ ring = Channels /\ frozen' = {} /\ main = "read" /\ ~migrate_delayed
      /\ ~connect_idle
      BY <1>1, <1>2 DEF Frozen, Ready, AtHost, Resting, Plain, NoneLeft
<1> QED BY <1>1, <1>2, <1>3, <1>4, <1>5
        DEF AtHost, Resting, Plain, NoneLeft, SockIs, TsockIs, TargetIs

\* The idle migrate_connect.
LEMMA ConnectGoes == MigrInv /\ ~Closed /\ M!MigrateConnect => Dialing'
<1> SUFFICES ASSUME MigrInv, ~Closed, M!MigrateConnect PROVE Dialing'
    OBVIOUS
<1> USE MigrationConstants
<1>1. Asked
      BY Guards DEF M!MigrateConnect
<1>2. /\ target' = [target EXCEPT ![MainChannel] = "connecting"]
      /\ mig' = [mig EXCEPT !.nchannels = 1] /\ connect_idle' = FALSE
      /\ UNCHANGED <<M!sessVars, main, migrate_delayed, tsock, sent, reply>>
      BY DEF M!MigrateConnect
<1>3. /\ target'[MainChannel] = "connecting" /\ mig'.nchannels = 1
      /\ \A c \in Others : target'[c] = "none"
      BY <1>1, <1>2 DEF MigrInv, MigrTypes, Asked, TargetIs, Others
<1> QED BY <1>1, <1>2, <1>3
        DEF Asked, Dialing, Begun, Plain, NoneLeft, NoInit, SockIs, TsockIs

\* Counting the channels that are not ready.
LEMMA PendingCount ==
  /\ Cardinality(Pending) \in Nat
  /\ Cardinality(Pending) = 0 <=> Pending = {}
<1>1. IsFiniteSet(Pending)
      BY MigrationConstants, FS_Subset DEF Pending
<1> QED BY <1>1, FS_CardinalityType, FS_EmptySet

LEMMA OneReady ==
  ASSUME NEW c \in Channels, target[c] # "ready", target' = [target EXCEPT ![c] = "ready"],
         MigrTypes
  PROVE  /\ Pending' = Pending \ {c}
         /\ Cardinality(Pending') = Cardinality(Pending) - 1
<1>1. Pending' = Pending \ {c} /\ c \in Pending
      BY DEF Pending, MigrTypes
<1>2. IsFiniteSet(Pending)
      BY MigrationConstants, FS_Subset DEF Pending
<1> QED BY <1>1, <1>2, FS_RemoveElement

\* One more channel is opened; the last one wakes the coroutine.
LEMMA OpenedGoes ==
  ASSUME Begun, ~connect_idle, MigrTypes, MigrTypes',
         target'[MainChannel] \in {"handshake", "shaken", "ready"},
         \A c \in Others : target'[c] \in {"connecting", "failed", "ready"},
         \A c \in Channels \ Pending' : tsock'[c] = "dst",
         tsock'[MainChannel] = "dst",
         mig'.nchannels = Cardinality(Pending'),
         M!Connected(mig'.nchannels),
         UNCHANGED <<ring, migration, migration_left, migrate_wait_init, after_main_init,
                     frozen, migr_sock, migrate_delayed, connect_idle, sent, reply>>
  PROVE  Opening' \/ Notified'
<1> USE MigrationConstants
<1>1. /\ Cardinality(Pending') \in Nat
      /\ Cardinality(Pending') = 0 <=> Pending' = {}
  <2>1. IsFiniteSet(Pending')
        BY MigrationConstants, FS_Subset DEF Pending
  <2> QED BY <2>1, FS_CardinalityType, FS_EmptySet
<1>2. CASE Cardinality(Pending') > 0
  <2>1. UNCHANGED <<main, migration_state>>
        BY <1>2 DEF M!Connected
  <2> QED BY <2>1 DEF Opening, Begun, Plain, NoneLeft, NoInit, SockIs
<1>3. CASE Cardinality(Pending') = 0
  <2>1. main' = "notify" /\ migration_state' = "MIGRATING"
        BY <1>3 DEF M!Connected
  <2>2. \A c \in Channels : target'[c] = "ready" /\ tsock'[c] = "dst"
        BY <1>1, <1>3 DEF Pending
  <2> QED BY <2>1, <2>2
          DEF Notified, Ready, TargetIs, TsockIs, SockIs, Begun, Plain, NoneLeft, NoInit
<1> QED BY <1>1, <1>2, <1>3

LEMMA MainOpenedGoes ==
  ASSUME MigrInv, MigrTypes', ~Closed, M!MainOpened
  PROVE  Dialing /\ (Opening' \/ Notified')
<1> USE MigrationConstants DEF Others
<1> DEFINE host == IF mig.do_seamless THEN "handshake" ELSE "ready"
<1>1. Dialing
      BY Guards DEF M!MainOpened, Opening
<1>2. /\ target' = [d \in Channels |-> IF d = MainChannel THEN host
                                      ELSE IF d \in Others THEN "connecting"
                                      ELSE target[d]]
      /\ tsock' = [tsock EXCEPT ![MainChannel] = "dst"]
      /\ mig' = [mig EXCEPT !.nchannels = M!StillToOpen(Others)]
      /\ M!Connected(M!StillToOpen(Others))
      /\ UNCHANGED <<ring, migration, migration_left, migrate_wait_init,
                     after_main_init, frozen, migr_sock, migrate_delayed, connect_idle,
                     sent, reply>>
      BY <1>1 DEF M!MainOpened, M!Opened, Dialing, Begun
<1>3. mig'.nchannels = M!StillToOpen(Others)
      BY <1>2 DEF MigrInv, MigrTypes
<1>4. mig'.nchannels = Cardinality(Pending')
  <2>1. /\ IsFiniteSet(Others) /\ Cardinality(Others) \in Nat
        BY FS_Subset, FS_CardinalityType
  <2>2. mig.do_seamless \in BOOLEAN
        BY DEF MigrInv, MigrTypes
  <2>3. CASE mig.do_seamless
    <3>1. Pending' = Others \cup {MainChannel}
          BY <1>2, <2>3 DEF Pending
    <3>2. Cardinality(Pending') = Cardinality(Others) + 1
          BY <2>1, <3>1, FS_AddElement
    <3> QED BY <1>3, <2>3, <3>2, CardSame DEF M!StillToOpen
  <2>4. CASE ~mig.do_seamless
    <3>1. Pending' = Others
          BY <1>2, <2>4 DEF Pending
    <3> QED BY <1>3, <2>1, <2>4, <3>1, CardSame DEF M!StillToOpen
  <2> QED BY <2>2, <2>3, <2>4
<1>5. /\ target'[MainChannel] \in {"handshake", "ready"}
      /\ \A c \in Others : target'[c] = "connecting"
      /\ tsock'[MainChannel] = "dst"
      BY <1>2 DEF MigrInv, MigrTypes
<1>6. \A c \in Channels \ Pending' : tsock'[c] = "dst"
      BY <1>5 DEF Pending
<1>7. Begun /\ ~connect_idle /\ MigrTypes
      BY <1>1 DEF Dialing, MigrInv
<1>8. M!Connected(mig'.nchannels)
      BY <1>2, <1>3
<1> QED BY <1>1, <1>2, <1>4, <1>5, <1>6, <1>7, <1>8, OpenedGoes

LEMMA OtherOpenedGoes ==
  ASSUME NEW c \in Channels, MigrInv, MigrTypes', ~Closed, M!OtherOpened(c)
  PROVE  Opening /\ (Opening' \/ Notified')
<1> USE MigrationConstants DEF Others
<1>1. Opening
      BY DEF M!OtherOpened, MigrInv, Phases, Moving, Closed, AtHost, Resting, Asked,
             Dialing, Notified, Ready, Seamless, Waiting, Frozen, TargetIs
<1>2. /\ target' = [target EXCEPT ![c] = "ready"]
      /\ tsock' = [tsock EXCEPT ![c] = "dst"]
      /\ mig' = [mig EXCEPT !.nchannels = mig.nchannels - 1]
      /\ M!Connected(mig.nchannels - 1)
      /\ UNCHANGED <<ring, migration, migration_left, migrate_wait_init,
                     after_main_init, frozen, migr_sock, migrate_delayed, connect_idle,
                     sent, reply>>
      BY DEF M!OtherOpened, M!Opened, MigrInv, MigrTypes
<1>3. mig'.nchannels = mig.nchannels - 1
      BY <1>2 DEF MigrInv, MigrTypes
<1>4. /\ Pending' = Pending \ {c}
      /\ mig'.nchannels = Cardinality(Pending')
      BY <1>1, <1>2, <1>3, OneReady DEF M!OtherOpened, MigrInv, Opening
<1>5. /\ target'[MainChannel] \in {"handshake", "shaken", "ready"}
      /\ \A d \in Others : target'[d] \in {"connecting", "failed", "ready"}
      /\ tsock'[MainChannel] = "dst"
      BY <1>1, <1>2 DEF Opening, MigrInv, MigrTypes, M!OtherOpened
<1>6. \A d \in Channels \ Pending' : tsock'[d] = "dst"
      BY <1>1, <1>2, <1>4 DEF Opening, MigrInv, MigrTypes
<1>7. Begun /\ ~connect_idle /\ MigrTypes
      BY <1>1 DEF Opening, MigrInv
<1>8. M!Connected(mig'.nchannels)
      BY <1>2, <1>3
<1> QED BY <1>1, <1>2, <1>4, <1>5, <1>6, <1>7, <1>8, OpenedGoes

LEMMA HandshakeGoes ==
  ASSUME MigrInv, MigrTypes', ~Closed, M!Handshake \/ M!HandshakeDone
  PROVE  Opening /\ (Opening' \/ Notified')
<1> USE MigrationConstants DEF Others
<1>1. Opening
      BY DEF M!Handshake, M!HandshakeDone, MigrInv, Phases, Moving, Closed, AtHost,
             Resting, Asked, Dialing, Notified, Ready, Seamless, Waiting, Frozen, TargetIs
<1>2. CASE M!Handshake
  <2>1. /\ target' = [target EXCEPT ![MainChannel] = "shaken"]
        /\ mig'.nchannels = mig.nchannels
        /\ UNCHANGED <<M!sessVars, main, migrate_delayed, connect_idle, tsock, sent, reply>>
        BY <1>2 DEF M!Handshake, MigrInv, MigrTypes
  <2>2. Pending' = Pending
        BY <1>2, <2>1 DEF Pending, M!Handshake, MigrInv, MigrTypes
  <2>3. /\ target'[MainChannel] = "shaken"
        /\ \A d \in Others : target'[d] = target[d]
        BY <2>1 DEF MigrInv, MigrTypes
  <2> QED BY <1>1, <2>1, <2>2, <2>3
          DEF Opening, Begun, Plain, NoneLeft, NoInit, SockIs
<1>3. CASE M!HandshakeDone
  <2>1. /\ target' = [target EXCEPT ![MainChannel] = "ready"]
        /\ mig' = [mig EXCEPT !.nchannels = @ - 1]
        /\ M!Connected(mig.nchannels - 1)
        /\ UNCHANGED <<ring, migration, migration_left, migrate_wait_init,
                       after_main_init, frozen, migr_sock, migrate_delayed,
                       connect_idle, tsock, sent, reply>>
        BY <1>3 DEF M!HandshakeDone
  <2>2. mig'.nchannels = mig.nchannels - 1
        BY <2>1 DEF MigrInv, MigrTypes
  <2>3. /\ Pending' = Pending \ {MainChannel}
        /\ mig'.nchannels = Cardinality(Pending')
        BY <1>1, <1>3, <2>1, <2>2, OneReady DEF M!HandshakeDone, MigrInv, Opening
  <2>4. /\ target'[MainChannel] = "ready"
        /\ \A d \in Others : target'[d] = target[d]
        BY <2>1 DEF MigrInv, MigrTypes
  <2>5. M!Connected(mig'.nchannels)
        BY <2>1, <2>2
  <2>6. \A d \in Channels \ Pending' : tsock'[d] = "dst"
        BY <1>1, <2>1, <2>3 DEF Opening
  <2>7. Begun /\ ~connect_idle /\ MigrTypes
        BY <1>1 DEF Opening, MigrInv
  <2> QED BY <1>1, <2>1, <2>3, <2>4, <2>5, <2>6, <2>7, OpenedGoes DEF Opening
<1> QED BY <1>1, <1>2, <1>3

LEMMA TargetFailsGoes ==
  ASSUME NEW c \in Channels, MigrInv, ~Closed, M!TargetFails(c)
  PROVE  (Dialing \/ Opening) /\ (Dialing' \/ Opening')
<1> USE MigrationConstants DEF Others
<1>1. Dialing \/ Opening
      BY DEF M!TargetFails, MigrInv, Phases, Moving, Closed, AtHost, Resting, Asked,
             Notified, Ready, Seamless, Waiting, Frozen, TargetIs
<1>2. /\ target' = [target EXCEPT ![c] = "failed"] /\ target[c] = "connecting"
      /\ UNCHANGED <<M!sessVars, main, migrate_delayed, mig, connect_idle, tsock, sent,
                     reply>>
      BY DEF M!TargetFails
<1>3. /\ target'[c] = "failed"
      /\ \A d \in Channels \ {c} : target'[d] = target[d]
      BY <1>2 DEF MigrInv, MigrTypes
<1>4. Pending' = Pending
      BY <1>2, <1>3 DEF Pending
<1> QED BY <1>1, <1>2, <1>3, <1>4
        DEF Dialing, Opening, Begun, Plain, NoneLeft, NoInit, SockIs, TsockIs

LEMMA BeginGoes ==
  ASSUME NEW s \in BOOLEAN, MigrInv, M!MigrateBegin(s)
  PROVE  AtHost("src") /\ Asked'
<1>1. AtHost("src") /\ NoInit
      BY Guards DEF M!MigrateBegin
<1> QED BY <1>1
        DEF M!MigrateBegin, AtHost, Resting, Asked, Begun, Plain, NoneLeft, NoInit, SockIs,
            TsockIs, TargetIs

LEMMA StartGoes ==
  ASSUME MigrInv, ~Closed, M!StartMigrating
  PROVE  Notified /\ (Seamless' \/ Waiting')
<1>1. Notified
      BY DEF M!StartMigrating, MigrInv, Phases, Moving, AtHost, Resting, Asked, Dialing,
             Opening, Begun, Seamless, Waiting, Frozen
<1> QED BY <1>1, MigrationConstants
        DEF M!StartMigrating, Notified, Seamless, Waiting, Ready, NoneLeft, NoInit, SockIs,
            TsockIs, TargetIs

LEMMA EndMsgGoes == MigrInv /\ M!MigrateEndMsg => Waiting /\ Waiting'
<1> SUFFICES ASSUME MigrInv, M!MigrateEndMsg PROVE Waiting /\ Waiting'
    OBVIOUS
<1>1. Waiting
      BY Guards DEF M!MigrateEndMsg, Seamless
<1> QED BY <1>1
        DEF M!MigrateEndMsg, Waiting, Ready, NoInit, SockIs, TsockIs, TargetIs

LEMMA MainInitGoes ==
  MigrInv /\ M!MainInit => (Frozen /\ Frozen') \/ (AtHost("dst") /\ AtHost("dst")')
<1> SUFFICES ASSUME MigrInv, M!MainInit
             PROVE  (Frozen /\ Frozen') \/ (AtHost("dst") /\ AtHost("dst")')
    OBVIOUS
<1>1. Frozen \/ AtHost("dst")
      BY Guards DEF M!MainInit
<1>2. CASE Frozen
      BY <1>2 DEF M!MainInit, Frozen, Ready, TargetIs, Others
<1>3. CASE AtHost("dst")
      BY <1>3 DEF M!MainInit, AtHost, Resting, Plain, NoneLeft, SockIs, TsockIs, TargetIs
<1> QED BY <1>1, <1>2, <1>3

LEMMA DisconnectGoes == MigrInv /\ M!SessionDisconnect => Closed'
BY DEF M!SessionDisconnect, M!AbortMigration, Closed, MigrInv, Booleans

\* How every step changes the phase.
LEMMA NextGoes ==
  ASSUME MigrInv, MigrTypes', [M!Next]_(M!vars)
  PROVE  /\ Closed => Closed'
         /\ AtHost("src") => AtHost("src")' \/ Moving' \/ Closed'
         /\ AtHost("dst") => AtHost("dst")' \/ Closed'
         /\ Moving => Moving' \/ AtHost("src")' \/ AtHost("dst")' \/ Closed'
<1>1. CASE Closed
      BY <1>1, ClosedStays, Exclusive DEF AtHost
<1>2. CASE ~Closed
  <2> USE <1>2 DEF Moving
  <2>0. /\ Moving => ~AtHost("src") /\ ~AtHost("dst")
        /\ ~(AtHost("src") /\ AtHost("dst"))
        BY Exclusive DEF AtHost
  <2>1. CASE \E s \in BOOLEAN : M!MigrateBegin(s)
        BY <2>0, <2>1, BeginGoes
  <2>2. CASE M!MigrateCancel
        BY <2>0, <2>2, CancelGoes, Guards DEF M!MigrateCancel
  <2>3. CASE M!MigrateEndMsg
        BY <2>0, <2>3, EndMsgGoes
  <2>4. CASE M!MainInit
        BY <2>0, <2>4, MainInitGoes
  <2>5. CASE \E c \in Channels : M!MigrateMsg(c)
        BY <2>0, <2>5, MigrateMsgGoes
  <2>6. CASE M!MigrateConnect
        BY <2>0, <2>6, ConnectGoes, Guards DEF M!MigrateConnect
  <2>7. CASE M!MainOpened
        BY <2>0, <2>7, MainOpenedGoes
  <2>8. CASE M!Handshake \/ M!HandshakeDone
        BY <2>0, <2>8, HandshakeGoes
  <2>9. CASE M!StartMigrating
        BY <2>0, <2>9, StartGoes
  <2>10. CASE M!MigrateEnd
        BY <2>0, <2>10, MigrateEndGoes
  <2>11. CASE M!AfterMainInit
        BY <2>0, <2>11, AfterMainInitGoes
  <2>12. CASE \E c \in Channels : M!OtherOpened(c)
        BY <2>0, <2>12, OtherOpenedGoes
  <2>13. CASE \E c \in Channels : M!TargetFails(c)
        BY <2>0, <2>13, TargetFailsGoes
  <2>14. CASE \E c \in Channels : M!LostEvent(c)
    <3>1. \A c \in Channels : target[c] # "lost"
          BY MigrationConstants
             DEF MigrInv, Phases, AtHost, Resting, Asked, Dialing, Opening, Notified,
                 Ready, Seamless, Waiting, Frozen, TargetIs, Others
    <3> QED BY <2>14, <3>1 DEF M!LostEvent
  <2>15. CASE M!SessionDisconnect
        BY <2>15, DisconnectGoes
  <2>16. CASE UNCHANGED M!vars
    <3>1. /\ AtHost("src") => AtHost("src")'
          /\ AtHost("dst") => AtHost("dst")'
          BY <2>16 DEF M!vars, AtHost, Resting, Plain, NoneLeft, NoInit, SockIs, TsockIs,
                       TargetIs
    <3>2. Moving => Moving'
          BY <2>16 DEF M!vars, Asked, Dialing, Opening, Begun, Notified, Seamless, Waiting,
                       Frozen, Ready, Plain, NoneLeft, NoInit, SockIs, TsockIs, TargetIs,
                       Pending
    <3> QED BY <3>1, <3>2
  <2> QED BY <2>1, <2>2, <2>3, <2>4, <2>5, <2>6, <2>7, <2>8, <2>9, <2>10, <2>11, <2>12,
             <2>13, <2>14, <2>15, <2>16 DEF M!Next, M!Server, M!Loop
<1> QED BY <1>1, <1>2

LEMMA NextMigrInv == MigrInv /\ [M!Next]_(M!vars) => MigrInv'
BY MigrTypesStep, NextGoes DEF MigrInv, Phases

\* What the phases say of the properties.
LEMMA MigrInvSuffices ==
  MigrInv => M!FrozenIsLeft /\ M!ReplyIsReady /\ M!CallIsSync
<1> SUFFICES ASSUME MigrInv PROVE M!FrozenIsLeft /\ M!ReplyIsReady /\ M!CallIsSync
    OBVIOUS
<1> USE MigrationConstants
        DEF MigrInv, Phases, Closed, AtHost, Resting, Moving, Asked, Dialing, Opening,
            Begun, Notified, Seamless, Waiting, Frozen, Ready, Plain, NoneLeft, TargetIs,
            Others
<1>1. M!FrozenIsLeft
      BY DEF M!FrozenIsLeft
<1>2. M!ReplyIsReady
      BY DEF M!ReplyIsReady
<1>3. M!CallIsSync
      BY DEF M!CallIsSync
<1> QED BY <1>1, <1>2, <1>3

\* The host the session talks to, by phase.
AtSays == /\ Closed => M!at = "closed"
          /\ AtHost("src") => M!at = "src"
          /\ AtHost("dst") => M!at = "dst"
          /\ Moving => M!at = "moving"

LEMMA AtValue == MigrInv => AtSays
<1> USE MigrationConstants
<1>1. Closed => M!at = "closed"
      BY DEF Closed, M!at
<1>2. AtHost("src") => M!at = "src"
      BY DEF AtHost, Resting, SockIs, M!at, M!AllOn
<1>3. AtHost("dst") => M!at = "dst"
      BY DEF AtHost, Resting, SockIs, M!at, M!AllOn
<1>4. Moving => ring = Channels /\ migration
      BY DEF Moving, Asked, Dialing, Opening, Begun, Notified, Seamless, Waiting, Frozen,
             Ready
<1> QED BY <1>1, <1>2, <1>3, <1>4 DEF M!at, AtSays

LEMMA HostSwitchInit == MigrInv /\ M!Init => M!HostSwitch!Init
BY MigrationConstants DEF M!Init, M!at, M!AllOn, M!HostSwitch!Init

LEMMA HostSwitchStep ==
  MigrInv /\ MigrInv' /\ [M!Next]_(M!vars) => [M!HostSwitch!Next]_(M!at)
<1> SUFFICES ASSUME MigrInv, MigrInv', [M!Next]_(M!vars)
             PROVE  [M!HostSwitch!Next]_(M!at)
    OBVIOUS
<1>1. AtSays
      BY AtValue
<1>2. AtSays'
      BY AtValue, PTL
<1>3. /\ Closed => Closed'
      /\ AtHost("src") => AtHost("src")' \/ Moving' \/ Closed'
      /\ AtHost("dst") => AtHost("dst")' \/ Closed'
      /\ Moving => Moving' \/ AtHost("src")' \/ AtHost("dst")' \/ Closed'
      BY NextGoes DEF MigrInv
<1>4. Closed \/ AtHost("src") \/ AtHost("dst") \/ Moving
      BY DEF MigrInv, Phases
<1> QED BY <1>1, <1>2, <1>3, <1>4
        DEF AtSays, M!HostSwitch!Next, M!HostSwitch!Begin, M!HostSwitch!Abort,
            M!HostSwitch!Finish, M!HostSwitch!Close

\* A step of any of the machines is one of Migration or leaves it alone.
LEMMA MigrationStep == [MCNext]_mcvars => [M!Next]_(M!vars)
<1> SUFFICES ASSUME [MCNext]_mcvars PROVE [M!Next]_(M!vars)
    OBVIOUS
<1>1. UNCHANGED migrationVars => UNCHANGED M!vars
      BY DEF migrationVars, M!vars
<1>2. CASE UNCHANGED mcvars
      BY <1>1, <1>2 DEF mcvars
<1>3. CASE MCNext
  <2>1. ASSUME NEW x \in {"life", "auth", "xmit"}, On(x) PROVE UNCHANGED migrationVars
        BY <2>1 DEF On
  <2> QED BY <1>1, <1>3, <2>1 DEF MCNext, M!Next, M!Server, M!Loop
<1> QED BY <1>2, <1>3

LEMMA MigrInvariance == MCSpec => []MigrInv
<1>1. MCInit => MigrInv
      BY InitMigrInv DEF MCInit
<1> QED BY <1>1, MigrationStep, NextMigrInv, PTL DEF MCSpec

\* Live migration (main_migrate_connect, spice_session_start_migrating,
\* spice_session_migrate_end), for any channels and any number of migrations begun,
\* cancelled or failed: a frozen channel is thawed, CONNECTED is answered only when the
\* whole target is ready, and no callback outlives the call whose stack it uses.
THEOREM SwitchSafeTheorem == MCSpec => []SwitchSafe
BY MigrInvariance, MigrInvSuffices, PTL DEF SwitchSafe

\* ... and the channels of the session all talk to one host before, after and instead
\* of a migration: every step of it is one of HostSwitch or none.
THEOREM HostSwitchTheorem == MCSpec => HostSwitchSpec
<1>1. MCInit => M!HostSwitch!Init
      BY InitMigrInv, HostSwitchInit DEF MCInit
<1>2. MigrInv /\ MigrInv' /\ [MCNext]_mcvars => [M!HostSwitch!Next]_(M!at)
      BY MigrationStep, HostSwitchStep
<1> QED BY <1>1, <1>2, MigrInvariance, PTL
        DEF MCSpec, HostSwitchSpec, M!HostSwitchSpec, M!HostSwitch!Spec

-----------------------------------------------------------------------------
(* Authentication *)

Items == [kind : {"mechs", "data", "result", "link"}, val : BOOLEAN, enc : BOOLEAN]
           \cup [kind : {"packet"}, val : 1 .. 3, enc : {TRUE}]
Plainly(kind, i) == wire[i].kind = kind /\ wire[i].enc = FALSE

\* Where the coroutine is not on the layer, and where it reads through it.
Agreeing == {"mechs", "reply", "result"}
Talking == {"wait", "recv", "handling"}

\* What is on the wire at each step of the coroutine: the server has answered what
\* was sent, and its answer is complete with the result and, in the layer, with the
\* link result.
WireInv ==
  /\ wire \in Seq(Items)
  /\ pc = "mechs" => \/ wire = <<>>
                     \/ Len(wire) = 1 /\ Plainly("mechs", 1) /\ ~turn
  /\ pc = "reply" => \/ wire = <<>>
                     \/ /\ Len(wire) = 1 /\ Plainly("data", 1) /\ ~turn
                        /\ wire[1].val = FALSE
                     \/ /\ Len(wire) = 2 /\ Plainly("data", 1) /\ Plainly("result", 2)
                        /\ wire[1].val = TRUE /\ wire[2].val = FALSE /\ ~turn
                     \/ /\ Len(wire) = 3 /\ Plainly("data", 1) /\ Plainly("result", 2)
                        /\ wire[1].val = TRUE /\ wire[2].val = TRUE /\ ~turn
                        /\ wire[3].kind = "link" /\ wire[3].enc = TRUE /\ wire[3].val = TRUE
  /\ pc = "result" => \/ /\ Len(wire) = 1 /\ Plainly("result", 1) /\ wire[1].val = FALSE
                      \/ /\ Len(wire) = 2 /\ Plainly("result", 1) /\ wire[1].val = TRUE
                         /\ wire[2].kind = "link" /\ wire[2].enc = TRUE /\ wire[2].val = TRUE
  /\ pc = "auth" /\ method = "sasl" => /\ Len(wire) = 1 /\ wire[1].kind = "link"
                                       /\ wire[1].enc = TRUE /\ wire[1].val = TRUE
  /\ pc = "auth" /\ method = "ticket" => \/ wire = <<>>
                                         \/ Len(wire) = 1 /\ Plainly("link", 1) /\ ~turn
  /\ pc \in Talking => IF method = "ticket" THEN wire = <<>>
                       ELSE \A i \in 1 .. Len(wire) : wire[i].val \in 1 .. 3 /\ wire[i].enc = TRUE

\* The layer, and what was decoded from it.
LayerInv ==
  /\ method \in {"sasl", "ticket"}
  /\ pc \in Agreeing \cup {"idle"} => sasl_conn = FALSE
  /\ pc \in Agreeing => method = "sasl"
  /\ pc \in Talking \cup {"auth"} => (method = "sasl" => sasl_conn = TRUE)
  /\ pc \in Talking \cup {"auth"} => (method = "ticket" => sasl_conn = FALSE)
  /\ decoded \in 0 .. 4
  /\ pc \in Agreeing \cup {"idle", "auth"} => decoded = 0 /\ ~auth_has_error
  /\ pc = "wait" => decoded = 0 \/ auth_has_error

\* What an attempt asks for, and its error.
ErrorInv ==
  /\ method = "ticket" => asks = {}
  /\ needs \in {{}, asks}
  /\ pc # "over" => auth_event = "NONE"
  /\ pc = "over" /\ auth_event = "ERROR_AUTH" /\ needs # {} => error = asks

AuthInv == WireInv /\ LayerInv /\ ErrorInv

LEMMA TailOf ==
  ASSUME NEW S, NEW s \in Seq(S), s # <<>>
  PROVE  /\ Head(s) = s[1] /\ Len(s) \in Nat /\ Len(s) >= 1
         /\ Tail(s) \in Seq(S) /\ Len(Tail(s)) = Len(s) - 1
         /\ \A i \in 1 .. Len(s) - 1 : Tail(s)[i] = s[i + 1]
         /\ Len(s) = 1 => Tail(s) = <<>>
<1>1. Tail(s) \in Seq(S) /\ Len(Tail(s)) = Len(s) - 1
      OBVIOUS
<1>2. \A t \in Seq(S) : Len(t) = 0 => t = <<>>
      BY EmptySeq
<1>3. Len(s) = 1 => Tail(s) = <<>>
  <2>1. Len(s) = 1 => Len(Tail(s)) = 0
        BY <1>1
  <2> QED BY <1>1, <1>2, <2>1, Zenon
<1> QED BY <1>1, <1>3, EmptySeq

LEMMA AppendTo ==
  ASSUME NEW S, NEW s \in Seq(S), NEW e \in S
  PROVE  /\ Append(s, e) \in Seq(S) /\ Len(Append(s, e)) = Len(s) + 1
         /\ \A i \in 1 .. Len(s) : Append(s, e)[i] = s[i]
         /\ Append(s, e)[Len(s) + 1] = e
OBVIOUS

LEMMA ShortSeqs ==
  ASSUME NEW S, NEW a \in S, NEW b \in S, NEW c \in S
  PROVE  /\ <<a, b>> \in Seq(S) /\ Len(<<a, b>>) = 2 /\ <<a, b>>[1] = a /\ <<a, b>>[2] = b
         /\ <<a, b, c>> \in Seq(S) /\ Len(<<a, b, c>>) = 3 /\ <<a, b, c>>[1] = a
         /\ <<a, b, c>>[2] = b /\ <<a, b, c>>[3] = c
         /\ <<c>> \in Seq(S) /\ Len(<<c>>) = 1 /\ <<c>>[1] = c
OBVIOUS

LEMMA TwoParts ==
  ASSUME NEW S, NEW a \in S, NEW b \in S
  PROVE  <<>> \o <<a, b>> \o <<>> = <<a, b>>
<1> DEFINE s == <<a, b>>
<1>1. s \in Seq(S)
      OBVIOUS
<1> HIDE DEF s
<1>2. <<>> \o s \o <<>> = s
      BY <1>1, ConcatEmptySeq
<1> QED BY <1>2 DEF s

LEMMA ThreeParts ==
  ASSUME NEW S, NEW a \in S, NEW b \in S, NEW c \in S
  PROVE  <<>> \o <<a, b>> \o <<c>> = <<a, b, c>>
<1> DEFINE s == <<a, b>>  t == <<c>>  u == <<a, b, c>>
<1>1. /\ s \in Seq(S) /\ Len(s) = 2 /\ s[1] = a /\ s[2] = b
      /\ u \in Seq(S) /\ Len(u) = 3 /\ u[1] = a /\ u[2] = b /\ u[3] = c
      /\ t \in Seq(S) /\ Len(t) = 1 /\ t[1] = c
      BY ShortSeqs
<1> HIDE DEF s, t, u
<1>2. <<>> \o s = s
      BY <1>1, ConcatEmptySeq
<1>3. s \o t \in Seq(S) /\ Len(s \o t) = 3
      BY <1>1, ConcatProperties
<1>4. \A i \in 1 .. 3 : (s \o t)[i] = u[i]
  <2> DEFINE v == s \o t
  <2>1. \A i \in 1 .. Len(s) + Len(t) : v[i] = IF i <= Len(s) THEN s[i] ELSE t[i - Len(s)]
        BY <1>1, ConcatProperties, Zenon
  <2> HIDE DEF v
  <2>2. v[1] = a /\ v[2] = b /\ v[3] = c
        BY <1>1, <2>1
  <2>3. \A i \in 1 .. 3 : v[i] = u[i]
        BY <1>1, <2>2
  <2> QED BY <2>3, Zenon DEF v
<1>5. s \o t = u
      BY <1>1, <1>3, <1>4, SeqEqual
<1> QED BY <1>2, <1>5, Zenon DEF s, t, u

LEMMA InitAuthInv == A!Init => AuthInv
<1> SUFFICES ASSUME A!Init PROVE AuthInv
    OBVIOUS
<1>1. WireInv
      BY DEF A!Init, WireInv, Talking
<1>2. LayerInv /\ ErrorInv
      BY DEF A!Init, LayerInv, ErrorInv, Agreeing, Talking
<1> QED BY <1>1, <1>2 DEF AuthInv

LEMMA AuthInvSuffices == AuthInv => A!LayerAgrees /\ A!ErrorTellsMissing /\ A!NothingLeft
<1> SUFFICES ASSUME AuthInv PROVE A!LayerAgrees /\ A!ErrorTellsMissing /\ A!NothingLeft
    OBVIOUS
<1>1. wire # <<>> => Head(wire) = wire[1] /\ Len(wire) \in Nat /\ Len(wire) >= 1
      BY TailOf DEF AuthInv, WireInv
<1>2. ASSUME wire # <<>>, pc \in Agreeing PROVE wire[1].enc = FALSE /\ sasl_conn = FALSE
      BY <1>1, <1>2 DEF AuthInv, WireInv, LayerInv, Agreeing, Plainly
<1>3. ASSUME wire # <<>>, pc \in Talking \cup {"auth"}, method = "sasl"
      PROVE  wire[1].enc = TRUE /\ sasl_conn = TRUE
  <2>1. sasl_conn = TRUE
        BY <1>3 DEF AuthInv, LayerInv
  <2>2. 1 \in 1 .. Len(wire)
        BY <1>1, <1>3
  <2>3. CASE pc = "auth"
        BY <1>3, <2>1, <2>3 DEF AuthInv, WireInv
  <2>4. CASE pc \in Talking
        BY <1>3, <2>1, <2>2, <2>4 DEF AuthInv, WireInv
  <2> QED BY <1>3, <2>3, <2>4
<1>4. ASSUME wire # <<>>, pc \in Talking \cup {"auth"}, method = "ticket"
      PROVE  wire[1].enc = FALSE /\ sasl_conn = FALSE
      BY <1>1, <1>4 DEF AuthInv, WireInv, LayerInv, Talking, Plainly
<1>6. A!LayerAgrees
      BY <1>1, <1>2, <1>3, <1>4
         DEF A!LayerAgrees, AuthInv, LayerInv, Agreeing, Talking
<1>7. A!ErrorTellsMissing
      BY DEF A!ErrorTellsMissing, AuthInv, ErrorInv, A!Missing
<1>8. A!NothingLeft
      BY DEF A!NothingLeft, AuthInv, LayerInv
<1> QED BY <1>6, <1>7, <1>8

USE DEF A!library, A!session, A!outcome, A!server, A!bounds

\* What the coroutine reads off the wire.
LEMMA ReadsFirst ==
  ASSUME NEW k, AuthInv, A!Reads(k)
  PROVE  /\ Len(wire) \in Nat /\ Len(wire) >= 1 /\ Head(wire) = wire[1] /\ wire[1].kind = k
         /\ wire' = Tail(wire) /\ wire' \in Seq(Items) /\ Len(wire') = Len(wire) - 1
         /\ \A i \in 1 .. Len(wire) - 1 : wire'[i] = wire[i + 1]
         /\ Len(wire) = 1 => wire' = <<>>
         /\ Len(wire) >= 2 => wire'[1] = wire[2]
         /\ Len(wire) >= 3 => wire'[2] = wire[3]
<1>1. wire \in Seq(Items)
      BY DEF AuthInv, WireInv
<1>2. wire # <<>> /\ Head(wire).kind = k /\ wire' = Tail(wire)
      BY DEF A!Reads
<1> QED BY <1>1, <1>2, TailOf

\* The layer goes on after the result and with a new attempt off, and the handler of
\* a message leaves nothing decoded when the coroutine waits for the socket.
LEMMA LayerStep == AuthInv /\ [A!Next]_(A!vars) => LayerInv'
<1> SUFFICES ASSUME AuthInv, [A!Next]_(A!vars) PROVE LayerInv'
    OBVIOUS
<1> USE DEF LayerInv, Agreeing, Talking
<1>1. LayerInv
      BY DEF AuthInv
<1>2. CASE A!ChooseSasl \/ A!SendTicket
      BY <1>1, <1>2 DEF A!ChooseSasl, A!SendTicket, A!Attempt
<1>3. CASE A!ReadMechs
      BY <1>1, <1>3 DEF A!ReadMechs, A!FailedSasl, A!Sent, A!Same
<1>4. CASE A!ReadReply
  <2>1. /\ pc = "reply" /\ pc' \in {"result", "over", "reply"}
        /\ UNCHANGED <<method, sasl_conn, decoded>>
        /\ pc' # "over" => UNCHANGED auth_has_error
        BY <1>4 DEF A!ReadReply, A!FailedSasl, A!Sent, A!Same
  <2> QED BY <1>1, <2>1
<1>5. CASE A!ReadResult
      BY <1>1, <1>5 DEF A!ReadResult, A!FailedSasl, A!Same, A!LayerOn
<1>6. CASE A!RecvAuth
      BY <1>1, <1>6 DEF A!RecvAuth, A!FailedTicket
<1>7. CASE A!Decode
  <2>1. wire[1].val \in 1 .. 3 /\ Head(wire) = wire[1]
    <3>1. wire # <<>> /\ pc = "recv"
          BY <1>7 DEF A!Decode
    <3>2. Len(wire) \in Nat /\ Len(wire) >= 1 /\ Head(wire) = wire[1]
          BY <3>1, TailOf DEF AuthInv, WireInv
    <3> QED BY <3>1, <3>2 DEF AuthInv, WireInv
  <2> QED BY <1>1, <1>7, <2>1 DEF A!Decode, A!Packet
<1>8. CASE A!WaitEnds \/ A!Handle \/ A!Handled \/ A!RecvNothing
      BY <1>1, <1>8 DEF A!WaitEnds, A!Handle, A!Handled, A!RecvNothing, A!GoesOn
<1>9. CASE A!Lost
      BY <1>1, <1>9 DEF A!Lost, A!FailedSasl, A!FailedLink
<1>10. CASE A!Disconnect
      BY <1>1, <1>10 DEF A!Disconnect, A!Parked
<1>11. CASE A!Retry
      BY <1>1, <1>11 DEF A!Retry
<1>12. CASE A!Server \/ A!ServerSends
  <2>1. UNCHANGED <<method, pc, auth_has_error, sasl_conn, decoded>>
        BY <1>12
           DEF A!Server, A!ServerMechs, A!ServerReply, A!ServerTicket, A!ServerSends
  <2> QED BY <1>1, <2>1
<1>13. CASE UNCHANGED A!vars
      BY <1>1, <1>13 DEF A!vars
<1> QED BY <1>2, <1>3, <1>4, <1>5, <1>6, <1>7, <1>8, <1>9, <1>10, <1>11, <1>12, <1>13
        DEF A!Next, A!Connect, A!Coroutine

\* An error of SASL is told with all that the mechanism asked for.
LEMMA ErrorStep == AuthInv /\ [A!Next]_(A!vars) => ErrorInv'
<1> SUFFICES ASSUME AuthInv, [A!Next]_(A!vars) PROVE ErrorInv'
    OBVIOUS
<1> USE DEF ErrorInv, A!NeedsOf, A!Ask
<1>1. ErrorInv
      BY DEF AuthInv
<1>2. CASE A!ChooseSasl \/ A!SendTicket
      BY <1>1, <1>2 DEF A!ChooseSasl, A!SendTicket, A!Attempt
<1>3. CASE A!ReadMechs
      BY <1>1, <1>3 DEF A!ReadMechs, A!FailedSasl, A!Sent, A!Same
<1>4. CASE A!ReadReply
      BY <1>1, <1>4 DEF A!ReadReply, A!FailedSasl, A!Sent, A!Same
<1>5. CASE A!ReadResult
      BY <1>1, <1>5 DEF A!ReadResult, A!FailedSasl, A!Same, A!LayerOn
<1>6. CASE A!RecvAuth
  <2>1. pc = "auth" /\ Head(wire) = wire[1]
        BY <1>6, ReadsFirst DEF A!RecvAuth
  <2>2. method = "sasl" => Head(wire).val = TRUE
        BY <2>1 DEF AuthInv, WireInv
  <2>3. method = "ticket" => needs = {}
        BY <1>1
  <2>4. method \in {"sasl", "ticket"}
        BY DEF AuthInv, LayerInv
  <2> QED BY <1>1, <1>6, <2>1, <2>2, <2>3, <2>4 DEF A!RecvAuth, A!FailedTicket
<1>7. CASE A!WaitEnds \/ A!Decode \/ A!Handle \/ A!Handled \/ A!RecvNothing
      BY <1>1, <1>7 DEF A!WaitEnds, A!Decode, A!Handle, A!Handled, A!RecvNothing
<1>8. CASE A!Lost
      BY <1>1, <1>8 DEF A!Lost, A!FailedSasl, A!FailedLink
<1>9. CASE A!Disconnect
      BY <1>1, <1>9 DEF A!Disconnect
<1>10. CASE A!Retry
      BY <1>1, <1>10 DEF A!Retry
<1>11. CASE A!Server \/ A!ServerSends
      BY <1>1, <1>11
         DEF A!Server, A!ServerMechs, A!ServerReply, A!ServerTicket, A!ServerSends
<1>12. CASE UNCHANGED A!vars
      BY <1>1, <1>12 DEF A!vars
<1> QED BY <1>2, <1>3, <1>4, <1>5, <1>6, <1>7, <1>8, <1>9, <1>10, <1>11, <1>12
        DEF A!Next, A!Connect, A!Coroutine

\* The server and the coroutine agree on what is on the wire.
LEMMA WireStep == AuthInv /\ [A!Next]_(A!vars) => WireInv'
<1> SUFFICES ASSUME AuthInv, [A!Next]_(A!vars) PROVE WireInv'
    OBVIOUS
<1> USE DEF WireInv, Talking, Plainly
<1>1. WireInv /\ LayerInv
      BY DEF AuthInv
<1>2. CASE A!ChooseSasl \/ A!SendTicket
      BY <1>1, <1>2, EmptySeq DEF A!ChooseSasl, A!SendTicket, A!Attempt
<1>3. CASE A!ReadMechs
  <2>1. /\ pc = "mechs" /\ A!Reads("mechs") /\ pc' \in {"reply", "over"}
        BY <1>3 DEF A!ReadMechs, A!FailedSasl
  <2>2. wire' = <<>> /\ wire' \in Seq(Items)
        BY <1>1, <2>1, ReadsFirst
  <2> QED BY <2>1, <2>2
<1>4. CASE A!ReadReply
  <2>1. /\ pc = "reply" /\ A!Reads("data") /\ pc' \in {"reply", "result", "over"}
        BY <1>4 DEF A!ReadReply, A!FailedSasl
  <2>2. /\ Head(wire) = wire[1] /\ wire' \in Seq(Items) /\ Len(wire') = Len(wire) - 1
        /\ Len(wire) \in Nat /\ Len(wire) >= 1
        /\ Len(wire) = 1 => wire' = <<>>
        /\ Len(wire) >= 2 => wire'[1] = wire[2]
        /\ Len(wire) >= 3 => wire'[2] = wire[3]
        BY <2>1, ReadsFirst
  <2>3. CASE Len(wire) = 1
    <3>1. wire' = <<>> /\ wire[1].val = FALSE
          BY <1>1, <2>1, <2>2, <2>3
    <3>2. pc' \in {"reply", "over"}
          BY <1>4, <2>2, <3>1 DEF A!ReadReply, A!NoMoreSteps, A!FailedSasl
    <3> QED BY <2>2, <3>1, <3>2
  <2>4. CASE Len(wire) # 1
    <3>1. Len(wire) \in {2, 3} /\ wire[1].val = TRUE
          BY <1>1, <2>1, <2>2, <2>4, EmptySeq
    <3>2. pc' \in {"result", "over"}
          BY <1>4, <2>2, <3>1 DEF A!ReadReply, A!NoMoreSteps, A!FailedSasl
    <3> QED BY <1>1, <2>1, <2>2, <3>1, <3>2
  <2> QED BY <2>3, <2>4
<1>5. CASE A!ReadResult
  <2>1. /\ pc = "result" /\ A!Reads("result") /\ UNCHANGED method
        /\ IF Head(wire).val THEN pc' = "auth" ELSE pc' = "over"
        BY <1>5 DEF A!ReadResult, A!FailedSasl, A!Same
  <2>2. /\ Head(wire) = wire[1] /\ wire' \in Seq(Items) /\ Len(wire') = Len(wire) - 1
        /\ Len(wire) >= 2 => wire'[1] = wire[2]
        BY <2>1, ReadsFirst
  <2>3. method = "sasl"
        BY <1>1, <2>1 DEF LayerInv, Agreeing
  <2> QED BY <1>1, <2>1, <2>2, <2>3
<1>6. CASE A!RecvAuth
  <2>1. /\ pc = "auth" /\ A!Reads("link") /\ UNCHANGED method
        /\ pc' \in {"wait", "over"}
        BY <1>6 DEF A!RecvAuth, A!FailedTicket
  <2>2. Len(wire) = 1
        BY <1>1, <2>1, ReadsFirst, EmptySeq DEF LayerInv
  <2>3. wire' = <<>> /\ wire' \in Seq(Items)
        BY <2>1, <2>2, ReadsFirst
  <2> QED BY <2>1, <2>3, EmptySeq
<1>7. CASE A!Decode
  <2>1. pc = "recv" /\ pc' = pc /\ wire # <<>> /\ wire' = Tail(wire) /\ UNCHANGED method
        BY <1>7 DEF A!Decode
  <2>2. /\ wire' \in Seq(Items) /\ Len(wire') = Len(wire) - 1 /\ Len(wire) \in Nat
        /\ \A i \in 1 .. Len(wire) - 1 : wire'[i] = wire[i + 1]
        BY <1>1, <2>1, TailOf
  <2> QED BY <1>1, <2>1, <2>2
<1>8. CASE A!WaitEnds \/ A!Handle \/ A!Handled \/ A!RecvNothing \/ A!Disconnect
  <2>1. /\ pc \in Talking /\ pc' \in Talking \cup {"over"}
        /\ UNCHANGED <<wire, method>>
        BY <1>8 DEF A!WaitEnds, A!Handle, A!Handled, A!RecvNothing, A!Disconnect, A!Parked
  <2> QED BY <1>1, <2>1
<1>9. CASE A!Lost
      BY <1>1, <1>9 DEF A!Lost, A!FailedSasl, A!FailedLink
<1>10. CASE A!Retry
      BY <1>1, <1>10 DEF A!Retry
<1>11. CASE UNCHANGED A!vars
      BY <1>1, <1>11 DEF A!vars
<1>12. A!Right \in BOOLEAN
      BY DEF A!Right
<1>13. CASE A!ServerMechs \/ A!ServerTicket
  <2>1. /\ turn' = FALSE /\ UNCHANGED <<pc, method>>
        /\ \/ pc = "mechs" /\ wire' = Append(wire, A!Item("mechs", TRUE, FALSE))
           \/ /\ pc = "auth" /\ method = "ticket" /\ turn
              /\ wire' = Append(wire, A!Item("link", A!Right, FALSE))
        BY <1>13 DEF A!ServerMechs, A!ServerTicket
  <2>2. A!Item("mechs", TRUE, FALSE) \in Items /\ A!Item("link", A!Right, FALSE) \in Items
        BY <1>12 DEF A!Item, Items
  <2>3. wire = <<>> /\ wire \in Seq(Items) /\ Len(wire) = 0
        BY <1>1, <1>13 DEF A!ServerMechs, A!ServerTicket
  <2>4. ASSUME NEW e \in Items, wire' = Append(wire, e)
        PROVE  wire' \in Seq(Items) /\ Len(wire') = 1 /\ wire'[1] = e
        BY <2>3, <2>4, AppendTo
  <2> QED BY <1>1, <2>1, <2>2, <2>4 DEF A!Item
<1>14. CASE A!ServerReply
  <2>1. pc = "reply" /\ pc' = pc /\ wire = <<>> /\ Len(wire) = 0 /\ turn' = FALSE
        BY <1>1, <1>14 DEF A!ServerReply
  <2> DEFINE d(v) == A!Item("data", v, FALSE)
             r(v) == A!Item("result", v, FALSE)
             l == A!Item("link", TRUE, TRUE)
  <2>2. d(TRUE) \in Items /\ d(FALSE) \in Items /\ r(TRUE) \in Items /\ r(FALSE) \in Items
        /\ l \in Items
        BY DEF A!Item, Items
  <2>3. CASE wire' = Append(wire, d(FALSE))
    <3>1. wire' \in Seq(Items) /\ Len(wire') = 1 /\ wire'[1] = d(FALSE)
      <4> DEFINE e == d(FALSE)
      <4>1. wire' = Append(wire, e) /\ e \in Items /\ wire \in Seq(Items)
            BY <1>1, <2>2, <2>3
      <4> HIDE DEF e
      <4>2. /\ wire' \in Seq(Items) /\ Len(wire') = Len(wire) + 1
            /\ wire'[Len(wire) + 1] = e
            BY <4>1, AppendTo
      <4>3. Len(wire') = 1 /\ wire'[1] = e
            BY <2>1, <4>2
      <4> QED BY <4>2, <4>3 DEF e
    <3> QED BY <2>1, <3>1 DEF A!Item
  <2>4. CASE ~A!Right /\ wire' = wire \o <<d(TRUE), r(A!Right)>> \o <<>>
    <3>1. A!Right = FALSE
          BY <1>12, <2>4
    <3>2. wire' \in Seq(Items) /\ Len(wire') = 2 /\ wire'[1] = d(TRUE) /\ wire'[2] = r(FALSE)
      <4> HIDE DEF d, r, l
      <4>1. wire' = <<>> \o <<d(TRUE), r(FALSE)>> \o <<>>
            BY <2>1, <2>4, <3>1
      <4>2. wire' = <<d(TRUE), r(FALSE)>>
            BY <2>2, <4>1, TwoParts, Zenon
      <4> QED BY <2>2, <4>2, ShortSeqs
    <3> QED BY <2>1, <3>2 DEF A!Item
  <2>5. CASE A!Right /\ wire' = wire \o <<d(TRUE), r(A!Right)>> \o <<l>>
    <3>1. A!Right = TRUE
          BY <1>12, <2>5
    <3>2. /\ wire' \in Seq(Items) /\ Len(wire') = 3
          /\ wire'[1] = d(TRUE) /\ wire'[2] = r(TRUE) /\ wire'[3] = l
      <4> HIDE DEF d, r, l
      <4>1. wire' = <<>> \o <<d(TRUE), r(TRUE)>> \o <<l>>
            BY <2>1, <2>5, <3>1
      <4>2. wire' = <<d(TRUE), r(TRUE), l>>
        <5>1. <<>> \o <<d(TRUE), r(TRUE)>> \o <<l>> = <<d(TRUE), r(TRUE), l>>
              BY <2>2, ThreeParts, Zenon
        <5> QED BY <4>1, <5>1
      <4> QED BY <2>2, <4>2, ShortSeqs
    <3> QED BY <2>1, <3>2 DEF A!Item
  <2> QED BY <1>14, <2>3, <2>4, <2>5 DEF A!ServerReply
<1>15. CASE A!ServerSends
  <2>1. PICK k \in 1 .. 3 : wire' = Append(wire, A!Item("packet", k, TRUE))
        BY <1>15 DEF A!ServerSends
  <2>2. /\ pc \in Talking /\ method = "sasl" /\ UNCHANGED <<pc, method>>
        /\ A!Item("packet", k, TRUE) \in Items
        BY <1>15 DEF A!ServerSends, A!Item, Items
  <2> DEFINE p == A!Item("packet", k, TRUE)
  <2>3. /\ wire' \in Seq(Items) /\ Len(wire') = Len(wire) + 1 /\ Len(wire) \in Nat
        /\ \A i \in 1 .. Len(wire) : wire'[i] = wire[i]
        /\ wire'[Len(wire) + 1] = p
    <3>1. wire' = Append(wire, p) /\ p \in Items /\ wire \in Seq(Items)
          BY <1>1, <2>1, <2>2
    <3> HIDE DEF p
    <3> QED BY <3>1, AppendTo
  <2> QED BY <1>1, <2>2, <2>3 DEF A!Item
<1> QED BY <1>2, <1>3, <1>4, <1>5, <1>6, <1>7, <1>8, <1>9, <1>10, <1>11, <1>13, <1>14,
           <1>15 DEF A!Next, A!Connect, A!Coroutine, A!Server

\* A step of any of the machines is one of Auth or leaves it alone.
LEMMA AuthStep == [MCNext]_mcvars => [A!Next]_(A!vars)
<1> SUFFICES ASSUME [MCNext]_mcvars PROVE [A!Next]_(A!vars)
    OBVIOUS
<1>1. UNCHANGED authVars => UNCHANGED A!vars
      BY DEF authVars, A!vars
<1>2. CASE UNCHANGED mcvars
      BY <1>1, <1>2 DEF mcvars
<1>3. CASE MCNext
  <2>1. ASSUME NEW x \in {"life", "migration", "xmit"}, On(x) PROVE UNCHANGED authVars
        BY <2>1 DEF On
  <2> QED BY <1>1, <1>3, <2>1
          DEF MCNext, A!Next, A!Connect, A!Coroutine, A!Server
<1> QED BY <1>2, <1>3

\* Authentication (spice_channel_perform_auth_sasl, spice_channel_recv_auth,
\* spice_channel_read_sasl), for any number of steps, wrong credentials and broken
\* connections: both sides change to the layer at the same message, an error tells
\* everything that is missing, and nothing decoded waits for the socket.
THEOREM AuthSafeTheorem == MCSpec => []AuthSafe
<1>1. MCInit => AuthInv
      BY InitAuthInv DEF MCInit
<1>2. AuthInv /\ [MCNext]_mcvars => AuthInv'
      BY AuthStep, WireStep, LayerStep, ErrorStep DEF AuthInv
<1>3. AuthInv => AuthSafe
      BY AuthInvSuffices DEF AuthSafe
<1> QED BY <1>1, <1>2, <1>3, PTL DEF MCSpec

============================================================================
