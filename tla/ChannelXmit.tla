---------------------------- MODULE ChannelXmit ----------------------------
(***************************************************************************)
(* The transmit queue of one SpiceChannel (spice-channel.c): any thread    *)
(* may queue a message; the channel's coroutine, which runs on the main    *)
(* thread, pops and writes them.  A producer that finds the queue empty    *)
(* attaches a high-priority timeout source whose callback resumes the      *)
(* coroutine.  The module keeps every unlock, every point where the        *)
(* coroutine gives the main loop control back, and the accesses to         *)
(* xmit_queue_size that are made outside xmit_queue_lock.                  *)
(*                                                                         *)
(* A GLib source id is the message whose push attached it; a message is    *)
(* <<thread, n>>, the n-th message of that thread, of size 1 or 2.         *)
(***************************************************************************)
EXTENDS Integers, Sequences, FiniteSets

CONSTANTS
  Producers,     \* threads other than the main one (the usb event thread)
  Main,          \* the main thread: main loop, callbacks and coroutines
  None,          \* no thread, no message, no source
  Ack,           \* a message the coroutine writes itself (send_internal)
  Tasks,         \* calls of spice_channel_flush_async
  ReadOnlyMsgs,  \* messages a read-only session refuses (out->ro_check)
  MaxMsgs,       \* bound: messages per thread
  MaxReceived,   \* bound: messages the server sends
  MaxConns,      \* bound: connections of the channel
  SizeModulus    \* width of the guint64 xmit_queue_size

ASSUME XmitAssumption ==
  /\ Main \notin Producers
  /\ None \notin Producers \cup {Main}
  /\ MaxMsgs \in Nat /\ MaxReceived \in Nat /\ MaxConns \in Nat
  /\ SizeModulus \in Nat \ {0}
  /\ Ack # None
  /\ {Ack, None} \cap ((Producers \cup {Main}) \X Nat) = {}

VARIABLES
  \* SpiceChannelPrivate
  xmit_queue, xmit_queue_blocked, xmit_queue_wakeup_id, xmit_queue_size,
  state, has_error, flushing,
  \* the threads inside spice_msg_out_send
  lock, pc, sent, was_empty, loaded,
  \* the main loop and the coroutine
  sources, main, co, cond, cur, fits, received,
  \* history
  conns, accepted, wire, target, result

queueVars == <<xmit_queue, xmit_queue_blocked, xmit_queue_wakeup_id>>
sendVars  == <<pc, sent, was_empty, loaded>>
loopVars  == <<sources, main, co, cond>>
recVars   == <<state, has_error, received, conns>>
writeVars == <<cur, fits, wire>>
flushVars == <<flushing, target, result>>
vars == <<queueVars, xmit_queue_size, lock, accepted, sendVars, loopVars,
          recVars, writeVars, flushVars>>

Threads == Producers \cup {Main}
Msgs    == Threads \X (1 .. MaxMsgs)
Size(m) == 1 + (m[2] % 2)

\* Where the coroutine is parked with wait_id set: g_coroutine_wakeup and the
\* readiness of the socket both resume it there.
SocketWaits == {"wait_link", "wait_out", "wait_in", "wait_msg"}
After == [wait_link |-> "link", wait_out |-> "flush",
          wait_in |-> "read", wait_msg |-> "recv"]
\* Where it is parked with wait_id = 0: a condition wait ("frozen"), the
\* emission of a signal ("opened", "emit"), or it does not run at all.
OtherParks == {"frozen", "opened", "emit", "delayed", "exited", "none"}
Running    == {"link", "iterate", "pop", "size", "subtract", "write", "flush",
               "park", "read", "recv", "handle", "exit"}

TypeOK ==
  /\ xmit_queue \in Seq(Msgs)
  /\ xmit_queue_blocked \in BOOLEAN
  /\ xmit_queue_wakeup_id \in Msgs \cup {None}
  /\ xmit_queue_size \in Nat
  /\ state \in {"UNCONNECTED", "CONNECTING", "READY", "MIGRATING"}
  /\ has_error \in BOOLEAN
  /\ flushing \subseteq Tasks
  /\ lock \in Threads \cup {None}
  /\ pc \in [Threads -> {"idle", "lock", "locked", "size", "wake", "store"}]
  /\ sent \in [Threads -> 0 .. MaxMsgs]
  /\ was_empty \in BOOLEAN
  /\ loaded \in Nat
  /\ sources \subseteq Msgs
  /\ main \in {"loop", "wakeup", "woken", "co"}
  /\ co \in SocketWaits \cup OtherParks \cup Running
  /\ cond \in BOOLEAN
  /\ cur \in Msgs \cup {Ack, None}
  /\ fits \in BOOLEAN
  /\ received \in 0 .. MaxReceived
  /\ conns \in 0 .. MaxConns
  /\ accepted \in Seq(Msgs)
  /\ wire \in Seq(Msgs)
  /\ target \in [Tasks -> Nat \X Nat]
  /\ result \in [Tasks -> {"none", "pending", "TRUE", "FALSE", "error"}]

Init ==
  /\ xmit_queue = <<>> /\ xmit_queue_blocked = FALSE
  /\ xmit_queue_wakeup_id = None /\ xmit_queue_size = 0
  /\ state = "UNCONNECTED" /\ has_error = FALSE /\ flushing = {}
  /\ lock = None /\ pc = [t \in Threads |-> "idle"]
  /\ sent = [t \in Threads |-> 0] /\ was_empty = FALSE /\ loaded = 0
  /\ sources = {} /\ main = "loop" /\ co = "none" /\ cond = FALSE
  /\ cur = None /\ fits = FALSE /\ received = 0
  /\ conns = 0 /\ accepted = <<>> /\ wire = <<>>
  /\ target = [t \in Tasks |-> <<0, 0>>]
  /\ result = [t \in Tasks |-> "none"]

-----------------------------------------------------------------------------
(* spice_msg_out_send: any thread *)

MsgOfNext(t) == <<t, sent[t] + 1>>
MsgOf(t) == <<t, sent[t]>>

PushHead(m) == <<m>> \o xmit_queue
PushTail(m) == Append(xmit_queue, m)

\* xmit_queue_size restarts from zero on an empty queue
KeepSize(empty) == xmit_queue_size
SizeBefore(empty) == IF empty THEN 0 ELSE xmit_queue_size

\* The main thread runs the main loop's callbacks or the coroutine, and both
\* may send; while it is inside spice_msg_out_send it does nothing else.
MainFree == pc[Main] = "idle"
Loop     == main = "loop" /\ MainFree
CoAt(where) == main = "co" /\ co = where /\ MainFree
MaySend(t) == t = Main => Loop \/ CoAt("handle")

MsgOutNew(t) ==
  /\ pc[t] = "idle" /\ MaySend(t) /\ sent[t] < MaxMsgs
  /\ sent' = [sent EXCEPT ![t] = @ + 1]
  /\ pc' = [pc EXCEPT ![t] = "lock"]
  /\ UNCHANGED <<queueVars, xmit_queue_size, lock, accepted, was_empty, loaded,
                 loopVars, recVars, writeVars, flushVars>>

SendLock(t) ==
  /\ pc[t] = "lock" /\ lock = None
  /\ lock' = t
  /\ pc' = [pc EXCEPT ![t] = "locked"]
  /\ UNCHANGED <<queueVars, xmit_queue_size, accepted, sent, was_empty, loaded,
                 loopVars, recVars, writeVars, flushVars>>

Unlock(t) == lock' = None /\ pc' = [pc EXCEPT ![t] = "idle"]

SendBlocked(t) ==
  /\ pc[t] = "locked" /\ xmit_queue_blocked
  /\ Unlock(t)
  /\ UNCHANGED <<queueVars, xmit_queue_size, accepted, sent, was_empty, loaded,
                 loopVars, recVars, writeVars, flushVars>>

\* was_empty, the push, and the read half of the update of xmit_queue_size
SendPush(t) ==
  /\ pc[t] = "locked" /\ ~xmit_queue_blocked
  /\ was_empty' = (xmit_queue = <<>>)
  /\ xmit_queue' = PushTail(MsgOf(t))
  /\ accepted' = Append(accepted, MsgOf(t))
  /\ loaded' = SizeBefore(was_empty')
  /\ pc' = [pc EXCEPT ![t] = "size"]
  /\ UNCHANGED <<xmit_queue_blocked, xmit_queue_wakeup_id, xmit_queue_size,
                 lock, sent, loopVars, recVars, writeVars, flushVars>>

\* the write half, and the unlock when no wakeup is needed
SendSize(t) ==
  /\ pc[t] = "size"
  /\ xmit_queue_size' = (loaded + Size(MsgOf(t))) % SizeModulus
  /\ IF was_empty /\ xmit_queue_wakeup_id = None
       THEN pc' = [pc EXCEPT ![t] = "wake"] /\ UNCHANGED lock
       ELSE Unlock(t)
  /\ UNCHANGED <<queueVars, accepted, sent, was_empty, loaded, loopVars,
                 recVars, writeVars, flushVars>>

\* g_timeout_add_full: from here on the main loop can dispatch the source ...
SendAttach(t) ==
  /\ pc[t] = "wake"
  /\ sources' = sources \cup {MsgOf(t)}
  /\ pc' = [pc EXCEPT ![t] = "store"]
  /\ UNCHANGED <<queueVars, xmit_queue_size, lock, accepted, sent, was_empty,
                 loaded, main, co, cond, recVars, writeVars, flushVars>>

\* ... and only here is its id stored
SendStore(t) ==
  /\ pc[t] = "store"
  /\ xmit_queue_wakeup_id' = MsgOf(t)
  /\ Unlock(t)
  /\ UNCHANGED <<xmit_queue, xmit_queue_blocked, xmit_queue_size, accepted,
                 sent, was_empty, loaded, loopVars, recVars, writeVars,
                 flushVars>>

MsgOutSend(t) == \/ MsgOutNew(t) \/ SendLock(t) \/ SendBlocked(t)
                 \/ SendPush(t) \/ SendSize(t) \/ SendAttach(t) \/ SendStore(t)

-----------------------------------------------------------------------------
(* Main loop: sources, wakeups, and the calls of the application *)

\* g_coroutine_wakeup: resumes the coroutine only where wait_id is set
Wakeup == IF co \in SocketWaits THEN main' = "co" /\ co' = After[co]
                                ELSE main' = "loop" /\ UNCHANGED co

\* spice_channel_idle_wakeup, up to its g_mutex_lock
DispatchWakeup ==
  /\ Loop
  /\ \E s \in sources : sources' = sources \ {s}
  /\ main' = "wakeup"
  /\ UNCHANGED <<queueVars, xmit_queue_size, lock, accepted, sendVars, co, cond,
                 recVars, writeVars, flushVars>>

ClearIdUnlocked ==
  /\ main = "wakeup"
  /\ xmit_queue_wakeup_id' = None
ClearIdLocked ==
  /\ main = "wakeup" /\ lock = None
  /\ xmit_queue_wakeup_id' = None

ClearWakeupId ==
  /\ ClearIdLocked
  /\ main' = "woken"
  /\ UNCHANGED <<xmit_queue, xmit_queue_blocked, xmit_queue_size, lock, accepted,
                 sendVars, sources, co, cond, recVars, writeVars, flushVars>>

IdleWakeup ==
  /\ main = "woken"
  /\ Wakeup
  /\ UNCHANGED <<queueVars, xmit_queue_size, lock, accepted, sendVars, sources,
                 cond, recVars, writeVars, flushVars>>

SocketReady ==
  /\ Loop /\ co \in SocketWaits
  /\ main' = "co" /\ co' = After[co]
  /\ UNCHANGED <<queueVars, xmit_queue_size, lock, accepted, sendVars, sources,
                 cond, recVars, writeVars, flushVars>>

\* channel_connect, called by spice_channel_connect: unblock the queue and
\* start the coroutine from an idle
ChannelConnect ==
  /\ Loop /\ state = "UNCONNECTED" /\ co = "none" /\ conns < MaxConns
  /\ conns' = conns + 1
  /\ state' = "CONNECTING"
  /\ xmit_queue_blocked' = FALSE
  /\ co' = "delayed"
  /\ IF xmit_queue_blocked THEN wire' = <<>> /\ accepted' = <<>>
                           ELSE UNCHANGED <<wire, accepted>>
  /\ UNCHANGED <<xmit_queue, xmit_queue_wakeup_id, xmit_queue_size, lock,
                 sendVars, sources, main, cond, has_error, received, cur, fits,
                 flushVars>>

\* connect_delayed, then spice_channel_coroutine up to its label "connected"
ConnectDelayed ==
  /\ Loop /\ co = "delayed"
  /\ main' = "co" /\ co' = "link" /\ has_error' = FALSE
  /\ UNCHANGED <<queueVars, xmit_queue_size, lock, accepted, sendVars, sources,
                 cond, state, received, conns, writeVars, flushVars>>

\* wait_migration has become true and the condition source is attached
ThawFrozen ==
  /\ Loop /\ co = "frozen" /\ cond /\ state # "MIGRATING"
  /\ main' = "co" /\ cond' = FALSE
  /\ co' = IF has_error THEN "exit" ELSE "pop"
  /\ UNCHANGED <<queueVars, xmit_queue_size, lock, accepted, sendVars, sources,
                 recVars, writeVars, flushVars>>

\* the idle of g_coroutine_signal_emit ran: back to the coroutine.  The handler
\* of OPENED freezes a channel that connects to the target of a migration
\* (migrate_channel_event_cb); only a disconnection thaws it.
EmitDone ==
  /\ Loop /\ co \in {"opened", "emit"}
  /\ main' = "co"
  /\ IF co = "opened"
       THEN co' = "iterate" /\ state' \in {state, "MIGRATING"}
       ELSE co' = "handle" /\ UNCHANGED state
  /\ UNCHANGED <<queueVars, xmit_queue_size, lock, accepted, sendVars, sources,
                 cond, has_error, received, conns, writeVars, flushVars>>

\* spice_channel_disconnect from the main context
Disconnect ==
  /\ Loop /\ state # "UNCONNECTED"
  /\ has_error' = TRUE
  /\ IF state = "MIGRATING"
       THEN state' = "READY" /\ UNCHANGED <<main, co, cond>>
       ELSE Wakeup /\ cond' = FALSE /\ UNCHANGED state
  /\ UNCHANGED <<queueVars, xmit_queue_size, lock, accepted, sendVars, sources,
                 received, conns, writeVars, flushVars>>

\* spice_channel_delayed_unref
DelayedUnref ==
  /\ Loop /\ co = "exited"
  /\ co' = "none" /\ state' = "UNCONNECTED"
  /\ UNCHANGED <<queueVars, xmit_queue_size, lock, accepted, sendVars, sources,
                 main, cond, has_error, received, conns, writeVars, flushVars>>

NothingQueued == xmit_queue = <<>>

\* spice_channel_flush_async
FlushAsync ==
  /\ Loop /\ lock = None
  /\ \E t \in Tasks :
       /\ result[t] = "none"
       /\ target' = [target EXCEPT ![t] = <<conns, Len(accepted)>>]
       /\ IF state # "READY"
            THEN result' = [result EXCEPT ![t] = "error"] /\ UNCHANGED flushing
          ELSE IF NothingQueued
            THEN result' = [result EXCEPT ![t] = "TRUE"] /\ UNCHANGED flushing
          ELSE /\ result' = [result EXCEPT ![t] = "pending"]
               /\ flushing' = flushing \cup {t}
  /\ UNCHANGED <<queueVars, xmit_queue_size, lock, accepted, sendVars, loopVars,
                 recVars, writeVars>>

FlushedOnSuccess(success) ==
  IF success = "TRUE"
    THEN /\ result' = [t \in Tasks |-> IF t \in flushing THEN success ELSE result[t]]
         /\ flushing' = {} /\ UNCHANGED target
    ELSE UNCHANGED flushVars
\* spice_channel_flushed
Flushed(success) ==
  /\ result' = [t \in Tasks |-> IF t \in flushing THEN success ELSE result[t]]
  /\ flushing' = {}
  /\ UNCHANGED target

-----------------------------------------------------------------------------
(* The coroutine *)

CoGoto(where) == main' = "co" /\ co' = where
CoYield(park) == main' = "loop" /\ co' = park

\* link header, link message and authentication
Link ==
  /\ CoAt("link")
  /\ \/ /\ CoYield("wait_link")
        /\ UNCHANGED <<state, has_error>>
     \/ /\ ~has_error
        /\ CoYield("opened") /\ state' = "READY"
        /\ UNCHANGED has_error
     \/ /\ CoGoto("exit") /\ has_error' \in {has_error, TRUE}
        /\ UNCHANGED state
  /\ UNCHANGED <<queueVars, xmit_queue_size, lock, accepted, sendVars, sources,
                 cond, received, conns, writeVars, flushVars>>

\* spice_channel_iterate
Iterate ==
  /\ CoAt("iterate")
  /\ IF state = "MIGRATING"
       THEN CoYield("frozen") /\ cond' = TRUE
       ELSE CoGoto(IF has_error THEN "exit" ELSE "pop") /\ UNCHANGED cond
  /\ UNCHANGED <<queueVars, xmit_queue_size, lock, accepted, sendVars, sources,
                 recVars, writeVars, flushVars>>

\* spice_channel_iterate_write: the locked pop
Pop ==
  /\ CoAt("pop") /\ lock = None /\ xmit_queue # <<>>
  /\ cur' = Head(xmit_queue)
  /\ xmit_queue' = Tail(xmit_queue)
  /\ CoGoto("size")
  /\ UNCHANGED <<xmit_queue_blocked, xmit_queue_wakeup_id, xmit_queue_size, lock,
                 accepted, sendVars, sources, cond, recVars, fits, wire,
                 flushVars>>

PopNull ==
  /\ CoAt("pop") /\ lock = None /\ xmit_queue = <<>>
  /\ Flushed("TRUE")
  /\ CoGoto(IF has_error THEN "exit" ELSE "park")
  /\ UNCHANGED <<queueVars, xmit_queue_size, lock, accepted, sendVars, sources,
                 cond, recVars, writeVars>>

\* xmit_queue_size < size ? 0 : xmit_queue_size - size, outside the lock: the
\* comparison and the subtraction read the variable separately
SizeTest ==
  /\ CoAt("size")
  /\ fits' = (xmit_queue_size >= Size(cur))
  /\ CoGoto("subtract")
  /\ UNCHANGED <<queueVars, xmit_queue_size, lock, accepted, sendVars, sources,
                 cond, recVars, cur, wire, flushVars>>

SizeSubtract ==
  /\ CoAt("subtract")
  /\ xmit_queue_size' = IF fits THEN (xmit_queue_size - Size(cur)) % SizeModulus
                                ELSE 0
  /\ CoGoto("write")
  /\ UNCHANGED <<queueVars, lock, accepted, sendVars, sources, cond, recVars,
                 writeVars, flushVars>>

AlwaysSent(m) == FALSE
Refused(m) == m \in ReadOnlyMsgs

\* spice_channel_write_msg: the read-only check
WriteMsg ==
  /\ CoAt("write")
  /\ IF Refused(cur) THEN CoGoto("pop") /\ cur' = None
                     ELSE CoGoto("flush") /\ UNCHANGED cur
  /\ UNCHANGED <<queueVars, xmit_queue_size, lock, accepted, sendVars, sources,
                 cond, recVars, fits, wire, flushVars>>

\* spice_channel_flush_wire: all written, would block, or failed
FlushWire ==
  /\ CoAt("flush")
  /\ \/ /\ ~has_error
        /\ CoYield("wait_out")
        /\ UNCHANGED <<has_error, cur, wire>>
     \/ /\ cur' = None
        /\ CoGoto(IF cur = Ack THEN "read" ELSE "pop")
        /\ \/ /\ ~has_error
              /\ wire' = IF cur = Ack THEN wire ELSE Append(wire, cur)
              /\ UNCHANGED has_error
           \/ /\ has_error' = TRUE
              /\ UNCHANGED wire
  /\ UNCHANGED <<queueVars, xmit_queue_size, lock, accepted, sendVars, sources,
                 cond, state, received, conns, fits, flushVars>>

\* spice_channel_iterate_read: g_coroutine_socket_wait(G_IO_IN)
Park ==
  /\ CoAt("park")
  /\ CoYield("wait_in")
  /\ UNCHANGED <<queueVars, xmit_queue_size, lock, accepted, sendVars, sources,
                 cond, recVars, writeVars, flushVars>>

\* its loop: stop, or receive one more message
Read ==
  /\ CoAt("read")
  /\ \/ CoGoto(IF has_error THEN "exit" ELSE "iterate")
     \/ /\ ~has_error /\ state # "MIGRATING" /\ received < MaxReceived
        /\ CoGoto("recv")
  /\ UNCHANGED <<queueVars, xmit_queue_size, lock, accepted, sendVars, sources,
                 cond, recVars, writeVars, flushVars>>

\* spice_channel_recv_msg: blocked mid-message, complete, or failed
Recv ==
  /\ CoAt("recv")
  /\ \/ /\ ~has_error
        /\ CoYield("wait_msg")
        /\ UNCHANGED <<received, has_error>>
     \/ /\ ~has_error
        /\ CoGoto("handle") /\ received' = received + 1
        /\ UNCHANGED has_error
     \/ /\ CoGoto("exit") /\ has_error' = TRUE
        /\ UNCHANGED received
  /\ UNCHANGED <<queueVars, xmit_queue_size, lock, accepted, sendVars, sources,
                 cond, state, conns, writeVars, flushVars>>

\* A message handler: it may emit a signal, write a message itself (an ack, a
\* pong), or return.
Handle ==
  /\ CoAt("handle")
  /\ \/ CoYield("emit") /\ UNCHANGED cur
     \/ CoGoto("flush") /\ cur' = Ack
     \/ CoGoto("read") /\ UNCHANGED cur
  /\ UNCHANGED <<queueVars, xmit_queue_size, lock, accepted, sendVars, sources,
                 cond, recVars, fits, wire, flushVars>>

RemoveWakeup == /\ sources' = sources \ {xmit_queue_wakeup_id}
                /\ xmit_queue_wakeup_id' = None

\* channel_reset at the end of the coroutine
ChannelReset ==
  /\ CoAt("exit") /\ lock = None
  /\ xmit_queue_blocked' = TRUE
  /\ xmit_queue' = <<>>
  /\ RemoveWakeup
  /\ Flushed(IF xmit_queue = <<>> THEN "TRUE" ELSE "FALSE")
  /\ CoYield("exited")
  /\ UNCHANGED <<xmit_queue_size, lock, accepted, sendVars, cond, recVars,
                 writeVars>>

-----------------------------------------------------------------------------

MainLoop == \/ DispatchWakeup \/ ClearWakeupId \/ IdleWakeup \/ SocketReady
            \/ ConnectDelayed \/ ThawFrozen \/ EmitDone \/ DelayedUnref
User == ChannelConnect \/ Disconnect \/ FlushAsync
Coroutine == \/ Link \/ Iterate \/ Pop \/ PopNull \/ SizeTest \/ SizeSubtract
             \/ WriteMsg \/ FlushWire \/ Park \/ Read \/ Recv \/ Handle
             \/ ChannelReset

Next == \/ \E t \in Threads : MsgOutSend(t)
        \/ MainLoop
        \/ User
        \/ Coroutine

Spec == Init /\ [][Next]_vars

-----------------------------------------------------------------------------
(* Fairness.  GLib dispatches every ready source: an idle, a timeout and a   *)
(* condition that holds are not passed over for ever (SF, because other      *)
(* callbacks run in between); threads and the coroutine do not stop between  *)
(* two statements (WF).  PeerResponsive is the assumption on the network: a  *)
(* server keeps reading, answers the link messages and completes a message   *)
(* it began.  A message handler returns.  Nothing is assumed of the          *)
(* application.                                                              *)

\* what ends a wait for the peer, or a message handler
Complete == \/ Link /\ co' # "wait_link"
            \/ FlushWire /\ co' # "wait_out"
            \/ Recv /\ co' # "wait_msg"
            \/ Handle /\ co' = "read"

PeerResponsive == SF_vars(Complete) /\ WF_vars(SocketReady /\ co # "wait_in")

Idles == ConnectDelayed \/ ThawFrozen \/ EmitDone \/ DelayedUnref

Fairness ==
  /\ \A t \in Threads : WF_vars(MsgOutSend(t) /\ pc[t] # "idle")
  /\ WF_vars(ClearWakeupId \/ IdleWakeup \/ Coroutine)
  /\ SF_vars(DispatchWakeup) /\ SF_vars(Idles)
  /\ PeerResponsive

FairSpec == Spec /\ Fairness

-----------------------------------------------------------------------------
(* Properties *)

\* A coroutine that waits for input with messages in its queue has a wakeup
\* coming (spice_msg_out_send attaches one only when it finds the queue empty
\* and no id stored, so a wrong id silences the channel for ever: the race the
\* comment in spice_channel_idle_wakeup describes).
NoLostWakeup ==
  (co = "wait_in" /\ xmit_queue # <<>> /\ main = "loop" /\ lock = None)
    => sources # {}

\* Outside the critical section and the callback, xmit_queue_wakeup_id names
\* exactly the attached source, so that channel_reset removes it and no
\* callback can run on a channel that has been unreferenced.
WakeupIdExact ==
  (lock = None /\ main # "wakeup")
    => sources = IF xmit_queue_wakeup_id = None THEN {} ELSE {xmit_queue_wakeup_id}

\* From channel_reset to the next connection nothing can be queued and no
\* source is attached, whatever the other threads were doing.
BlockedIsDrained ==
  xmit_queue_blocked
    => /\ xmit_queue = <<>> /\ sources = {}
       /\ \A t \in Threads : pc[t] \notin {"size", "wake", "store"}

\* Whatever the threads and the coroutine do to the queue, its source and its id agree:
\* nothing sleeps on a full queue and nothing wakes up on a dead one.
WakeupSafe == NoLostWakeup /\ WakeupIdExact /\ BlockedIsDrained

\* A flush that reports success was not answered before the messages queued
\* ahead of it on its connection had left the queue.
FlushedLeftQueue ==
  \A t \in Tasks :
    (result[t] = "TRUE" /\ target[t][1] = conns)
      => Len(accepted) - Len(xmit_queue) >= target[t][2]

\* As long as only the main thread has sent (every channel but usbredir), the
\* size spice_channel_get_queue_size reports for a non-empty queue is exact, also
\* after a reset, which does not clear it.
SizeUnits(q) == {u \in (1 .. Len(q)) \X {1, 2} : u[2] <= Size(q[u[1]])}
Popped == IF co \in {"size", "subtract"} THEN Size(cur) ELSE 0
SizeExact ==
  LET queued == Cardinality(SizeUnits(xmit_queue)) IN
  ((\A t \in Producers : sent[t] = 0) /\ MainFree /\ queued + Popped > 0)
    => xmit_queue_size = queued + Popped

\* What the sender reads of the queue is true: the size it waits on (usbredir) and the
\* answer of a flush.
SendSafe == FlushedLeftQueue /\ SizeExact

\* The channel implements the ordered delivery of the messages it accepts: what left the
\* queue is dealt with, but for the message being written, and a connection is over once
\* it met an error, and after channel_reset.
Taken == Len(accepted) - Len(xmit_queue) - (IF cur \in {None, Ack} THEN 0 ELSE 1)
Ended == xmit_queue_blocked \/ (has_error /\ co # "delayed")
Delivery == INSTANCE OrderedDelivery WITH
              Message <- Msgs, Unsendable <- ReadOnlyMsgs,
              delivered <- wire, taken <- Taken, ended <- Ended
DeliverySpec == Delivery!Spec

\* A queued message does not stay in the queue of a running coroutine, unless
\* a migration freezes the channel.
QueueDrains ==
  (xmit_queue # <<>> /\ co # "none") ~> (xmit_queue = <<>> \/ co = "frozen")

\* Every flush is answered, unless a migration freezes the channel.
FlushCompletes ==
  \A t \in Tasks :
    (result[t] = "pending") ~> (result[t] # "pending" \/ co = "frozen")
=============================================================================
