------------------------ MODULE ChannelXmit_proofs ------------------------
(***************************************************************************)
(* Proofs about ChannelXmit, for any set of producer threads and any       *)
(* bounds: the queue of a parked coroutine is never left without a wakeup, *)
(* the stored source id is exact and a blocked queue is empty; the channel *)
(* implements the ordered delivery of what it accepts; an answered flush   *)
(* and the size of the queue are true.                                     *)
(***************************************************************************)
EXTENDS ChannelXmit, SequenceTheorems, FiniteSetTheorems, FunctionTheorems, TLAPS

Critical == {"locked", "size", "wake", "store"}

\* The lock is held exactly by the thread inside the critical section.
LockInv == /\ lock \in Threads \cup {None}
           /\ \A t \in Threads : pc[t] \in Critical <=> lock = t

\* The id and the attached sources, at every step of a send or a dispatch.
SourceInv ==
  /\ xmit_queue_wakeup_id # None
       => \/ sources = {xmit_queue_wakeup_id}
          \/ sources = {} /\ main = "wakeup"
  /\ xmit_queue_wakeup_id = None
       => \/ sources = {}
          \/ \E t \in Threads : pc[t] = "store" /\ sources = {MsgOf(t)}
  /\ \A t \in Threads :
       /\ pc[t] = "wake" => xmit_queue_wakeup_id = None /\ sources = {}
       /\ pc[t] = "store" => /\ xmit_queue_wakeup_id = None
                             /\ sources = {MsgOf(t)} \/ main = "wakeup"
  /\ main = "wakeup"
       => /\ sources = {}
          /\ xmit_queue_wakeup_id = None => \E t \in Threads : pc[t] = "store"

\* A wakeup is stored, being attached, or running.
WakeupComing ==
  \/ xmit_queue_wakeup_id # None
  \/ \E t \in Threads : \/ pc[t] = "size" /\ was_empty
                        \/ pc[t] \in {"wake", "store"}
  \/ main \in {"wakeup", "woken"}

\* A coroutine about to wait for input is still running.
ParkedInv ==
  /\ co = "park" => main = "co"
  /\ co \in {"park", "wait_in"} /\ xmit_queue # <<>> => WakeupComing

XmitInv == /\ sent \in [Threads -> Nat]
           /\ DOMAIN pc = Threads
           /\ xmit_queue_wakeup_id \in (Threads \X Nat) \cup {None}
           /\ LockInv
           /\ SourceInv
           /\ ParkedInv
           /\ BlockedIsDrained

-----------------------------------------------------------------------------

USE XmitAssumption DEF queueVars, sendVars, loopVars, recVars, writeVars,
                       flushVars, Loop, CoAt, MainFree, CoGoto, CoYield

LEMMA InitXmitInv == Init => XmitInv
BY DEF Init, XmitInv, LockInv, SourceInv, ParkedInv, BlockedIsDrained, Critical,
       Threads

LEMMA NextXmitInv == XmitInv /\ [Next]_vars => XmitInv'
<1> SUFFICES ASSUME XmitInv, [Next]_vars PROVE XmitInv'
    OBVIOUS
<1> USE DEF XmitInv, LockInv, SourceInv, ParkedInv, BlockedIsDrained, Critical,
            WakeupComing, MsgOf, Threads,
            PushTail, ClearIdLocked, RemoveWakeup
<1>1. ASSUME NEW t \in Threads, MsgOutNew(t) PROVE XmitInv'
     BY <1>1 DEF MsgOutNew, Unlock, MaySend
<1>2. ASSUME NEW t \in Threads, SendLock(t) PROVE XmitInv'
     BY <1>2 DEF SendLock, Unlock, MaySend
<1>3. ASSUME NEW t \in Threads, SendBlocked(t) PROVE XmitInv'
     BY <1>3 DEF SendBlocked, Unlock, MaySend
<1>4. ASSUME NEW t \in Threads, SendPush(t) PROVE XmitInv'
     BY <1>4 DEF SendPush, Unlock, MaySend
<1>5. ASSUME NEW t \in Threads, SendSize(t) PROVE XmitInv'
     BY <1>5 DEF SendSize, Unlock, MaySend
<1>6. ASSUME NEW t \in Threads, SendAttach(t) PROVE XmitInv'
  <2>1. sources = {} /\ sources' = {MsgOf(t)}
        BY <1>6 DEF SendAttach
  <2>2. pc[t] = "wake" /\ pc' = [pc EXCEPT ![t] = "store"] /\ lock = t
        BY <1>6 DEF SendAttach
  <2>3. \A u \in Threads : u # t => pc[u] \notin Critical /\ pc'[u] = pc[u]
        BY <2>2
  <2>4. MsgOf(t)' = MsgOf(t) /\ xmit_queue_wakeup_id' = None
        BY <1>6, <2>2 DEF SendAttach
  <2>5. SourceInv'
    <3>1. main # "wakeup" /\ main' # "wakeup"
          BY <1>6, <2>2, <2>3 DEF SendAttach
    <3>2. \A u \in Threads : pc'[u] # "wake" /\ (pc'[u] = "store" => u = t)
          BY <2>2, <2>3
    <3>3. pc'[t] = "store"
          BY <2>2
    <3> QED BY <2>1, <2>4, <3>1, <3>2, <3>3
  <2>6. LockInv' /\ ParkedInv' /\ BlockedIsDrained'
        BY <1>6, <2>2, <2>3 DEF SendAttach
  <2> QED BY <1>6, <2>2, <2>5, <2>6 DEF SendAttach
<1>7. ASSUME NEW t \in Threads, SendStore(t) PROVE XmitInv'
     BY <1>7 DEF SendStore, Unlock, MaySend
<1>8. CASE DispatchWakeup
     BY <1>8 DEF DispatchWakeup, Wakeup, After, SocketWaits, Flushed
<1>9. CASE ClearWakeupId
     BY <1>9 DEF ClearWakeupId, Wakeup, After, SocketWaits, Flushed
<1>10. CASE IdleWakeup
     BY <1>10 DEF IdleWakeup, Wakeup, After, SocketWaits, Flushed
<1>11. CASE SocketReady
     BY <1>11 DEF SocketReady, Wakeup, After, SocketWaits, Flushed
<1>12. CASE ConnectDelayed
     BY <1>12 DEF ConnectDelayed, Wakeup, After, SocketWaits, Flushed
<1>13. CASE ThawFrozen
     BY <1>13 DEF ThawFrozen, Wakeup, After, SocketWaits, Flushed
<1>14. CASE EmitDone
     BY <1>14 DEF EmitDone, Wakeup, After, SocketWaits, Flushed
<1>15. CASE DelayedUnref
     BY <1>15 DEF DelayedUnref, Wakeup, After, SocketWaits, Flushed
<1>16. CASE ChannelConnect
     BY <1>16 DEF ChannelConnect, Wakeup, After, SocketWaits, Flushed
<1>18. CASE Disconnect
     BY <1>18 DEF Disconnect, Wakeup, After, SocketWaits, Flushed
<1>19. CASE FlushAsync
     BY <1>19 DEF FlushAsync, Wakeup, After, SocketWaits, Flushed
<1>20. CASE Link
     BY <1>20 DEF Link, Wakeup, After, SocketWaits, Flushed
<1>21. CASE Iterate
     BY <1>21 DEF Iterate, Wakeup, After, SocketWaits, Flushed
<1>22. CASE Pop
     BY <1>22 DEF Pop, Wakeup, After, SocketWaits, Flushed
<1>23. CASE PopNull
     BY <1>23 DEF PopNull, Wakeup, After, SocketWaits, Flushed
<1>24. CASE SizeTest
     BY <1>24 DEF SizeTest, Wakeup, After, SocketWaits, Flushed
<1>25. CASE SizeSubtract
     BY <1>25 DEF SizeSubtract, Wakeup, After, SocketWaits, Flushed
<1>26. CASE WriteMsg
     BY <1>26 DEF WriteMsg, Wakeup, After, SocketWaits, Flushed
<1>27. CASE FlushWire
     BY <1>27 DEF FlushWire, Wakeup, After, SocketWaits, Flushed
<1>28. CASE Park
     BY <1>28 DEF Park, Wakeup, After, SocketWaits, Flushed
<1>29. CASE Read
     BY <1>29 DEF Read, Wakeup, After, SocketWaits, Flushed
<1>30. CASE Recv
     BY <1>30 DEF Recv, Wakeup, After, SocketWaits, Flushed
<1>31. CASE Handle
     BY <1>31 DEF Handle, Wakeup, After, SocketWaits, Flushed
<1>32. CASE ChannelReset
     BY <1>32 DEF ChannelReset, Wakeup, After, SocketWaits, Flushed
<1>33. CASE UNCHANGED vars
     BY <1>33 DEF vars
<1> QED BY <1>1, <1>2, <1>3, <1>4, <1>5, <1>6, <1>7, <1>8, <1>9, <1>10, <1>11,
       <1>12, <1>13, <1>14, <1>15, <1>16, <1>18, <1>19, <1>20, <1>21, <1>22,
       <1>23, <1>24, <1>25, <1>26, <1>27, <1>28, <1>29, <1>30, <1>31, <1>32,
       <1>33
       DEF Next, MsgOutSend, MainLoop, User, Coroutine

-----------------------------------------------------------------------------

\* The type invariant needs three facts: a thread inside spice_msg_out_send has
\* made a message, the coroutine has one while it writes, and it only reads the
\* messages the bound leaves.
TypeInv ==
  /\ TypeOK
  /\ \A t \in Threads : pc[t] # "idle" => sent[t] \in 1 .. MaxMsgs
  /\ co \in {"size", "subtract", "write"} => cur \in Msgs
  /\ co \in {"flush", "wait_out"} => cur \in Msgs \cup {Ack}
  /\ co \in {"recv", "wait_msg"} => received < MaxReceived

Places == SocketWaits \cup OtherParks \cup Running

LEMMA PlaceFacts ==
  /\ {"none", "delayed", "link", "wait_link", "opened", "exit", "iterate",
      "frozen"} \subseteq Places
  /\ {"pop", "park", "size", "subtract", "write", "flush", "wait_out"} \subseteq Places
  /\ {"wait_in", "read", "recv", "wait_msg", "handle", "emit", "exited"} \subseteq Places
BY DEF Places, SocketWaits, OtherParks, Running

\* Where a wakeup leads: never into a write that was not under way.
LEMMA AfterFacts == \A c \in SocketWaits :
  After[c] \in Places \ {"size", "subtract", "write", "wait_out"}
    /\ (After[c] = "flush" => c = "wait_out")
    /\ (After[c] = "recv" => c = "wait_msg") /\ After[c] # "wait_msg"
BY DEF Places, SocketWaits, OtherParks, Running, After

\* Wakeup, and an iteration that leaves the coroutine where it is, keep the
\* part of the type invariant that speaks of the coroutine.
LEMMA WakeupFacts ==
  ASSUME TypeInv, Wakeup \/ (UNCHANGED <<main, co>>)
  PROVE  /\ co' \in Places /\ main' \in {"loop", "wakeup", "woken", "co"}
         /\ co' \in {"size", "subtract", "write"} => cur \in Msgs
         /\ co' \in {"flush", "wait_out"} => cur \in Msgs \cup {Ack}
         /\ co' \in {"recv", "wait_msg"} => received < MaxReceived
<1>1. co \in Places
      BY DEF TypeInv, TypeOK, Places
<1>2. CASE co \in SocketWaits /\ Wakeup
  <2>1. main' = "co" /\ co' = After[co]
        BY <1>2 DEF Wakeup
  <2> QED BY <2>1, <1>2, AfterFacts DEF TypeInv
<1>3. CASE main' \in {"loop", main} /\ co' = co
      BY <1>1, <1>3 DEF TypeInv, TypeOK
<1> QED BY <1>2, <1>3 DEF Wakeup

LEMMA AppendMsg == ASSUME NEW s \in Seq(Msgs), NEW m \in Msgs
                   PROVE  Append(s, m) \in Seq(Msgs) /\ <<>> \in Seq(Msgs)
OBVIOUS

LEMMA InitTypeInv == Init => TypeInv
<1> SUFFICES ASSUME Init PROVE TypeInv
    OBVIOUS
<1> USE DEF Init
<1>1. co \in Places
      BY PlaceFacts
<1>2. \A t \in Threads : pc[t] = "idle"
      OBVIOUS
<1>3. /\ pc \in [Threads -> {"idle", "lock", "locked", "size", "wake", "store"}]
      /\ sent \in [Threads -> 0 .. MaxMsgs]
      BY DEF XmitAssumption
<1>4. /\ target \in [Tasks -> Nat \X Nat]
      /\ result \in [Tasks -> {"none", "pending", "TRUE", "FALSE", "error"}]
      OBVIOUS
<1>5. xmit_queue \in Seq(Msgs) /\ accepted \in Seq(Msgs) /\ wire \in Seq(Msgs)
      OBVIOUS
<1>6. /\ xmit_queue_size \in Nat /\ loaded \in Nat /\ received \in 0 .. MaxReceived
      /\ conns \in 0 .. MaxConns
      OBVIOUS
<1>7. TypeOK
      BY <1>1, <1>3, <1>4, <1>5, <1>6 DEF TypeOK, Places
<1> QED BY <1>2, <1>7 DEF TypeInv

LEMMA NextTypeInv == TypeInv /\ [Next]_vars => TypeInv'
<1> SUFFICES ASSUME TypeInv, [Next]_vars PROVE TypeInv'
    OBVIOUS
<1> USE DEF TypeInv, TypeOK
<1>s. wire \in Seq(Msgs) /\ accepted \in Seq(Msgs) /\ <<>> \in Seq(Msgs)
      OBVIOUS
<1>0. \A t \in Threads : pc[t] # "idle" => MsgOf(t) \in Msgs
      BY DEF MsgOf, Msgs
<1>p. co \in Places /\ (co' \in Places => co' \in SocketWaits \cup OtherParks \cup Running)
      BY DEF Places
<1>1. ASSUME NEW t \in Threads, MsgOutNew(t) PROVE TypeInv'
     BY <1>0, <1>1 DEF MsgOutNew, MaySend
<1>2. ASSUME NEW t \in Threads, SendLock(t) PROVE TypeInv'
     BY <1>0, <1>2 DEF SendLock
<1>3. ASSUME NEW t \in Threads, SendBlocked(t) PROVE TypeInv'
     BY <1>0, <1>3 DEF SendBlocked, Unlock
<1>4. ASSUME NEW t \in Threads, SendPush(t) PROVE TypeInv'
     BY <1>0, <1>4 DEF SendPush, PushTail, SizeBefore, Size
<1>5. ASSUME NEW t \in Threads, SendSize(t) PROVE TypeInv'
  <2>1. loaded + Size(MsgOf(t)) \in Nat
        BY <1>5 DEF SendSize, Size, MsgOf
  <2>2. xmit_queue_size' \in Nat
        BY <1>5, <2>1 DEF SendSize
  <2>3. /\ pc' \in [Threads -> {"idle", "lock", "locked", "size", "wake", "store"}]
        /\ \A u \in Threads : pc'[u] # "idle" => pc[u] # "idle"
        /\ lock' \in Threads \cup {None}
        BY <1>5 DEF SendSize, Unlock
  <2> QED BY <1>5, <2>2, <2>3 DEF SendSize
<1>6. ASSUME NEW t \in Threads, SendAttach(t) PROVE TypeInv'
     BY <1>0, <1>6 DEF SendAttach
<1>7. ASSUME NEW t \in Threads, SendStore(t) PROVE TypeInv'
     BY <1>0, <1>7 DEF SendStore, Unlock
<1>8. CASE DispatchWakeup
     BY <1>0, <1>p, PlaceFacts, <1>8 DEF DispatchWakeup
<1>9. CASE ClearWakeupId
     BY <1>0, <1>p, PlaceFacts, <1>9 DEF ClearWakeupId, ClearIdLocked
<1>10. CASE IdleWakeup
     BY <1>0, <1>p, PlaceFacts, AfterFacts, <1>10 DEF IdleWakeup, Wakeup
<1>11. CASE SocketReady
     BY <1>0, <1>p, PlaceFacts, AfterFacts, <1>11 DEF SocketReady, Wakeup
<1>12. CASE ConnectDelayed
  <2>1. /\ co' = "link" /\ co' \in Places
        /\ main' = "co" /\ has_error' \in BOOLEAN /\ cond' \in BOOLEAN
        BY <1>12, PlaceFacts DEF ConnectDelayed, recVars
  <2>2. UNCHANGED <<queueVars, xmit_queue_size, lock, accepted, sendVars,
                    sources,
                    cond, state, received, conns, writeVars, flushVars>>
        BY <1>12 DEF ConnectDelayed
  <2> QED BY <1>p, <2>1, <2>2
          DEF queueVars, sendVars, recVars, writeVars, flushVars
<1>13. CASE ThawFrozen
  <2>1. /\ co' \in {"exit", "pop"} /\ co' \in Places
        /\ main' = "co" /\ has_error' \in BOOLEAN /\ cond' \in BOOLEAN
        BY <1>13, PlaceFacts DEF ThawFrozen, recVars
  <2>2. UNCHANGED <<queueVars, xmit_queue_size, lock, accepted, sendVars,
                    sources,
                    recVars, writeVars, flushVars>>
        BY <1>13 DEF ThawFrozen
  <2> QED BY <1>p, <2>1, <2>2
          DEF queueVars, sendVars, recVars, writeVars, flushVars
<1>14. CASE EmitDone
     BY <1>0, <1>p, PlaceFacts, <1>14 DEF EmitDone
<1>15. CASE DelayedUnref
     BY <1>0, <1>p, PlaceFacts, <1>15 DEF DelayedUnref
<1>16. CASE ChannelConnect
  <2>1. conns' = conns + 1 /\ conns < MaxConns
        BY <1>16 DEF ChannelConnect
  <2>3. conns' \in 0 .. MaxConns
        BY <2>1
  <2>4. wire' \in {<<>>, wire} /\ accepted' \in {<<>>, accepted}
        BY <1>16 DEF ChannelConnect
  <2>5. wire' \in Seq(Msgs) /\ accepted' \in Seq(Msgs)
        BY <2>4, <1>s
  <2>2. co' \in Places /\ co' = "delayed"
        BY <1>16, PlaceFacts DEF ChannelConnect
  <2> QED BY <1>p, <1>16, <2>2, <2>3, <2>5 DEF ChannelConnect
<1>17. CASE Disconnect
  <2>1. /\ Wakeup \/ (UNCHANGED <<main, co>>)
        /\ has_error' \in BOOLEAN /\ cond' \in BOOLEAN
        /\ state' \in {"UNCONNECTED", "CONNECTING", "READY", "MIGRATING"}
        BY <1>17 DEF Disconnect
  <2>2. UNCHANGED <<queueVars, xmit_queue_size, lock, accepted, sendVars,
                    sources, received, conns, writeVars, flushVars>>
        BY <1>17 DEF Disconnect
  <2> QED BY <1>p, <2>1, <2>2, WakeupFacts
          DEF queueVars, sendVars, writeVars, flushVars
<1>18. CASE FlushAsync
  <2>1. PICK t \in Tasks :
          /\ target' = [target EXCEPT ![t] = <<conns, Len(accepted)>>]
          /\ \E r \in {"error", "TRUE", "pending"} :
               result' = [result EXCEPT ![t] = r]
          /\ flushing' \in {flushing, flushing \cup {t}}
        BY <1>18 DEF FlushAsync
  <2>2. /\ target' \in [Tasks -> Nat \X Nat]
        /\ result' \in [Tasks -> {"none", "pending", "TRUE", "FALSE", "error"}]
        /\ flushing' \subseteq Tasks
        BY <2>1
  <2> QED BY <1>18, <2>2 DEF FlushAsync
<1>19. CASE Link
  <2>1. co' \in Places /\ (co' \in {"size", "subtract", "write", "flush", "wait_out"} => FALSE)
        BY <1>19, PlaceFacts DEF Link
  <2>2. /\ main' \in {"loop", "wakeup", "woken", "co"} /\ has_error' \in BOOLEAN
        /\ cond' \in BOOLEAN /\ received' \in 0 .. MaxReceived
        /\ state' \in {"UNCONNECTED", "CONNECTING", "READY", "MIGRATING"}
        BY <1>19 DEF Link
  <2> QED BY <1>p, <1>19, <2>1, <2>2 DEF Link
<1>20. CASE Iterate
  <2>1. co' \in Places /\ (co' \in {"size", "subtract", "write", "flush", "wait_out"} => FALSE)
        BY <1>20, PlaceFacts DEF Iterate
  <2>2. /\ main' \in {"loop", "wakeup", "woken", "co"} /\ has_error' \in BOOLEAN
        /\ cond' \in BOOLEAN /\ received' \in 0 .. MaxReceived
        /\ state' \in {"UNCONNECTED", "CONNECTING", "READY", "MIGRATING"}
        BY <1>20 DEF Iterate
  <2> QED BY <1>p, <1>20, <2>1, <2>2 DEF Iterate
<1>21. CASE Pop
     BY <1>0, <1>p, PlaceFacts, <1>21 DEF Pop
<1>22. CASE PopNull
     BY <1>0, <1>p, PlaceFacts, <1>22 DEF PopNull, Flushed
<1>23. CASE SizeTest
     BY <1>0, <1>p, PlaceFacts, <1>23 DEF SizeTest, Size
<1>24. CASE SizeSubtract
  <2>1. cur \in Msgs /\ xmit_queue_size - Size(cur) \in Int
        BY <1>24 DEF SizeSubtract, Size, Msgs
  <2>2. xmit_queue_size' \in Nat
        BY <1>24, <2>1 DEF SizeSubtract
  <2>3. co' \in Places /\ co' = "write"
        BY <1>24, PlaceFacts DEF SizeSubtract
  <2> QED BY <1>p, <1>24, <2>1, <2>2, <2>3 DEF SizeSubtract
<1>25. CASE WriteMsg
     BY <1>0, <1>p, PlaceFacts, <1>25 DEF WriteMsg, Refused
<1>26. CASE FlushWire
  <2>1. cur \in Msgs \cup {Ack}
        BY <1>26 DEF FlushWire
  <2>5. /\ wire' = wire \/ (cur # Ack /\ wire' = Append(wire, cur))
        /\ has_error' \in BOOLEAN
        BY <1>26 DEF FlushWire
  <2>6. cur # Ack => cur \in Msgs
        BY <2>1
  <2>7. cur \in Msgs => Append(wire, cur) \in Seq(Msgs)
        BY <1>s, AppendMsg
  <2>8. wire \in Seq(Msgs)
        BY <1>s
  <2>2. wire' \in Seq(Msgs) /\ has_error' \in BOOLEAN
        BY <2>5, <2>6, <2>7, <2>8, Zenon
  <2>3. co' \in Places /\ co' \in {"wait_out", "read", "pop"}
        BY <1>26, PlaceFacts DEF FlushWire
  <2>4. /\ cur' \in Msgs \cup {Ack, None} /\ co' = "wait_out" => cur' = cur
        /\ main' \in {"loop", "wakeup", "woken", "co"}
        BY <1>26 DEF FlushWire
  <2> QED BY <1>p, <1>26, <2>1, <2>2, <2>3, <2>4 DEF FlushWire
<1>27. CASE Park
     BY <1>0, <1>p, PlaceFacts, <1>27 DEF Park
<1>28. CASE Read
     BY <1>0, <1>p, PlaceFacts, <1>28 DEF Read
<1>29. CASE Recv
  <2>1. /\ co' \in Places /\ co' \in {"wait_msg", "handle", "exit"}
        /\ co' = "wait_msg" => received' = received
        BY <1>29, PlaceFacts DEF Recv
  <2>2. received < MaxReceived /\ received' \in {received, received + 1}
        BY <1>29 DEF Recv
  <2>3. received' \in 0 .. MaxReceived
        BY <2>2
  <2>4. /\ main' \in {"loop", "wakeup", "woken", "co"} /\ has_error' \in BOOLEAN
        BY <1>29 DEF Recv
  <2> QED BY <1>p, <1>29, <2>1, <2>2, <2>3, <2>4 DEF Recv
<1>30. CASE Handle
     BY <1>0, <1>p, PlaceFacts, <1>30 DEF Handle
<1>31. CASE ChannelReset
     BY <1>0, <1>p, PlaceFacts, <1>31 DEF ChannelReset, Flushed, RemoveWakeup
<1>32. CASE UNCHANGED vars
     BY <1>32 DEF vars, Msgs, Threads
<1> QED BY <1>1, <1>2, <1>3, <1>4, <1>5, <1>6, <1>7, <1>8, <1>9, <1>10, <1>11,
       <1>12, <1>13, <1>14, <1>15, <1>16, <1>17, <1>18, <1>19, <1>20, <1>21,
       <1>22, <1>23, <1>24, <1>25, <1>26, <1>27, <1>28, <1>29, <1>30, <1>31,
       <1>32
       DEF Next, MsgOutSend, MainLoop, User, Coroutine

\* Whatever the interleaving, the queue, the ids and the states of the threads
\* keep their types.
THEOREM TypeCorrect == Spec => []TypeOK
<1>1. TypeInv => TypeOK
      BY DEF TypeInv
<1> QED BY <1>1, InitTypeInv, NextTypeInv, PTL DEF Spec

-----------------------------------------------------------------------------

LEMMA XmitInvImplies ==
  XmitInv => NoLostWakeup /\ WakeupIdExact /\ BlockedIsDrained
<1> SUFFICES ASSUME XmitInv
             PROVE  NoLostWakeup /\ WakeupIdExact /\ BlockedIsDrained
    OBVIOUS
<1>1. lock = None => \A t \in Threads : pc[t] \notin Critical
      BY DEF XmitInv, LockInv, Threads
<1>2. NoLostWakeup
      BY <1>1 DEF XmitInv, ParkedInv, WakeupComing, SourceInv, NoLostWakeup,
                  Critical
<1>3. WakeupIdExact
      BY <1>1 DEF XmitInv, SourceInv, WakeupIdExact, Critical
<1> QED BY <1>2, <1>3 DEF XmitInv

LEMMA XmitInvariance == Spec => []XmitInv
BY InitXmitInv, NextXmitInv, PTL DEF Spec

\* No interleaving of producers, main loop and coroutine parks the coroutine
\* on a non-empty queue without a wakeup source (spice_msg_out_send,
\* spice_channel_idle_wakeup, spice_channel_iterate_write).
THEOREM NoLostWakeupTheorem == Spec => []NoLostWakeup
BY XmitInvariance, XmitInvImplies, PTL

\* The stored id is the one attached source whenever it may be read by
\* channel_reset, so the reset leaves no callback behind.
THEOREM WakeupIdExactTheorem == Spec => []WakeupIdExact
BY XmitInvariance, XmitInvImplies, PTL

\* After channel_reset no thread can queue a message or attach a source until
\* channel_connect unblocks the queue.
THEOREM BlockedIsDrainedTheorem == Spec => []BlockedIsDrained
BY XmitInvariance, XmitInvImplies, PTL

\* The queue, its wakeup source and its id agree after any interleaving of producers,
\* main loop and coroutine, over any number of resets and connections.
THEOREM WakeupSafeTheorem == Spec => []WakeupSafe
BY NoLostWakeupTheorem, WakeupIdExactTheorem, BlockedIsDrainedTheorem, PTL
   DEF WakeupSafe
-----------------------------------------------------------------------------
(* What the coroutine holds, and when a connection is over *)

Writing == {"size", "subtract", "write", "flush", "wait_out"}

CoInv ==
  /\ co \in Running => main = "co"
  /\ co \notin Writing => cur = None
  /\ co \in {"flush", "wait_out"} => cur = Ack \/ cur \notin ReadOnlyMsgs
  /\ xmit_queue_blocked => co \in {"exited", "none"}
  /\ co = "exited" => xmit_queue_blocked
  /\ co = "none" => state = "UNCONNECTED" /\ (xmit_queue_blocked \/ ~has_error)

LEMMA RunningAfter ==
  ASSUME NEW c \in SocketWaits
  PROVE  /\ After[c] \in Running /\ After[c] \notin {"none", "exited", "delayed"}
         /\ After[c] \notin Writing => c \notin Writing
         /\ After[c] # "wait_out" /\ (After[c] = "flush" => c = "wait_out")
BY DEF SocketWaits, Running, After, Writing

LEMMA InitCoInv == Init => CoInv
BY DEF Init, CoInv, Running

LEMMA NextCoInv == CoInv /\ [Next]_vars => CoInv'
<1> SUFFICES ASSUME CoInv, [Next]_vars PROVE CoInv'
    OBVIOUS
<1> USE DEF CoInv
<1>1. ASSUME NEW t \in Threads, MsgOutSend(t) PROVE CoInv'
      BY <1>1 DEF MsgOutSend, MsgOutNew, SendLock, SendBlocked, SendPush, SendSize, SendAttach,
                  SendStore
<1>2. ASSUME Wakeup, main \in {"woken", "loop"}, UNCHANGED <<cur, xmit_queue_blocked, state>>,
             has_error' = has_error \/ co # "none"
      PROVE  CoInv'
  <2>1. CASE co \in SocketWaits
    <3>1. main' = "co" /\ co' = After[co]
          BY <1>2, <2>1 DEF Wakeup
    <3>2. co' \in Running /\ co' # "none" /\ co' # "exited"
          BY <2>1, <3>1, RunningAfter
    <3>4. /\ co' \notin Writing => cur = None
          /\ co' \in {"flush", "wait_out"} => co = "wait_out"
          BY <2>1, <3>1, RunningAfter
    <3>3. ~xmit_queue_blocked
          BY <2>1 DEF SocketWaits
    <3> QED BY <1>2, <3>1, <3>2, <3>3, <3>4
  <2>2. CASE co \notin SocketWaits
    <3>1. main' = "loop" /\ co' = co /\ main # "co"
          BY <1>2, <2>2 DEF Wakeup
    <3> QED BY <1>2, <3>1
  <2> QED BY <2>1, <2>2
<1>3. CASE DispatchWakeup
      BY <1>3 DEF DispatchWakeup
<1>4. CASE ClearWakeupId
      BY <1>4 DEF ClearWakeupId, ClearIdLocked
<1>5. CASE IdleWakeup
      BY <1>2, <1>5 DEF IdleWakeup
<1>6. CASE SocketReady
  <2>1. co \in SocketWaits /\ main' = "co" /\ co' = After[co]
        BY <1>6 DEF SocketReady
  <2>2. co' \in Running /\ co' # "none" /\ co' # "exited"
        BY <2>1, RunningAfter
  <2>3. ~xmit_queue_blocked
        BY <2>1 DEF SocketWaits
  <2>4. /\ co' \notin Writing => cur = None
        /\ co' \in {"flush", "wait_out"} => co = "wait_out"
        BY <2>1, RunningAfter
  <2> QED BY <1>6, <2>1, <2>2, <2>3, <2>4 DEF SocketReady
<1>7. CASE ConnectDelayed
      BY <1>7 DEF ConnectDelayed, Writing
<1>8. CASE ThawFrozen
      BY <1>8 DEF ThawFrozen, Writing
<1>9. CASE EmitDone
      BY <1>9 DEF EmitDone, Writing
<1>10. CASE DelayedUnref
  <2>1. co = "exited" /\ co' = "none" /\ state' = "UNCONNECTED"
        BY <1>10 DEF DelayedUnref
  <2>2. UNCHANGED <<xmit_queue_blocked, has_error, cur>>
        BY <1>10 DEF DelayedUnref
  <2> QED BY <2>1, <2>2 DEF Writing, Running
<1>11. CASE ChannelConnect
      BY <1>11 DEF ChannelConnect, Writing, Running
<1>12. CASE Disconnect
  <2>1. main = "loop" /\ co # "none" /\ UNCHANGED <<cur, xmit_queue_blocked>>
        BY <1>12 DEF Disconnect
  <2>2. CASE state = "MIGRATING"
        BY <1>12, <2>1, <2>2 DEF Disconnect
  <2>3. CASE state # "MIGRATING"
    <3>1. Wakeup /\ UNCHANGED state
          BY <1>12, <2>3 DEF Disconnect
    <3> QED BY <1>2, <2>1, <3>1
  <2> QED BY <2>2, <2>3
<1>13. CASE FlushAsync
      BY <1>13 DEF FlushAsync
<1>14. CASE Link
      BY <1>14 DEF Link, Writing, Running
<1>15. CASE Iterate
      BY <1>15 DEF Iterate, Writing, Running
<1>16. CASE Pop
      BY <1>16 DEF Pop, Writing, Running
<1>17. CASE PopNull
      BY <1>17 DEF PopNull, Writing, Running
<1>18. CASE SizeTest
      BY <1>18 DEF SizeTest, Writing, Running
<1>19. CASE SizeSubtract
      BY <1>19 DEF SizeSubtract, Writing, Running
<1>20. CASE WriteMsg
      BY <1>20 DEF WriteMsg, Refused, Writing, Running
<1>21. CASE FlushWire
      BY <1>21 DEF FlushWire, Writing, Running
<1>22. CASE Park
      BY <1>22 DEF Park, Writing, Running
<1>23. CASE Read
      BY <1>23 DEF Read, Writing, Running
<1>24. CASE Recv
      BY <1>24 DEF Recv, Writing, Running
<1>25. CASE Handle
      BY <1>25 DEF Handle, Writing, Running
<1>26. CASE ChannelReset
      BY <1>26 DEF ChannelReset, Writing, Running
<1>27. CASE UNCHANGED vars
      BY <1>27 DEF vars
<1> QED BY <1>1, <1>3, <1>4, <1>5, <1>6, <1>7, <1>8, <1>9, <1>10, <1>11, <1>12, <1>13,
           <1>14, <1>15, <1>16, <1>17, <1>18, <1>19, <1>20, <1>21, <1>22, <1>23, <1>24,
           <1>25, <1>26, <1>27
        DEF Next, MainLoop, User, Coroutine

-----------------------------------------------------------------------------
(* The delivery of what was accepted *)

Pending == IF cur \in {None, Ack} THEN 0 ELSE 1

\* The queue is the end of what the connection accepted, after the message that is
\* being written.
QueueInv ==
  /\ Len(xmit_queue) + Pending <= Len(accepted)
  /\ \A i \in 1 .. Len(xmit_queue) :
       xmit_queue[i] = accepted[Len(accepted) - Len(xmit_queue) + i]
  /\ Pending = 1 => cur = accepted[Len(accepted) - Len(xmit_queue)]

\* A step that keeps it, and that the abstract specification allows.
Delivers == QueueInv' /\ [Delivery!Next]_<<accepted, wire, Taken, Ended>>

LEMMA MsgFacts == ASSUME NEW m \in Msgs PROVE m # None /\ m # Ack /\ m \notin {None, Ack}
BY DEF Msgs, Threads

LEMMA Lengths == ASSUME TypeInv
                 PROVE  /\ xmit_queue \in Seq(Msgs) /\ accepted \in Seq(Msgs) /\ wire \in Seq(Msgs)
                        /\ Len(xmit_queue) \in Nat /\ Len(accepted) \in Nat
                        /\ Pending \in {0, 1} /\ (Pending = 0 <=> cur \in {None, Ack})
<1>1. xmit_queue \in Seq(Msgs) /\ accepted \in Seq(Msgs) /\ wire \in Seq(Msgs)
      BY DEF TypeInv, TypeOK
<1>2. Pending \in {0, 1} /\ (Pending = 0 <=> cur \in {None, Ack})
      BY DEF Pending
<1> QED BY <1>1, <1>2, LenProperties

LEMMA TakenFacts == ASSUME TypeInv, QueueInv
                    PROVE  /\ Taken = (Len(accepted) - Len(xmit_queue)) - Pending
                           /\ Taken \in 0 .. Len(accepted)
<1>1. Taken = (Len(accepted) - Len(xmit_queue)) - Pending
      BY DEF Taken, Pending
<1> QED BY <1>1, Lengths DEF QueueInv

\* A step that touches neither the queue nor what it holds of it
LEMMA SameDelivers ==
  ASSUME TypeInv, QueueInv, UNCHANGED <<xmit_queue, accepted, wire>>,
         cur' = cur \/ (cur \in {None, Ack} /\ cur' \in {None, Ack}), Ended => Ended'
  PROVE  Delivers
<1>1. Pending' = Pending /\ (Pending = 1 => cur' = cur)
      BY DEF Pending
<1>2. QueueInv'
      BY <1>1 DEF QueueInv
<1>3. Taken' = Taken
      BY <1>1 DEF Taken, Pending
<1>4. CASE Ended'
  <2>1. Taken \in Taken .. Len(accepted)
        BY TakenFacts, Lengths
  <2>2. Delivery!End
        BY <1>3, <1>4, <2>1 DEF Delivery!End
  <2> QED BY <1>2, <2>2 DEF Delivers, Delivery!Next
<1>5. CASE ~Ended'
  <2>1. Ended' = Ended
        BY <1>5 DEF Ended
  <2> QED BY <1>2, <1>3, <2>1 DEF Delivers
<1> QED BY <1>4, <1>5

LEMMA PushDelivers ==
  ASSUME TypeInv, QueueInv, NEW t \in Threads, SendPush(t)
  PROVE  Delivers
<1>1. PICK m \in Msgs : m = MsgOf(t)
      BY DEF SendPush, TypeInv, MsgOf, Msgs
<1>2. /\ xmit_queue' = Append(xmit_queue, m) /\ accepted' = Append(accepted, m)
      /\ UNCHANGED <<cur, wire, xmit_queue_blocked, has_error, co>>
      BY <1>1 DEF SendPush, PushTail
<1>3. PICK n \in Nat : n = Len(xmit_queue)
      BY Lengths
<1>4. PICK a \in Nat : a = Len(accepted)
      BY Lengths
<1>5. /\ Len(xmit_queue') = n + 1 /\ xmit_queue'[n + 1] = m
      /\ \A i \in 1 .. n : xmit_queue'[i] = xmit_queue[i]
      BY <1>2, <1>3, Lengths, AppendProperties
<1>6. /\ Len(accepted') = a + 1 /\ accepted'[a + 1] = m
      /\ \A i \in 1 .. a : accepted'[i] = accepted[i]
      BY <1>2, <1>4, Lengths, AppendProperties
<1>7. PICK p \in {0, 1} : p = Pending /\ Pending' = p
      BY <1>2, Lengths DEF Pending
<1>8. /\ n + p <= a
      /\ \A i \in 1 .. n : xmit_queue[i] = accepted[(a - n) + i]
      /\ p = 1 => cur = accepted[a - n]
      BY <1>3, <1>4, <1>7 DEF QueueInv
<1>9. QueueInv'
  <2>1. (n + 1) + p <= a + 1 /\ (a + 1) - (n + 1) = a - n
        BY <1>8
  <2>2. \A i \in 1 .. n + 1 : xmit_queue'[i] = accepted'[(a - n) + i]
    <3> TAKE i \in 1 .. n + 1
    <3>1. CASE i = n + 1
      <4>1. (a - n) + i = a + 1
            BY <3>1
      <4> QED BY <1>5, <1>6, <3>1, <4>1
    <3>2. CASE i # n + 1
      <4>1. i \in 1 .. n /\ (a - n) + i \in 1 .. a
            BY <1>8, <3>2
      <4> QED BY <1>5, <1>6, <1>8, <4>1
    <3> QED BY <3>1, <3>2
  <2>3. p = 1 => cur' = accepted'[a - n]
    <3>1. p = 1 => a - n \in 1 .. a
          BY <1>8
    <3> QED BY <1>2, <1>6, <1>8, <3>1
  <2> QED BY <1>5, <1>6, <1>7, <2>1, <2>2, <2>3 DEF QueueInv
<1>10. Taken' = Taken
       BY <1>2, <1>3, <1>4, <1>5, <1>6 DEF Taken
<1>11. Ended' = Ended
       BY <1>2 DEF Ended
<1>12. Delivery!Accept
       BY <1>2, <1>10, <1>11 DEF Delivery!Accept
<1> QED BY <1>9, <1>12 DEF Delivers, Delivery!Next

LEMMA PopDelivers ==
  ASSUME TypeInv, CoInv, QueueInv, Pop
  PROVE  Delivers
<1>1. /\ co = "pop" /\ cur = None /\ xmit_queue # <<>> /\ co' = "size"
      /\ cur' = Head(xmit_queue) /\ xmit_queue' = Tail(xmit_queue)
      /\ UNCHANGED <<accepted, wire, xmit_queue_blocked, has_error>>
      BY DEF Pop, CoInv, Writing
<1>2. PICK n \in Nat : n = Len(xmit_queue) /\ n # 0
      BY <1>1, Lengths, EmptySeq
<1>3. PICK a \in Nat : a = Len(accepted)
      BY Lengths
<1>4. /\ Len(xmit_queue') = n - 1 /\ xmit_queue[1] = cur' /\ cur' \in Msgs
      /\ \A i \in 1 .. n - 1 : xmit_queue'[i] = xmit_queue[i + 1]
      BY <1>1, <1>2, Lengths, HeadTailProperties
<1>5. Pending = 0 /\ Pending' = 1
  <2>1. cur' \notin {None, Ack}
        BY <1>4, MsgFacts
  <2> QED BY <1>1, <2>1 DEF Pending
<1>6. n <= a /\ \A i \in 1 .. n : xmit_queue[i] = accepted[(a - n) + i]
      BY <1>2, <1>3, <1>5 DEF QueueInv
<1>7. QueueInv'
  <2>1. (n - 1) + 1 <= a /\ a - (n - 1) = (a - n) + 1
        BY <1>6
  <2>2. \A i \in 1 .. n - 1 : xmit_queue'[i] = accepted[(a - (n - 1)) + i]
    <3> TAKE i \in 1 .. n - 1
    <3>1. i + 1 \in 1 .. n /\ (a - n) + (i + 1) = (a - (n - 1)) + i
          OBVIOUS
    <3> QED BY <1>4, <1>6, <3>1
  <2>3. cur' = accepted[a - (n - 1)]
    <3>1. 1 \in 1 .. n
          BY <1>2
    <3> QED BY <1>4, <1>6, <2>1, <3>1
  <2> QED BY <1>1, <1>3, <1>4, <1>5, <2>1, <2>2, <2>3 DEF QueueInv
<1>8. Taken' = Taken
  <2>1. Taken = (a - n) - 0
        BY <1>2, <1>3, <1>5 DEF Taken, Pending
  <2>2. Taken' = (a - (n - 1)) - 1
        BY <1>1, <1>3, <1>4, <1>5 DEF Taken, Pending
  <2> QED BY <2>1, <2>2
<1>9. Ended' = Ended
      BY <1>1 DEF Ended
<1> QED BY <1>1, <1>7, <1>8, <1>9 DEF Delivers

\* The message that is being written is delivered, refused or lost.
LEMMA WrittenDelivers ==
  ASSUME TypeInv, QueueInv, cur \in Msgs, cur' = None, UNCHANGED <<xmit_queue, accepted>>,
         \/ Ended' /\ UNCHANGED wire
         \/ /\ ~Ended /\ ~Ended'
            /\ wire' = IF cur \in ReadOnlyMsgs THEN wire ELSE Append(wire, cur)
  PROVE  Delivers
<1>1. Pending = 1 /\ Pending' = 0
      BY MsgFacts DEF Pending
<1>2. PICK n \in Nat : n = Len(xmit_queue)
      BY Lengths
<1>3. PICK a \in Nat : a = Len(accepted)
      BY Lengths
<1>4. n + 1 <= a /\ cur = accepted[a - n]
      BY <1>1, <1>2, <1>3 DEF QueueInv
<1>5. QueueInv'
      BY <1>1, <1>2, <1>3, <1>4 DEF QueueInv
<1>6. Taken = (a - n) - 1 /\ Taken' = a - n
      BY <1>1, <1>2, <1>3 DEF Taken, Pending
<1>7. CASE Ended' /\ UNCHANGED wire
  <2>1. Taken' \in Taken .. Len(accepted)
        BY <1>2, <1>3, <1>4, <1>6
  <2>2. Delivery!End
        BY <1>7, <2>1 DEF Delivery!End
  <2> QED BY <1>5, <2>2 DEF Delivers, Delivery!Next
<1>8. CASE /\ ~Ended /\ ~Ended'
           /\ wire' = IF cur \in ReadOnlyMsgs THEN wire ELSE Append(wire, cur)
  <2>1. Taken < Len(accepted) /\ Taken' = Taken + 1 /\ Taken + 1 = a - n
        BY <1>3, <1>4, <1>6
  <2>2. accepted[Taken + 1] = cur
        BY <1>4, <2>1
  <2>3. Ended' = Ended
        BY <1>8 DEF Ended
  <2>4. Delivery!Take
        BY <1>8, <2>1, <2>2, <2>3 DEF Delivery!Take
  <2> QED BY <1>5, <2>4 DEF Delivers, Delivery!Next
<1> QED BY <1>7, <1>8

LEMMA ResetDelivers ==
  ASSUME TypeInv, CoInv, QueueInv, ChannelReset
  PROVE  Delivers
<1>1. /\ xmit_queue' = <<>> /\ xmit_queue_blocked' = TRUE /\ cur = None
      /\ UNCHANGED <<cur, accepted, wire>>
      BY DEF ChannelReset, CoInv, Writing
<1>2. PICK a \in Nat : a = Len(accepted)
      BY Lengths
<1>3. Len(xmit_queue') = 0 /\ Pending' = 0
      BY <1>1 DEF Pending
<1>4. QueueInv'
      BY <1>1, <1>2, <1>3 DEF QueueInv
<1>5. Taken' = a /\ Ended'
      BY <1>1, <1>2, <1>3 DEF Taken, Pending, Ended
<1>6. Taken' \in Taken .. Len(accepted)
      BY <1>2, <1>5, TakenFacts
<1>7. Delivery!End
      BY <1>1, <1>5, <1>6 DEF Delivery!End
<1> QED BY <1>4, <1>7 DEF Delivers, Delivery!Next

LEMMA ConnectDelivers ==
  ASSUME TypeInv, XmitInv, CoInv, QueueInv, ChannelConnect
  PROVE  Delivers
<1>1. /\ co = "none" /\ co' = "delayed" /\ xmit_queue_blocked' = FALSE /\ cur = None
      /\ UNCHANGED <<xmit_queue, cur>>
      BY DEF ChannelConnect, CoInv, Writing
<1>2. CASE xmit_queue_blocked
  <2>1. xmit_queue = <<>> /\ accepted' = <<>> /\ wire' = <<>>
        BY <1>2 DEF XmitInv, BlockedIsDrained, ChannelConnect
  <2>2. Len(xmit_queue') = 0 /\ Len(accepted') = 0 /\ Pending' = 0
        BY <1>1, <2>1 DEF Pending
  <2>3. QueueInv'
        BY <2>2 DEF QueueInv
  <2>7. Taken' = (Len(accepted') - Len(xmit_queue')) - Pending'
        BY DEF Taken, Pending
  <2>4. Taken' = 0
        BY <2>2, <2>7
  <2>6. Ended /\ ~Ended'
        BY <1>1, <1>2 DEF Ended
  <2>5. Delivery!NewConnection
        BY <2>1, <2>4, <2>6 DEF Delivery!NewConnection, Ended
  <2> QED BY <2>3, <2>5 DEF Delivers, Delivery!Next
<1>3. CASE ~xmit_queue_blocked
  <2>1. UNCHANGED <<accepted, wire>> /\ ~Ended
        BY <1>1, <1>3 DEF ChannelConnect, CoInv, Ended
  <2> QED BY <1>1, <2>1, SameDelivers
<1> QED BY <1>2, <1>3

LEMMA NextDelivers == TypeInv /\ XmitInv /\ CoInv /\ QueueInv /\ [Next]_vars => Delivers
<1> SUFFICES ASSUME TypeInv, XmitInv, CoInv, QueueInv, [Next]_vars PROVE Delivers
    OBVIOUS
<1>1. ASSUME UNCHANGED <<xmit_queue, accepted, wire, cur, xmit_queue_blocked>>,
             co' # "delayed", has_error => has_error'
      PROVE  Delivers
  <2>1. Ended => Ended'
        BY <1>1 DEF Ended
  <2> QED BY <1>1, <2>1, SameDelivers
<1>2. ASSUME NEW t \in Threads, MsgOutSend(t) PROVE Delivers
  <2>1. CASE SendPush(t)
        BY <2>1, PushDelivers
  <2>2. CASE MsgOutNew(t) \/ SendLock(t) \/ SendBlocked(t) \/ SendSize(t) \/ SendAttach(t)
             \/ SendStore(t)
    <3>1. UNCHANGED <<xmit_queue, accepted, wire, cur, xmit_queue_blocked, co, has_error>>
          BY <2>2 DEF MsgOutNew, SendLock, SendBlocked, SendSize, SendAttach, SendStore
    <3>2. Ended => Ended'
          BY <3>1 DEF Ended
    <3> QED BY <3>1, <3>2, SameDelivers
  <2> QED BY <1>2, <2>1, <2>2 DEF MsgOutSend
<1>3. ASSUME Wakeup \/ UNCHANGED co, UNCHANGED <<xmit_queue, accepted, wire, cur, xmit_queue_blocked>>,
             has_error => has_error'
      PROVE  Delivers
  <2>1. co' = co \/ co' # "delayed"
        BY <1>3, RunningAfter DEF Wakeup
  <2>2. Ended => Ended'
        BY <1>3, <2>1 DEF Ended
  <2> QED BY <1>3, <2>2, SameDelivers
<1>4. ASSUME DispatchWakeup \/ ClearWakeupId \/ IdleWakeup \/ FlushAsync \/ Disconnect PROVE Delivers
  <2>1. UNCHANGED <<xmit_queue, accepted, wire, cur, xmit_queue_blocked>> /\ (has_error => has_error')
        BY <1>4 DEF DispatchWakeup, ClearWakeupId, ClearIdLocked, IdleWakeup, FlushAsync, Disconnect
  <2>2. Wakeup \/ UNCHANGED co
        BY <1>4 DEF DispatchWakeup, ClearWakeupId, IdleWakeup, FlushAsync, Disconnect
  <2> QED BY <1>3, <2>1, <2>2
<1>5. ASSUME SocketReady PROVE Delivers
  <2>1. co \in SocketWaits /\ co' = After[co]
           /\ UNCHANGED <<xmit_queue, accepted, wire, cur, xmit_queue_blocked, has_error>>
        BY <1>5 DEF SocketReady
  <2>2. co' # "delayed"
        BY <2>1, RunningAfter
  <2> QED BY <1>1, <2>1, <2>2
<1>6. ASSUME ConnectDelayed PROVE Delivers
  <2>1. /\ co = "delayed" /\ ~xmit_queue_blocked
        /\ UNCHANGED <<xmit_queue, accepted, wire, cur>>
        BY <1>6 DEF ConnectDelayed, CoInv
  <2>2. ~Ended
        BY <2>1 DEF Ended
  <2> QED BY <2>1, <2>2, SameDelivers
<1>7. ASSUME ThawFrozen \/ EmitDone \/ DelayedUnref \/ Link \/ Iterate \/ PopNull \/ SizeTest
             \/ SizeSubtract \/ Park \/ Read \/ Recv
      PROVE  Delivers
  <2>1. UNCHANGED <<xmit_queue, accepted, wire, cur, xmit_queue_blocked>>
        BY <1>7 DEF ThawFrozen, EmitDone, DelayedUnref, Link, Iterate, PopNull, SizeTest,
                    SizeSubtract, Park, Read, Recv
  <2>2. has_error => has_error'
        BY <1>7 DEF ThawFrozen, EmitDone, DelayedUnref, Link, Iterate, PopNull, SizeTest,
                    SizeSubtract, Park, Read, Recv
  <2>3. co' # "delayed"
        BY <1>7 DEF ThawFrozen, EmitDone, DelayedUnref, Link, Iterate, PopNull, SizeTest,
                    SizeSubtract, Park, Read, Recv
  <2> QED BY <1>1, <2>1, <2>2, <2>3
<1>8. ASSUME WriteMsg PROVE Delivers
  <2>1. /\ co = "write" /\ cur \in Msgs /\ co' # "delayed"
        /\ UNCHANGED <<xmit_queue, accepted, wire, xmit_queue_blocked, has_error>>
        /\ IF cur \in ReadOnlyMsgs THEN cur' = None ELSE UNCHANGED cur
        BY <1>8 DEF WriteMsg, Refused, TypeInv
  <2>2. Ended' <=> Ended
        BY <2>1 DEF Ended
  <2> QED BY <1>1, <2>1, <2>2, WrittenDelivers
<1>9. ASSUME FlushWire PROVE Delivers
  <2>1. /\ co = "flush" /\ ~xmit_queue_blocked /\ cur \in Msgs \cup {Ack} /\ co' # "delayed"
        /\ UNCHANGED <<xmit_queue, accepted, xmit_queue_blocked>>
        BY <1>9 DEF FlushWire, CoInv, TypeInv
  <2>2. \/ ~has_error /\ UNCHANGED <<has_error, cur, wire>>
        \/ /\ cur' = None /\ ~has_error /\ UNCHANGED has_error
           /\ wire' = IF cur = Ack THEN wire ELSE Append(wire, cur)
        \/ cur' = None /\ has_error' = TRUE /\ UNCHANGED wire
        BY <1>9 DEF FlushWire
  <2>3. CASE UNCHANGED <<cur, wire>> /\ UNCHANGED has_error
        BY <1>1, <2>1, <2>3
  <2>4. CASE cur = Ack /\ cur' = None /\ UNCHANGED wire /\ (has_error => has_error')
    <3>1. Ended => Ended'
          BY <2>1, <2>4 DEF Ended
    <3> QED BY <2>1, <2>4, <3>1, SameDelivers
  <2>5. CASE cur \in Msgs /\ cur' = None /\ has_error' = TRUE /\ UNCHANGED wire
    <3>1. Ended'
          BY <2>1, <2>5 DEF Ended
    <3> QED BY <2>1, <2>5, <3>1, WrittenDelivers
  <2>6. CASE cur \in Msgs /\ cur' = None /\ ~has_error /\ UNCHANGED has_error
             /\ wire' = Append(wire, cur)
    <3>1. ~Ended /\ ~Ended'
          BY <2>1, <2>6 DEF Ended
    <3>2. cur \notin ReadOnlyMsgs
          BY <2>1, <2>6, MsgFacts DEF CoInv
    <3> QED BY <2>1, <2>6, <3>1, <3>2, WrittenDelivers
  <2> QED BY <2>1, <2>2, <2>3, <2>4, <2>5, <2>6, MsgFacts
<1>10. ASSUME Handle PROVE Delivers
  <2>1. /\ co = "handle" /\ cur = None /\ cur' \in {None, Ack} /\ co' # "delayed"
        /\ UNCHANGED <<xmit_queue, accepted, wire, xmit_queue_blocked, has_error>>
        BY <1>10 DEF Handle, CoInv, Writing
  <2>2. Ended => Ended'
        BY <2>1 DEF Ended
  <2> QED BY <2>1, <2>2, SameDelivers
<1>11. ASSUME UNCHANGED vars PROVE Delivers
  <2>1. UNCHANGED <<xmit_queue, accepted, wire, cur, xmit_queue_blocked, co, has_error>>
        BY <1>11 DEF vars
  <2> QED BY <1>3, <2>1
<1> QED BY <1>2, <1>4, <1>5, <1>6, <1>7, <1>8, <1>9, <1>10, <1>11, PopDelivers, ResetDelivers,
           ConnectDelivers
        DEF Next, MainLoop, User, Coroutine

\* The abstract specification is implemented: each step of the senders, of the main loop
\* and of the coroutine accepts, takes or loses messages as it says, or none.
LEMMA InitQueueInv == Init => QueueInv /\ Delivery!Init
<1> SUFFICES ASSUME Init PROVE QueueInv /\ Delivery!Init
    OBVIOUS
<1>1. /\ xmit_queue = <<>> /\ accepted = <<>> /\ wire = <<>> /\ cur = None
      /\ xmit_queue_blocked = FALSE /\ has_error = FALSE
      BY DEF Init
<1>2. Len(xmit_queue) = 0 /\ Len(accepted) = 0
      BY <1>1
<1>3. Pending = 0
      BY <1>1 DEF Pending
<1>4. Taken = 0
  <2>1. Taken = (Len(accepted) - Len(xmit_queue)) - Pending
        BY DEF Taken, Pending
  <2> QED BY <1>2, <1>3, <2>1
<1>5. Ended = FALSE
      BY <1>1 DEF Ended
<1>6. QueueInv
      BY <1>2, <1>3 DEF QueueInv
<1> QED BY <1>1, <1>4, <1>5, <1>6 DEF Delivery!Init

LEMMA DeliveryInvariance == Spec => [](TypeInv /\ XmitInv /\ CoInv /\ QueueInv)
<1>1. TypeInv /\ XmitInv /\ CoInv /\ QueueInv /\ [Next]_vars => QueueInv'
      BY NextDelivers DEF Delivers
<1> QED BY <1>1, InitTypeInv, NextTypeInv, InitXmitInv, NextXmitInv, InitCoInv, NextCoInv,
           InitQueueInv, PTL DEF Spec

\* Whatever the senders, the errors, the disconnections and the migrations, what reaches
\* the wire of a connection is what it accepted, in order and once, without what a read-only
\* session refuses, up to the point where the connection ends (spice_msg_out_send,
\* spice_channel_iterate_write, channel_reset).
THEOREM DeliveryTheorem == Spec => DeliverySpec
<1>1. TypeInv /\ XmitInv /\ CoInv /\ QueueInv /\ [Next]_vars
        => [Delivery!Next]_<<accepted, wire, Taken, Ended>>
      BY NextDelivers DEF Delivers
<1> QED BY <1>1, InitQueueInv, DeliveryInvariance, PTL DEF Spec, DeliverySpec, Delivery!Spec

-----------------------------------------------------------------------------
(* The size of the queue *)

LEMMA SizeFacts == ASSUME NEW m \in Msgs PROVE Size(m) = 1 \/ Size(m) = 2
<1>1. m[2] \in Nat
      BY DEF Msgs
<1>2. PICK n \in Nat : n = m[2]
      BY <1>1
<1>3. n % 2 = 0 \/ n % 2 = 1
      OBVIOUS
<1> QED BY <1>2, <1>3 DEF Size

LEMMA UnitsFinite ==
  ASSUME NEW q \in Seq(Msgs)
  PROVE  /\ IsFiniteSet(SizeUnits(q)) /\ Cardinality(SizeUnits(q)) \in Nat
         /\ Cardinality(SizeUnits(q)) <= 2 * Len(q)
<1>1. PICK n \in Nat : n = Len(q)
      BY LenProperties
<1>2. IsFiniteSet(1 .. n) /\ Cardinality(1 .. n) = n
  <2>1. IsFiniteSet(1 .. n) /\ Cardinality(1 .. n) = IF 1 > n THEN 0 ELSE n - 1 + 1
        BY FS_Interval
  <2> QED BY <2>1
<1>3. IsFiniteSet({1, 2}) /\ Cardinality({1, 2}) = 2
  <2>1. {1, 2} = {1} \cup {2} /\ 2 \notin {1}
        OBVIOUS
  <2>2. PICK O : O = {1}
        OBVIOUS
  <2>3. IsFiniteSet(O) /\ Cardinality(O) = 1
        BY <2>2, FS_Singleton
  <2>4. PICK x : x = 2
        OBVIOUS
  <2>5. IsFiniteSet(O \cup {x}) /\ Cardinality(O \cup {x}) = Cardinality(O) + 1
        BY <2>1, <2>2, <2>3, <2>4, FS_AddElement
  <2>6. PICK K : K = {1, 2}
        OBVIOUS
  <2>7. K = O \cup {x}
        BY <2>2, <2>4, <2>6
  <2>8. IsFiniteSet(K) /\ Cardinality(K) = 2
        BY <2>3, <2>5, <2>7
  <2> QED BY <2>6, <2>8
<1>4. IsFiniteSet((1 .. n) \X {1, 2}) /\ Cardinality((1 .. n) \X {1, 2}) = n * 2
  <2>1. PICK I : I = 1 .. n
        OBVIOUS
  <2>2. PICK K : K = {1, 2}
        OBVIOUS
  <2>3. IsFiniteSet(I) /\ Cardinality(I) = n /\ IsFiniteSet(K) /\ Cardinality(K) = 2
        BY <1>2, <1>3, <2>1, <2>2
  <2>4. IsFiniteSet(I \X K) /\ Cardinality(I \X K) = Cardinality(I) * Cardinality(K)
        BY <2>3, FS_Product
  <2> QED BY <2>1, <2>2, <2>3, <2>4
<1>5. SizeUnits(q) \in SUBSET ((1 .. n) \X {1, 2})
      BY <1>1 DEF SizeUnits
<1>6. /\ IsFiniteSet(SizeUnits(q))
      /\ Cardinality(SizeUnits(q)) <= n * 2
      BY <1>4, <1>5, FS_Subset
<1>7. Cardinality(SizeUnits(q)) \in Nat
      BY <1>6, FS_CardinalityType
<1> QED BY <1>1, <1>6, <1>7

\* One more message, with units u and maybe v
LEMMA AddUnits ==
  ASSUME NEW S, IsFiniteSet(S), NEW u, NEW v, u \notin S, v \notin S, u # v, NEW s \in {1, 2},
         NEW T, T = S \cup {u} \cup (IF s = 2 THEN {v} ELSE {})
  PROVE  Cardinality(T) = Cardinality(S) + s
<1>1. IsFiniteSet(S \cup {u}) /\ Cardinality(S \cup {u}) = Cardinality(S) + 1
      BY FS_AddElement
<1>2. CASE s = 1
      BY <1>1, <1>2
<1>3. CASE s = 2
  <2>1. v \notin S \cup {u}
        OBVIOUS
  <2>2. Cardinality((S \cup {u}) \cup {v}) = Cardinality(S \cup {u}) + 1
        BY <1>1, <2>1, FS_AddElement
  <2>3. T = (S \cup {u}) \cup {v}
        BY <1>3
  <2>4. Cardinality(S) \in Nat
        BY FS_CardinalityType
  <2> QED BY <1>1, <1>3, <2>2, <2>3, <2>4
<1> QED BY <1>2, <1>3

LEMMA AppendUnits ==
  ASSUME NEW q \in Seq(Msgs), NEW m \in Msgs
  PROVE  Cardinality(SizeUnits(Append(q, m))) = Cardinality(SizeUnits(q)) + Size(m)
<1>1. PICK n \in Nat : n = Len(q)
      BY LenProperties
<1>2. PICK s \in {1, 2} : s = Size(m)
      BY SizeFacts
<1>3. PICK r : r = Append(q, m)
      OBVIOUS
<1>4. Len(r) = n + 1 /\ r[n + 1] = m /\ \A i \in 1 .. n : r[i] = q[i]
      BY <1>1, <1>3, AppendProperties
<1> DEFINE S == SizeUnits(q)
           T == SizeUnits(r)
<1>5. \A u \in (1 .. n + 1) \X {1, 2} : \/ u[1] \in 1 .. n
                                        \/ u = <<n + 1, 1>> \/ u = <<n + 1, 2>>
      OBVIOUS
<1>6. \A u : u \in S <=> u \in (1 .. n) \X {1, 2} /\ u[2] <= Size(q[u[1]])
      BY <1>1 DEF SizeUnits
<1>7. \A u : u \in T <=> u \in (1 .. n + 1) \X {1, 2} /\ u[2] <= Size(r[u[1]])
      BY <1>4 DEF SizeUnits
<1>8. \A u \in (1 .. n) \X {1, 2} : u \in (1 .. n + 1) \X {1, 2} /\ r[u[1]] = q[u[1]]
      BY <1>4
<1>9. <<n + 1, 1>> \in T /\ (<<n + 1, 2>> \in T <=> s = 2)
  <2>1. n + 1 \in 1 .. n + 1
        OBVIOUS
  <2>2. <<n + 1, 1>> \in (1 .. n + 1) \X {1, 2} /\ <<n + 1, 2>> \in (1 .. n + 1) \X {1, 2}
        BY <2>1
  <2>3. 1 <= s /\ (2 <= s <=> s = 2)
        OBVIOUS
  <2> QED BY <1>2, <1>4, <1>7, <2>2, <2>3
<1>10. <<n + 1, 1>> \notin S /\ <<n + 1, 2>> \notin S /\ <<n + 1, 1>> # <<n + 1, 2>>
  <2>1. n + 1 \notin 1 .. n
        OBVIOUS
  <2> QED BY <1>6, <2>1
<1>11. T = S \cup {<<n + 1, 1>>} \cup (IF s = 2 THEN {<<n + 1, 2>>} ELSE {})
  <2>1. \A u \in S : u \in T
        BY <1>6, <1>7, <1>8
  <2>2. \A u \in T : u \in S \/ u = <<n + 1, 1>> \/ u = <<n + 1, 2>>
    <3> TAKE u \in T
    <3>1. CASE u[1] \in 1 .. n
      <4>1. u \in (1 .. n) \X {1, 2}
            BY <1>7, <3>1
      <4> QED BY <1>6, <1>7, <1>8, <4>1
    <3> QED BY <1>5, <1>7, <3>1
  <2> HIDE DEF S, T
  <2> QED BY <1>9, <2>1, <2>2
<1>12. IsFiniteSet(S)
       BY UnitsFinite
<1> HIDE DEF S, T
<1>13. Cardinality(T) = Cardinality(S) + s
       BY <1>10, <1>11, <1>12, AddUnits
<1> QED BY <1>2, <1>3, <1>13 DEF S, T

LEMMA TailUnits ==
  ASSUME NEW q \in Seq(Msgs), q # <<>>
  PROVE  Cardinality(SizeUnits(q)) = Cardinality(SizeUnits(Tail(q))) + Size(Head(q))
<1>1. PICK n \in Nat : n = Len(q) /\ n # 0
      BY LenProperties, EmptySeq
<1>2. PICK r \in Seq(Msgs) : r = Tail(q)
      BY HeadTailProperties
<1>3. Len(r) = n - 1 /\ \A i \in 1 .. n - 1 : r[i] = q[i + 1]
      BY <1>1, <1>2, HeadTailProperties
<1>4. PICK h \in Msgs : h = Head(q) /\ q[1] = h
      BY HeadTailProperties
<1>5. PICK s \in {1, 2} : s = Size(h)
      BY SizeFacts
<1> DEFINE R == SizeUnits(r)
           T == SizeUnits(q)
           S == {u \in T : u[1] # 1}
           f == [u \in R |-> <<u[1] + 1, u[2]>>]
<1>6. \A u : u \in R <=> u \in (1 .. n - 1) \X {1, 2} /\ u[2] <= Size(r[u[1]])
      BY <1>3 DEF SizeUnits
<1>7. \A u : u \in T <=> u \in (1 .. n) \X {1, 2} /\ u[2] <= Size(q[u[1]])
      BY <1>1 DEF SizeUnits
<1>8. ASSUME NEW u \in R PROVE <<u[1] + 1, u[2]>> \in S
  <2>1. PICK i \in 1 .. n - 1, k \in {1, 2} : u = <<i, k>>
        BY <1>6
  <2>2. i + 1 \in 1 .. n /\ i + 1 # 1
        OBVIOUS
  <2>3. k <= Size(q[i + 1])
        BY <1>3, <1>6, <2>1
  <2>4. <<i + 1, k>> \in T
        BY <1>7, <2>2, <2>3
  <2> QED BY <2>1, <2>2, <2>4
<1>9. ASSUME NEW u \in S PROVE \E v \in R : <<v[1] + 1, v[2]>> = u
  <2>1. PICK i \in 1 .. n, k \in {1, 2} : u = <<i, k>>
        BY <1>7
  <2>2. PICK j \in 1 .. n - 1 : i = j + 1
    <3>1. i # 1
          BY <2>1
    <3>2. i - 1 \in 1 .. n - 1 /\ i = (i - 1) + 1
          BY <3>1
    <3> QED BY <3>2
  <2>3. k <= Size(r[j])
        BY <1>3, <1>7, <2>1, <2>2
  <2>4. <<j, k>> \in R
        BY <1>6, <2>3
  <2> QED BY <2>1, <2>2, <2>4
<1>10. \A u, v \in R : <<u[1] + 1, u[2]>> = <<v[1] + 1, v[2]>> => u = v
  <2> SUFFICES ASSUME NEW u \in R, NEW v \in R, u[1] + 1 = v[1] + 1, u[2] = v[2]
               PROVE  u = v
      OBVIOUS
  <2>1. PICK i \in 1 .. n - 1, k \in {1, 2} : u = <<i, k>>
        BY <1>6
  <2>2. PICK j \in 1 .. n - 1, l \in {1, 2} : v = <<j, l>>
        BY <1>6
  <2>3. i = j /\ k = l
        BY <2>1, <2>2
  <2> QED BY <2>1, <2>2, <2>3
<1>11. IsFiniteSet(R) /\ IsFiniteSet(T)
       BY <1>2, UnitsFinite
<1> HIDE DEF R, T, S
<1>12. ExistsBijection(R, S)
  <2>1. f \in [R -> S]
        BY <1>8
  <2>2. \A u \in R : f[u] = <<u[1] + 1, u[2]>>
        OBVIOUS
  <2>3. \A u, v \in R : f[u] = f[v] => u = v
        BY <1>10, <2>2
  <2>4. \A u \in S : \E v \in R : f[v] = u
        BY <1>9, <2>2
  <2> HIDE DEF f
  <2>5. f \in Bijection(R, S)
        BY <2>1, <2>3, <2>4, Fun_IsBij
  <2> QED BY <2>5, Fun_ExistsBij
<1> HIDE DEF f
<1>13. IsFiniteSet(S) /\ Cardinality(S) = Cardinality(R)
       BY <1>11, <1>12, FS_Bijection
<1>14. <<1, 1>> \notin S /\ <<1, 2>> \notin S /\ <<1, 1>> # <<1, 2>>
       BY DEF S
<1>15. <<1, 1>> \in T /\ (<<1, 2>> \in T <=> s = 2)
  <2>1. 1 \in 1 .. n
        BY <1>1
  <2>2. <<1, 1>> \in (1 .. n) \X {1, 2} /\ <<1, 2>> \in (1 .. n) \X {1, 2}
        BY <2>1
  <2>3. 1 <= s /\ (2 <= s <=> s = 2)
        OBVIOUS
  <2> QED BY <1>4, <1>5, <1>7, <2>2, <2>3
<1>16. \A u \in T : u \in S \/ u = <<1, 1>> \/ u = <<1, 2>>
  <2> TAKE u \in T
  <2>1. PICK i \in 1 .. n, k \in {1, 2} : u = <<i, k>>
        BY <1>7
  <2>2. u[1] = 1 => u = <<1, 1>> \/ u = <<1, 2>>
        BY <2>1
  <2> QED BY <2>2 DEF S
<1>17. T = S \cup {<<1, 1>>} \cup (IF s = 2 THEN {<<1, 2>>} ELSE {})
  <2>1. \A u \in S : u \in T
        BY DEF S
  <2> QED BY <1>15, <1>16, <2>1
<1>18. Cardinality(T) = Cardinality(S) + s
  <2>1. PICK a : a = <<1, 1>>
        OBVIOUS
  <2>2. PICK b : b = <<1, 2>>
        OBVIOUS
  <2>3. a \notin S /\ b \notin S /\ a # b
        BY <1>14, <2>1, <2>2
  <2>4. T = S \cup {a} \cup (IF s = 2 THEN {b} ELSE {})
        BY <1>17, <2>1, <2>2
  <2> QED BY <1>13, <2>3, <2>4, AddUnits
<1> QED BY <1>2, <1>4, <1>5, <1>13, <1>18 DEF R, T

LEMMA NoUnits == Cardinality(SizeUnits(<<>>)) = 0
<1>1. SizeUnits(<<>>) = {}
      BY EmptySeq DEF SizeUnits
<1> QED BY <1>1, FS_EmptySet

\* When a flush is asked for, all that its connection accepted is ahead of it.
TargetInv ==
  \A t \in Tasks :
    /\ target[t][1] <= conns
    /\ target[t][1] = conns => target[t][2] <= Len(accepted)
    /\ result[t] = "TRUE" /\ target[t][1] = conns
         => Len(accepted) - Len(xmit_queue) >= target[t][2]

LEMMA TargetTypes ==
  ASSUME TypeInv
  PROVE  /\ Len(accepted) \in Nat /\ Len(xmit_queue) \in Nat /\ conns \in Nat
         /\ \A t \in Tasks : target[t][1] \in Nat /\ target[t][2] \in Nat
<1>1. target \in [Tasks -> Nat \X Nat] /\ conns \in Nat
      BY DEF TypeInv, TypeOK
<1>2. \A t \in Tasks : target[t] \in Nat \X Nat
      BY <1>1
<1> QED BY <1>1, <1>2, Lengths

\* A step that accepts or takes messages, and may answer when the queue is empty
LEMMA TargetKept ==
  ASSUME TypeInv, TypeInv', TargetInv, UNCHANGED <<conns, target>>,
         Len(accepted) <= Len(accepted'),
         Len(accepted) - Len(xmit_queue) <= Len(accepted') - Len(xmit_queue'),
         \A t \in Tasks : result'[t] = "TRUE" => result[t] = "TRUE" \/ Len(xmit_queue') = 0
  PROVE  TargetInv'
<1>6. PICK a \in Nat : a = Len(accepted)
      BY Lengths
<1>7. PICK q \in Nat : q = Len(xmit_queue)
      BY Lengths
<1>8. xmit_queue' \in Seq(Msgs) /\ accepted' \in Seq(Msgs)
      BY DEF TypeInv, TypeOK
<1>9. PICK b \in Nat : b = Len(accepted')
      BY <1>8, LenProperties
<1>10. PICK r \in Nat : r = Len(xmit_queue')
      BY <1>8, LenProperties
<1>1. a = Len(accepted) /\ q = Len(xmit_queue) /\ b = Len(accepted') /\ r = Len(xmit_queue')
      BY <1>6, <1>7, <1>9, <1>10
<1>2. a <= b /\ a - q <= b - r
      BY <1>1
<1> SUFFICES ASSUME NEW t \in Tasks
             PROVE  /\ target[t][1] <= conns
                    /\ target[t][1] = conns => target[t][2] <= b
                    /\ result'[t] = "TRUE" /\ target[t][1] = conns => b - r >= target[t][2]
    BY <1>1 DEF TargetInv
<1>3. /\ target[t][1] <= conns
      /\ target[t][1] = conns => target[t][2] <= a
      /\ result[t] = "TRUE" /\ target[t][1] = conns => a - q >= target[t][2]
      BY <1>1 DEF TargetInv
<1>4. PICK n \in Nat : n = target[t][2]
      BY TargetTypes
<1>5. result'[t] = "TRUE" => result[t] = "TRUE" \/ r = 0
      BY <1>1
<1> QED BY <1>2, <1>3, <1>4, <1>5

LEMMA NextTargetInv ==
  ASSUME TypeInv, TypeInv', XmitInv, TargetInv, [Next]_vars
  PROVE  TargetInv'
<1>1. ASSUME UNCHANGED <<xmit_queue, accepted, conns, target, result>> PROVE TargetInv'
      BY <1>1 DEF TargetInv
<1>2. ASSUME NEW t \in Threads, SendPush(t) PROVE TargetInv'
  <2>1. PICK m \in Msgs : m = MsgOf(t)
        BY <1>2 DEF SendPush, TypeInv, MsgOf, Msgs
  <2>2. /\ xmit_queue' = Append(xmit_queue, m) /\ accepted' = Append(accepted, m)
        /\ UNCHANGED <<conns, target, result>>
        BY <1>2, <2>1 DEF SendPush, PushTail
  <2>3. Len(xmit_queue') = Len(xmit_queue) + 1 /\ Len(accepted') = Len(accepted) + 1
        BY <2>2, Lengths, AppendProperties
  <2>4. /\ Len(accepted) <= Len(accepted')
        /\ Len(accepted) - Len(xmit_queue) <= Len(accepted') - Len(xmit_queue')
        BY <2>3, Lengths
  <2> QED BY <2>2, <2>4, TargetKept
<1>3. ASSUME NEW t \in Threads, MsgOutSend(t) PROVE TargetInv'
      BY <1>1, <1>2, <1>3 DEF MsgOutSend, MsgOutNew, SendLock, SendBlocked, SendSize, SendAttach,
                              SendStore
<1>4. ASSUME ChannelConnect PROVE TargetInv'
  <2>1. conns' = conns + 1 /\ UNCHANGED target
        BY <1>4 DEF ChannelConnect
  <2>2. \A t \in Tasks : target[t][1] < conns + 1
        BY TargetTypes DEF TargetInv
  <2>3. \A t \in Tasks : target'[t][1] <= conns' /\ target'[t][1] # conns'
        BY <2>1, <2>2, TargetTypes
  <2> QED BY <2>3 DEF TargetInv
<1>5. ASSUME FlushAsync PROVE TargetInv'
  <2>1. PICK t \in Tasks :
          /\ target' = [target EXCEPT ![t] = <<conns, Len(accepted)>>]
          /\ \E r \in {"error", "TRUE", "pending"} :
               /\ result' = [result EXCEPT ![t] = r]
               /\ r = "TRUE" => xmit_queue = <<>>
        BY <1>5 DEF FlushAsync, NothingQueued
  <2>2. UNCHANGED <<xmit_queue, accepted, conns>>
        BY <1>5 DEF FlushAsync
  <2>3. /\ target \in [Tasks -> Nat \X Nat] /\ DOMAIN result = Tasks
        BY DEF TypeInv, TypeOK
  <2>4. PICK a \in Nat : a = Len(accepted)
        BY Lengths
  <2>5. ASSUME NEW u \in Tasks, u # t
        PROVE  target'[u] = target[u] /\ result'[u] = result[u]
        BY <2>1, <2>3, <2>5
  <2>6. target'[t] = <<conns, a>> /\ (result'[t] = "TRUE" => xmit_queue = <<>>)
        BY <2>1, <2>3, <2>4
  <2>7. target'[t][1] = conns /\ target'[t][2] = a
        BY <2>6
  <2>8. result'[t] = "TRUE" => Len(xmit_queue) = 0
        BY <2>6
  <2>9. conns \in Nat
        BY TargetTypes
  <2> QED BY <2>2, <2>4, <2>5, <2>7, <2>8, <2>9 DEF TargetInv
<1>6. ASSUME Pop PROVE TargetInv'
  <2>1. xmit_queue # <<>> /\ xmit_queue' = Tail(xmit_queue) /\ UNCHANGED <<accepted, conns, target, result>>
        BY <1>6 DEF Pop
  <2>2. Len(xmit_queue') = Len(xmit_queue) - 1
        BY <2>1, Lengths, HeadTailProperties
  <2>3. /\ Len(accepted) <= Len(accepted')
        /\ Len(accepted) - Len(xmit_queue) <= Len(accepted') - Len(xmit_queue')
        BY <2>1, <2>2, Lengths
  <2> QED BY <2>1, <2>3, TargetKept
<1>7. ASSUME PopNull \/ ChannelReset PROVE TargetInv'
  <2>1. Len(xmit_queue') = 0 /\ UNCHANGED <<accepted, conns, target>>
        BY <1>7 DEF PopNull, ChannelReset, Flushed
  <2>2. /\ Len(accepted) <= Len(accepted')
        /\ Len(accepted) - Len(xmit_queue) <= Len(accepted') - Len(xmit_queue')
        BY <2>1, Lengths
  <2> QED BY <2>1, <2>2, TargetKept
<1>8. ASSUME MainLoop \/ Disconnect PROVE TargetInv'
      BY <1>1, <1>8 DEF MainLoop, DispatchWakeup, ClearWakeupId, ClearIdLocked, IdleWakeup,
           SocketReady, ConnectDelayed, ThawFrozen, EmitDone, DelayedUnref, Disconnect
<1>9. ASSUME Link \/ Iterate \/ SizeTest \/ SizeSubtract \/ WriteMsg \/ FlushWire \/ Park
             \/ Read \/ Recv \/ Handle
      PROVE  TargetInv'
      BY <1>1, <1>9 DEF Link, Iterate, SizeTest, SizeSubtract, WriteMsg, FlushWire, Park, Read,
           Recv, Handle
<1>10. ASSUME UNCHANGED vars PROVE TargetInv'
       BY <1>1, <1>10 DEF vars
<1> QED BY <1>3, <1>4, <1>5, <1>6, <1>7, <1>8, <1>9, <1>10 DEF Next, User, Coroutine

\* While only the main thread sends, xmit_queue_size is the size of the queue and of the
\* message being popped, but for the store that spice_msg_out_send is about to make.
OnlyMain == \A t \in Producers : sent[t] = 0
Units    == Cardinality(SizeUnits(xmit_queue))
Popping  == co \in {"size", "subtract"}
InSend   == pc[Main] \in {"lock", "locked"}
HeldMsgs == (IF Popping THEN 1 ELSE 0) + (IF InSend THEN 1 ELSE 0)

SizeInv ==
  OnlyMain =>
    /\ pc[Main] # "idle" => ~Popping
    /\ Len(xmit_queue) + HeldMsgs <= sent[Main]
    /\ pc[Main] = "size" => loaded + Size(MsgOf(Main)) = Units
    /\ pc[Main] # "size" /\ Units + Popped > 0 => xmit_queue_size = Units + Popped
    /\ co = "subtract" => fits

SmallQueues == 2 * MaxMsgs < SizeModulus

LEMMA SmallMod == ASSUME NEW x \in Nat, NEW m \in Nat, x < m PROVE x % m = x
OBVIOUS

LEMMA SizeTypes ==
  ASSUME TypeInv
  PROVE  /\ Units \in Nat /\ Units <= 2 * Len(xmit_queue) /\ Len(xmit_queue) \in Nat
         /\ (xmit_queue # <<>> => Units > 0) /\ (xmit_queue = <<>> => Units = 0)
         /\ Popped \in Nat /\ (Popping => Popped > 0) /\ (~Popping => Popped = 0)
         /\ Main \in Threads /\ sent[Main] \in 0 .. MaxMsgs
         /\ xmit_queue_size \in Nat /\ loaded \in Nat
<1>1. xmit_queue \in Seq(Msgs) /\ sent \in [Threads -> 0 .. MaxMsgs]
      BY DEF TypeInv, TypeOK
<1>2. Units \in Nat /\ Units <= 2 * Len(xmit_queue) /\ Len(xmit_queue) \in Nat
      BY <1>1, UnitsFinite, LenProperties DEF Units
<1>3. ASSUME xmit_queue # <<>> PROVE Units > 0
  <2>1. Units = Cardinality(SizeUnits(Tail(xmit_queue))) + Size(Head(xmit_queue))
        BY <1>1, <1>3, TailUnits DEF Units
  <2>2. Cardinality(SizeUnits(Tail(xmit_queue))) \in Nat
        BY <1>1, <1>3, HeadTailProperties, UnitsFinite
  <2>3. Size(Head(xmit_queue)) \in {1, 2}
        BY <1>1, <1>3, HeadTailProperties, SizeFacts
  <2> QED BY <2>1, <2>2, <2>3
<1>4. xmit_queue = <<>> => Units = 0
      BY NoUnits DEF Units
<1>5. Popped \in Nat /\ (Popping => Popped > 0) /\ (~Popping => Popped = 0)
  <2>1. CASE Popping
    <3>1. cur \in Msgs
          BY <2>1 DEF Popping, TypeInv
    <3>2. Size(cur) \in {1, 2}
          BY <3>1, SizeFacts
    <3> QED BY <2>1, <3>2 DEF Popped, Popping
  <2>2. CASE ~Popping
        BY <2>2 DEF Popped, Popping
  <2> QED BY <2>1, <2>2
<1>6. Main \in Threads
      BY DEF Threads
<1>7. xmit_queue_size \in Nat /\ loaded \in Nat
      BY DEF TypeInv, TypeOK
<1> QED BY <1>1, <1>2, <1>3, <1>4, <1>5, <1>6, <1>7

\* Who has sent stays a sender.
LEMMA OnlyMainBack ==
  ASSUME TypeInv, [Next]_vars, OnlyMain'
  PROVE  OnlyMain
<1>1. sent \in [Threads -> 0 .. MaxMsgs]
      BY DEF TypeInv, TypeOK
<1>2. CASE UNCHANGED sent
      BY <1>2 DEF OnlyMain
<1>3. ASSUME NEW t \in Threads, MsgOutNew(t) PROVE OnlyMain
  <2>1. sent' = [sent EXCEPT ![t] = @ + 1]
        BY <1>3 DEF MsgOutNew
  <2>2. ASSUME NEW p \in Producers PROVE sent[p] = 0
    <3>1. p \in Threads /\ sent'[p] = 0 /\ sent[p] \in Nat
          BY <1>1, <2>2 DEF OnlyMain, Threads
    <3>2. p # t
          BY <1>1, <2>1, <3>1
    <3> QED BY <1>1, <2>1, <3>1, <3>2
  <2> QED BY <2>2 DEF OnlyMain
<1>4. ASSUME NEW t \in Threads, MsgOutSend(t) PROVE OnlyMain
      BY <1>2, <1>3, <1>4 DEF MsgOutSend, SendLock, SendBlocked, SendPush, SendSize, SendAttach,
                              SendStore
<1>5. ASSUME MainLoop \/ User PROVE UNCHANGED sent
      BY <1>5 DEF MainLoop, DispatchWakeup, ClearWakeupId, ClearIdLocked, IdleWakeup, User,
           SocketReady, ConnectDelayed, ThawFrozen, EmitDone, DelayedUnref, Disconnect,
           ChannelConnect, FlushAsync
<1>6. ASSUME Coroutine PROVE UNCHANGED sent
      BY <1>6 DEF Coroutine, Link, Iterate, Pop, PopNull, SizeTest, SizeSubtract, WriteMsg,
           FlushWire, Park, Read, Recv, Handle, ChannelReset
<1>7. ASSUME UNCHANGED vars PROVE UNCHANGED sent
      BY <1>7 DEF vars
<1> QED BY <1>2, <1>4, <1>5, <1>6, <1>7 DEF Next

LEMMA InitSizeInv == Init => SizeInv
<1> SUFFICES ASSUME Init PROVE SizeInv
    OBVIOUS
<1>1. /\ xmit_queue = <<>> /\ Main \in Threads /\ pc[Main] = "idle" /\ sent[Main] = 0
      /\ co = "none"
      BY DEF Init, Threads
<1>2. Units = 0 /\ Popped = 0 /\ ~Popping /\ HeldMsgs = 0
      BY <1>1, NoUnits DEF Units, Popped, Popping, HeldMsgs, InSend
<1> QED BY <1>1, <1>2 DEF SizeInv

\* A step that leaves the queue, its size and what is popped of it alone
LEMMA SizeKept ==
  ASSUME TypeInv, SizeInv, OnlyMain,
         UNCHANGED <<xmit_queue, xmit_queue_size, loaded, sent, fits>>,
         \/ pc'[Main] = pc[Main]
         \/ /\ "size" \notin {pc[Main], pc'[Main]}
            /\ pc'[Main] = "idle" \/ pc[Main] # "idle"
            /\ InSend' => InSend,
         (co' = co /\ cur' = cur) \/ (~Popping /\ ~Popping')
  PROVE  SizeInv'
<1>1. Units' = Units
      BY DEF Units
<1>2. Popping' = Popping /\ Popped' = Popped
      BY DEF Popping, Popped
<1>3. HeldMsgs \in Nat /\ HeldMsgs' \in Nat /\ HeldMsgs' <= HeldMsgs
      BY <1>2 DEF HeldMsgs, InSend
<1>4. MsgOf(Main)' = MsgOf(Main)
      BY DEF MsgOf
<1>5. /\ pc'[Main] = "size" => pc[Main] = "size"
      /\ pc'[Main] # "idle" => pc[Main] # "idle"
      /\ pc'[Main] # "size" => pc[Main] # "size"
      OBVIOUS
<1>6. co' = "subtract" => co = "subtract"
      BY DEF Popping
<1>7. Len(xmit_queue') + HeldMsgs' <= sent'[Main]
      BY <1>3, SizeTypes DEF SizeInv
<1> QED BY <1>1, <1>2, <1>4, <1>5, <1>6, <1>7 DEF SizeInv

\* Under OnlyMain a step of a send is one of the main thread.
LEMMA SenderIsMain ==
  ASSUME TypeInv, OnlyMain, OnlyMain', NEW t \in Threads, MsgOutSend(t)
  PROVE  t = Main
<1> SUFFICES ASSUME t # Main PROVE FALSE
    OBVIOUS
<1>1. t \in Producers /\ sent[t] = 0 /\ sent'[t] = 0
      BY DEF Threads, OnlyMain
<1>2. sent \in [Threads -> 0 .. MaxMsgs]
      BY DEF TypeInv, TypeOK
<1>3. ~MsgOutNew(t)
  <2>1. MsgOutNew(t) => sent'[t] = sent[t] + 1
        BY <1>2 DEF MsgOutNew
  <2> QED BY <1>1, <2>1
<1>4. pc[t] # "idle"
      BY <1>3 DEF MsgOutSend, SendLock, SendBlocked, SendPush, SendSize, SendAttach, SendStore
<1>5. sent[t] \in 1 .. MaxMsgs
      BY <1>4 DEF TypeInv
<1> QED BY <1>1, <1>5

LEMMA SendKeepsSize ==
  ASSUME SmallQueues, TypeInv, CoInv, SizeInv, OnlyMain, MsgOutSend(Main)
  PROVE  SizeInv'
<1>1. /\ sent \in [Threads -> 0 .. MaxMsgs] /\ Main \in Threads
      /\ pc \in [Threads -> {"idle", "lock", "locked", "size", "wake", "store"}]
      BY DEF TypeInv, TypeOK, Threads
<1>2. PICK n \in Nat : n = Len(xmit_queue)
      BY SizeTypes
<1>3. PICK k \in Nat : k = sent[Main]
      BY <1>1
<1>4. PICK u \in Nat : u = Units /\ u <= 2 * n
      BY <1>2, SizeTypes
<1>5. CASE MsgOutNew(Main)
  <2>1. /\ pc[Main] = "idle" /\ pc'[Main] = "lock" /\ sent'[Main] = sent[Main] + 1
        /\ UNCHANGED <<xmit_queue, xmit_queue_size, co, cur, fits>>
        BY <1>1, <1>5 DEF MsgOutNew
  <2>2. ~Popping /\ ~Popping'
        BY <1>5, <2>1 DEF MsgOutNew, MaySend, CoInv, Popping, Running
  <2>3. HeldMsgs = 0 /\ HeldMsgs' = 1
        BY <2>1, <2>2 DEF HeldMsgs, InSend
  <2>4. Units' = Units /\ Popped' = Popped
        BY <2>1 DEF Units, Popped
  <2>5. Len(xmit_queue') + HeldMsgs' <= sent'[Main]
        BY <1>2, <1>3, <2>1, <2>3 DEF SizeInv
  <2> QED BY <2>1, <2>2, <2>4, <2>5 DEF SizeInv, Popping
<1>6. CASE SendLock(Main) \/ SendBlocked(Main) \/ SendAttach(Main) \/ SendStore(Main)
  <2>1. UNCHANGED <<xmit_queue, xmit_queue_size, loaded, sent, fits, co, cur>>
        BY <1>6 DEF SendLock, SendBlocked, SendAttach, SendStore
  <2>2. \/ pc[Main] = "lock" /\ pc'[Main] = "locked"
        \/ pc[Main] = "locked" /\ pc'[Main] = "idle"
        \/ pc[Main] = "wake" /\ pc'[Main] = "store"
        \/ pc[Main] = "store" /\ pc'[Main] = "idle"
        BY <1>1, <1>6 DEF SendLock, SendBlocked, SendAttach, SendStore, Unlock
  <2>3. InSend' => InSend
        BY <2>2 DEF InSend
  <2> QED BY <2>1, <2>2, <2>3, SizeKept
<1>7. CASE SendPush(Main)
  <2>1. PICK m \in Msgs : m = MsgOf(Main)
        BY <1>1, <1>7 DEF SendPush, TypeInv, MsgOf, Msgs
  <2>2. /\ xmit_queue' = Append(xmit_queue, m) /\ pc[Main] = "locked" /\ pc'[Main] = "size"
        /\ UNCHANGED <<xmit_queue_size, co, cur, fits, sent>>
        /\ loaded' = IF xmit_queue = <<>> THEN 0 ELSE xmit_queue_size
        BY <1>1, <1>7, <2>1 DEF SendPush, PushTail, SizeBefore
  <2>3. xmit_queue \in Seq(Msgs)
        BY DEF TypeInv, TypeOK
  <2>4. Len(xmit_queue') = n + 1 /\ Units' = u + Size(m)
        BY <1>2, <1>4, <2>2, <2>3, AppendProperties, AppendUnits DEF Units
  <2>5. ~Popping /\ ~Popping' /\ Popped = 0
        BY <2>2, SizeTypes DEF SizeInv, Popping
  <2>6. HeldMsgs = 1 /\ HeldMsgs' = 0
        BY <2>2, <2>5 DEF HeldMsgs, InSend
  <2>7. loaded' = u
    <3>1. CASE xmit_queue = <<>>
          BY <1>4, <2>2, <3>1, SizeTypes
    <3>2. CASE xmit_queue # <<>>
      <4>1. u > 0 /\ u + Popped > 0
            BY <1>4, <2>5, <3>2, SizeTypes
      <4>2. xmit_queue_size = Units + Popped
            BY <1>4, <2>2, <4>1 DEF SizeInv
      <4> QED BY <1>4, <2>2, <2>5, <3>2, <4>2
    <3> QED BY <3>1, <3>2
  <2>8. MsgOf(Main)' = m
        BY <2>1, <2>2 DEF MsgOf
  <2>9. Len(xmit_queue') + HeldMsgs' <= sent'[Main]
    <3>1. n + 1 <= sent[Main]
          BY <1>2, <2>6 DEF SizeInv
    <3> QED BY <2>2, <2>4, <2>6, <3>1
  <2>10. loaded' + Size(MsgOf(Main)') = Units'
         BY <2>4, <2>7, <2>8
  <2>11. co' # "subtract"
         BY <2>5 DEF Popping
  <2>12. loaded' + Size(MsgOf(Main))' = Units'
    <3>1. Size(MsgOf(Main))' = Size(MsgOf(Main)')
          BY DEF Size
    <3> QED BY <2>10, <3>1
  <2> QED BY <2>2, <2>5, <2>9, <2>11, <2>12 DEF SizeInv
<1>8. CASE SendSize(Main)
  <2>1. /\ pc[Main] = "size" /\ pc'[Main] \in {"wake", "idle"}
        /\ xmit_queue_size' = (loaded + Size(MsgOf(Main))) % SizeModulus
        /\ UNCHANGED <<xmit_queue, co, cur, fits, sent>>
        BY <1>1, <1>8 DEF SendSize, Unlock
  <2>2. xmit_queue_size' = u % SizeModulus
        BY <1>4, <2>1 DEF SizeInv
  <2>3. n <= MaxMsgs
    <3>1. n + HeldMsgs <= k /\ HeldMsgs \in {0, 1, 2}
          BY <1>2, <1>3 DEF SizeInv, HeldMsgs
    <3>2. k <= MaxMsgs /\ MaxMsgs \in Nat
          BY <1>1, <1>3
    <3> QED BY <3>1, <3>2
  <2>4. u < SizeModulus
    <3>1. MaxMsgs \in Nat /\ SizeModulus \in Nat /\ 2 * MaxMsgs < SizeModulus
          BY DEF SmallQueues
    <3> QED BY <1>4, <2>3, <3>1
  <2>5. xmit_queue_size' = u
        BY <2>2, <2>4, SmallMod
  <2>6. ~Popping /\ ~Popping' /\ Popped' = 0
    <3>1. ~Popping /\ Popped = 0
          BY <2>1, SizeTypes DEF SizeInv
    <3> QED BY <2>1, <3>1 DEF Popping, Popped
  <2>7. Units' = u
        BY <1>4, <2>1 DEF Units
  <2>8. HeldMsgs' = 0 /\ HeldMsgs = 0
        BY <2>1, <2>6 DEF HeldMsgs, InSend
  <2>9. Len(xmit_queue') + HeldMsgs' <= sent'[Main]
        BY <2>1, <2>8 DEF SizeInv
  <2>10. xmit_queue_size' = Units' + Popped'
         BY <2>5, <2>6, <2>7
  <2> QED BY <2>1, <2>6, <2>9, <2>10 DEF SizeInv, Popping
<1> QED BY <1>5, <1>6, <1>7, <1>8 DEF MsgOutSend

LEMMA PopKeepsSize ==
  ASSUME SmallQueues, TypeInv, SizeInv, OnlyMain, Pop \/ SizeTest \/ SizeSubtract \/ ChannelReset
  PROVE  SizeInv'
<1>1. /\ pc[Main] = "idle" /\ UNCHANGED <<pc, sent>> /\ ~InSend /\ ~InSend'
      BY DEF Pop, SizeTest, SizeSubtract, ChannelReset, InSend
<1>2. PICK n \in Nat : n = Len(xmit_queue)
      BY SizeTypes
<1>3. PICK u \in Nat : u = Units /\ u <= 2 * n
      BY <1>2, SizeTypes
<1>4. PICK k \in Nat : k = sent[Main] /\ k <= MaxMsgs
  <2>1. sent[Main] \in 0 .. MaxMsgs /\ MaxMsgs \in Nat
        BY SizeTypes
  <2>2. sent[Main] \in Nat /\ sent[Main] <= MaxMsgs
        BY <2>1
  <2> QED BY <2>2
<1>5. xmit_queue \in Seq(Msgs)
      BY DEF TypeInv, TypeOK
<1>6. CASE Pop
  <2>1. /\ xmit_queue # <<>> /\ xmit_queue' = Tail(xmit_queue) /\ cur' = Head(xmit_queue)
        /\ co = "pop" /\ co' = "size" /\ UNCHANGED xmit_queue_size
        BY <1>6 DEF Pop
  <2>2. ~Popping /\ Popping' /\ HeldMsgs = 0 /\ HeldMsgs' = 1
        BY <1>1, <2>1 DEF Popping, HeldMsgs
  <2>3. Len(xmit_queue') = n - 1
        BY <1>2, <1>5, <2>1, HeadTailProperties
  <2>4. Units = Units' + Popped'
        BY <1>5, <2>1, TailUnits DEF Units, Popped
  <2>5. Units > 0 /\ Popped = 0
        BY <2>1, <2>2, SizeTypes
  <2>6. xmit_queue_size = Units
        BY <1>1, <1>3, <2>5 DEF SizeInv
  <2>7. Len(xmit_queue') + HeldMsgs' <= sent'[Main]
        BY <1>1, <1>2, <1>4, <2>2, <2>3 DEF SizeInv
  <2>8. xmit_queue_size' = Units' + Popped'
        BY <2>1, <2>4, <2>6
  <2> QED BY <1>1, <2>1, <2>7, <2>8 DEF SizeInv
<1>7. CASE SizeTest
  <2>1. /\ co = "size" /\ co' = "subtract" /\ fits' = (xmit_queue_size >= Size(cur))
        /\ UNCHANGED <<xmit_queue, xmit_queue_size, cur>>
        BY <1>7 DEF SizeTest
  <2>2. Units' = Units /\ Popped' = Popped /\ HeldMsgs' = HeldMsgs
        BY <1>1, <2>1 DEF Units, Popped, HeldMsgs, Popping
  <2>3. Popping /\ Popped > 0 /\ Popped \in Nat
        BY <2>1, SizeTypes DEF Popping
  <2>4. xmit_queue_size = Units + Popped /\ Popped = Size(cur)
    <3>1. Units + Popped > 0
          BY <1>3, <2>3
    <3> QED BY <1>1, <2>1, <3>1 DEF SizeInv, Popped
  <2>5. xmit_queue_size >= Size(cur)
        BY <1>3, <2>3, <2>4
  <2>6. fits' = (xmit_queue_size >= Size(cur))
        BY <2>1
  <2>7. fits'
        BY <2>5, <2>6, Zenon
  <2>8. Len(xmit_queue') + HeldMsgs' <= sent'[Main]
        BY <1>1, <2>1, <2>2 DEF SizeInv
  <2> QED BY <1>1, <2>1, <2>2, <2>4, <2>7, <2>8 DEF SizeInv
<1>8. CASE SizeSubtract
  <2>1. /\ co = "subtract" /\ co' = "write" /\ UNCHANGED xmit_queue /\ fits
        /\ xmit_queue_size' = (xmit_queue_size - Size(cur)) % SizeModulus
        BY <1>8 DEF SizeSubtract, SizeInv
  <2>2. Popping /\ ~Popping' /\ HeldMsgs = 1 /\ HeldMsgs' = 0
        BY <1>1, <2>1 DEF Popping, HeldMsgs
  <2>3. PICK p \in Nat : p = Popped /\ p > 0 /\ p = Size(cur)
        BY <2>1, <2>2, SizeTypes DEF Popped
  <2>4. xmit_queue_size = u + p
    <3>1. Units + Popped > 0
          BY <1>3, <2>3
    <3> QED BY <1>1, <1>3, <2>3, <3>1 DEF SizeInv
  <2>5. n + 1 <= k
        BY <1>2, <1>4, <2>2 DEF SizeInv
  <2>6. u < SizeModulus
    <3>1. MaxMsgs \in Nat /\ SizeModulus \in Nat /\ 2 * MaxMsgs < SizeModulus
          BY DEF SmallQueues
    <3> QED BY <1>3, <1>4, <2>5, <3>1
  <2>7. (u + p) - p = u
        OBVIOUS
  <2>8. xmit_queue_size' = u
        BY <2>1, <2>3, <2>4, <2>6, <2>7, SmallMod
  <2>9. Units' = u /\ Popped' = 0
        BY <1>3, <2>1 DEF Units, Popped
  <2>10. Len(xmit_queue') + HeldMsgs' <= sent'[Main]
         BY <1>1, <1>2, <1>4, <2>1, <2>2, <2>5
  <2>11. xmit_queue_size' = Units' + Popped'
         BY <2>8, <2>9
  <2> QED BY <1>1, <2>1, <2>10, <2>11 DEF SizeInv
<1>9. CASE ChannelReset
  <2>1. xmit_queue' = <<>> /\ co' = "exited"
        BY <1>9 DEF ChannelReset
  <2>2. Units' = 0 /\ Popped' = 0 /\ ~Popping' /\ HeldMsgs' = 0
        BY <1>1, <2>1, NoUnits DEF Units, Popped, Popping, HeldMsgs
  <2>3. Len(xmit_queue') + HeldMsgs' <= sent'[Main]
        BY <1>1, <1>4, <2>1, <2>2
  <2> QED BY <1>1, <2>1, <2>2, <2>3 DEF SizeInv
<1> QED BY <1>6, <1>7, <1>8, <1>9

LEMMA NextSizeInv ==
  SmallQueues /\ TypeInv /\ CoInv /\ SizeInv /\ [Next]_vars => SizeInv'
<1> SUFFICES ASSUME SmallQueues, TypeInv, CoInv, SizeInv, [Next]_vars, OnlyMain' PROVE SizeInv'
    BY DEF SizeInv
<1>0. OnlyMain
      BY OnlyMainBack
<1>1. ASSUME NEW t \in Threads, MsgOutSend(t) PROVE SizeInv'
      BY <1>0, <1>1, SenderIsMain, SendKeepsSize
<1>2. ASSUME UNCHANGED <<xmit_queue, xmit_queue_size, loaded, sent, fits, pc>>,
             (co' = co /\ cur' = cur) \/ (~Popping /\ ~Popping')
      PROVE  SizeInv'
      BY <1>0, <1>2, SizeKept
<1>3. ASSUME Wakeup, UNCHANGED cur PROVE (co' = co /\ cur' = cur) \/ (~Popping /\ ~Popping')
  <2>1. CASE co \in SocketWaits
        BY <1>3, <2>1, AfterFacts DEF Wakeup, Popping, SocketWaits
  <2> QED BY <1>3, <2>1 DEF Wakeup
<1>4. CASE IdleWakeup \/ Disconnect
  <2>1. (Wakeup \/ co' = co) /\ UNCHANGED <<xmit_queue, xmit_queue_size, loaded, sent, fits, pc, cur>>
        BY <1>4 DEF IdleWakeup, Disconnect
  <2> QED BY <1>2, <1>3, <2>1
<1>5. CASE SocketReady
  <2>1. co \in SocketWaits /\ co' = After[co]
        BY <1>5 DEF SocketReady
  <2>2. ~Popping /\ ~Popping'
        BY <2>1, AfterFacts DEF Popping, SocketWaits
  <2> QED BY <1>2, <1>5, <2>2 DEF SocketReady
<1>6. CASE DispatchWakeup \/ ClearWakeupId \/ FlushAsync
      BY <1>2, <1>6 DEF DispatchWakeup, ClearWakeupId, ClearIdLocked, FlushAsync
<1>7. CASE ConnectDelayed \/ ThawFrozen \/ EmitDone \/ DelayedUnref \/ ChannelConnect
      BY <1>2, <1>7 DEF ConnectDelayed, ThawFrozen, EmitDone, DelayedUnref, ChannelConnect, Popping
<1>8. CASE Link \/ Iterate \/ PopNull \/ WriteMsg \/ FlushWire
      BY <1>2, <1>8 DEF Link, Iterate, PopNull, WriteMsg, FlushWire, Popping
<1>9. CASE Park \/ Read \/ Recv \/ Handle
      BY <1>2, <1>9 DEF Park, Read, Recv, Handle, Popping
<1>10. CASE Pop \/ SizeTest \/ SizeSubtract \/ ChannelReset
       BY <1>0, <1>10, PopKeepsSize
<1>11. CASE UNCHANGED vars
       BY <1>2, <1>11 DEF vars
<1> QED BY <1>1, <1>4, <1>5, <1>6, <1>7, <1>8, <1>9, <1>10, <1>11
        DEF Next, MainLoop, User, Coroutine

LEMMA InitTargetInv == Init => TargetInv
<1> SUFFICES ASSUME Init, NEW t \in Tasks
             PROVE  target[t] = <<0, 0>> /\ conns = 0 /\ result[t] = "none" /\ Len(accepted) = 0
    BY DEF TargetInv
<1> QED BY DEF Init

\* A flush answered with success has seen all that was queued before it leave the queue;
\* and while the main thread alone sends, the size a sender reads of a queue that is not
\* empty is its size, also after channel_reset, which does not clear it
\* (spice_channel_flush_async, spice_channel_flushed, spice_channel_get_queue_size).  No
\* bound on the connections or the senders; the sizes fit the width of the variable.
THEOREM SendSafeTheorem == (2 * MaxMsgs < SizeModulus) => (Spec => []SendSafe)
<1>1. TypeInv /\ SizeInv /\ TargetInv => SendSafe
  <2> SUFFICES ASSUME TypeInv, SizeInv, TargetInv PROVE SendSafe
      OBVIOUS
  <2>1. FlushedLeftQueue
        BY DEF TargetInv, FlushedLeftQueue
  <2>2. SizeExact
        BY DEF SizeInv, OnlyMain, Units, SizeExact
  <2> QED BY <2>1, <2>2 DEF SendSafe
<1>2. SmallQueues /\ TypeInv /\ TypeInv' /\ XmitInv /\ CoInv /\ SizeInv /\ TargetInv /\ [Next]_vars
        => SizeInv' /\ TargetInv'
      BY NextSizeInv, NextTargetInv
<1>3. (2 * MaxMsgs < SizeModulus) => SmallQueues
      BY DEF SmallQueues
<1> SUFFICES ASSUME SmallQueues PROVE Spec => []SendSafe
    BY <1>3
<1>4. TypeInv /\ TypeInv' /\ XmitInv /\ CoInv /\ SizeInv /\ TargetInv /\ [Next]_vars
        => SizeInv' /\ TargetInv'
      BY <1>2
<1> QED BY <1>1, <1>4, DeliveryInvariance, InitSizeInv, InitTargetInv, PTL DEF Spec

=============================================================================
