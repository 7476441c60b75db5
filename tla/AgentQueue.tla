----------------------------- MODULE AgentQueue -----------------------------
(***************************************************************************)
(* The stream of a main channel to the agent in the guest (channel-main.c):*)
(* messages are cut in chunks and queued by any callback of the main loop; *)
(* the channel's coroutine sends a chunk per token the server granted, and *)
(* completes the flush request that waits for that chunk.                  *)
(*                                                                         *)
(* One thread runs everything: a callback of the main loop runs only while *)
(* the coroutine is parked (pc in Parked), and spice_channel_wakeup runs   *)
(* the coroutine at once, inside the callback, until it parks again.       *)
(***************************************************************************)
EXTENDS Integers, Sequences, FiniteSets, SequencesExt

CONSTANTS
  Tasks,       \* the file transfer tasks, each with one flush at a time
  MayReset,    \* the channel may be reset
  MaxChunks,   \* bound: chunks of one message
  MaxPushes,   \* bound: messages queued
  MaxGrants    \* bound: token grants, and the tokens of one

ASSUME AgentQueueAssumption ==
  /\ MayReset \in BOOLEAN
  /\ MaxChunks \in Nat \ {0} /\ MaxPushes \in Nat /\ MaxGrants \in Nat
  /\ "loop" \notin Tasks /\ IsFiniteSet(Tasks)

VARIABLES
  \* SpiceMainChannelPrivate; flushing: pairs of a chunk and a task
  agent_msg_queue, agent_tokens, agent_connected, flushing,
  pc, ret, out,  \* the coroutine, where agent_send_msg_queue returns, its chunk
  caller,        \* "loop", or the task whose read callback called wakeup
  flush,         \* each task's last flush request
  mark,          \* the last chunk each task queued on this connection
  \* the server: the chunks it got on this connection, whether it got
  \* AGENT_START since it announced the agent, and the chunks it allows
  wire, inited, started, credit,
  pushes, grants,
  owed   \* history: a message queued with a wakeup since the queue was empty

srvVars == <<wire, inited, started, credit>>
vars == <<agent_msg_queue, agent_tokens, agent_connected, flushing, pc, ret,
          out, caller, flush, mark, srvVars, pushes, grants, owed>>

Chunk == [msg : 1 .. MaxPushes, part : 1 .. MaxChunks, last : BOOLEAN]
None == [msg |-> 0]
Parked == {"idle", "partial", "writing", "starting", "stopping", "update"}

TypeOK ==
  /\ agent_msg_queue \in Seq(Chunk) /\ agent_tokens \in Nat
  /\ agent_connected \in BOOLEAN
  /\ flushing \subseteq Chunk \X Tasks
  /\ pc \in Parked \union {"more", "send"} /\ ret \in {"idle", "more"}
  /\ out \in Chunk \union {None}
  /\ caller \in Tasks \union {"loop"}
  /\ flush \in [Tasks -> {"none", "waiting", "ok", "failed"}]
  /\ mark \in [Tasks -> Chunk \union {None}]
  /\ wire \in Seq(Chunk) /\ inited \in BOOLEAN /\ started \in BOOLEAN
  /\ credit \in Int
  /\ pushes \in 0 .. MaxPushes /\ grants \in 0 .. MaxGrants /\ owed \in BOOLEAN

Init ==
  /\ agent_msg_queue = <<>> /\ agent_tokens = 0 /\ agent_connected = FALSE
  /\ flushing = {}
  /\ pc = "idle" /\ ret = "idle" /\ out = None /\ caller = "loop"
  /\ flush = [t \in Tasks |-> "none"] /\ mark = [t \in Tasks |-> None]
  /\ wire = <<>> /\ inited = FALSE /\ started = FALSE /\ credit = 0
  /\ pushes = 0 /\ grants = 0 /\ owed = FALSE

-----------------------------------------------------------------------------
(* agent_msg_queue_many: the chunks of the message number m, at the tail. *)
ChunksOf(m, n) == [k \in 1 .. n |-> [msg |-> m, part |-> k, last |-> k = n]]

(* Status messages of k failed transfers, one chunk each. *)
Statuses(k) == [i \in 1 .. k |-> [msg |-> pushes + i, part |-> 1, last |-> TRUE]]

Queue(n) ==
  /\ pushes < MaxPushes /\ pushes' = pushes + 1
  /\ agent_msg_queue' = agent_msg_queue \o ChunksOf(pushes + 1, n)

(* spice_channel_wakeup: resumes a coroutine that waits for the socket; one *)
(* parked in a read or a write finds it still not ready and parks again.   *)
Wakeup == /\ pc' = IF pc = "idle" THEN "send" ELSE pc
          /\ ret' = IF pc = "idle" THEN "idle" ELSE ret

Waiting == {t \in Tasks : flush[t] = "waiting"}

(* What a failed transfer leaves in the queue; MaxPushes caps it. *)
FailTasks(ts, q) ==
  LET k == IF pushes + Cardinality(ts) <= MaxPushes THEN Cardinality(ts)
           ELSE MaxPushes - pushes
  IN /\ agent_msg_queue' = q \o Statuses(k)
     /\ pushes' = pushes + k

(* file_xfer_flushed: every request in the table completes. *)
FlushNone(how) == UNCHANGED <<flush, flushing>>
FlushAll(how) ==
  /\ flush' = [t \in Tasks |-> IF \E e \in flushing : e[2] = t THEN how
                               ELSE flush[t]]
  /\ flushing' = {}

-----------------------------------------------------------------------------
(* The main loop. *)
MainRuns == pc \in Parked /\ caller = "loop"

(* A message whose sender calls wakeup: clipboard, monitors, port forward. *)
PushWoken ==
  /\ MainRuns /\ agent_connected
  /\ \E n \in 1 .. MaxChunks : Queue(n)
  /\ Wakeup /\ owed' = TRUE
  /\ UNCHANGED <<agent_tokens, agent_connected, flushing, out, caller, flush,
                 mark, srvVars, grants>>

(* The volume of the audio streams, and the status of a transfer that fails *)
(* in a callback of the main loop: queued, and nobody is woken.            *)
PushSilent ==
  /\ MainRuns
  /\ Queue(1)
  /\ UNCHANGED <<agent_tokens, agent_connected, flushing, pc, ret, out, caller,
                 flush, mark, srvVars, grants, owed>>

(* file_xfer_read_async_cb, up to the return of spice_channel_wakeup ... *)
PushData(t) ==
  /\ MainRuns /\ flush[t] # "waiting"
  /\ \E n \in 1 .. MaxChunks :
       /\ Queue(n)
       /\ mark' = [mark EXCEPT ![t] = [msg |-> pushes + 1, part |-> n,
                                       last |-> TRUE]]
  /\ Wakeup /\ caller' = t /\ owed' = TRUE
  /\ flush' = [flush EXCEPT ![t] = "none"]
  /\ UNCHANGED <<agent_tokens, agent_connected, flushing, out, srvVars, grants>>

(* ... and from there: file_xfer_flush_async.  An entry with the same key  *)
(* is replaced, and its request lost.                                      *)
InsertFlushHead(key, t) == flushing \union {<<Head(agent_msg_queue), t>>}
InsertFlush(key, t) == {e \in flushing : e[1] # key} \union {<<key, t>>}
FlushAsync(t) ==
  /\ pc \in Parked /\ caller = t
  /\ IF agent_msg_queue = <<>>
       THEN /\ flush' = [flush EXCEPT ![t] = "ok"]
            /\ UNCHANGED flushing
       ELSE /\ flush' = [flush EXCEPT ![t] = "waiting"]
            /\ flushing' = InsertFlush(Last(agent_msg_queue), t)
  /\ caller' = "loop"
  /\ UNCHANGED <<agent_msg_queue, agent_tokens, agent_connected, pc, ret, out,
                 mark, srvVars, pushes, grants, owed>>

(* spice_main_channel_reset, when the channel changes its connection: the  *)
(* queue is dropped, then the agent's transfers fail, into the new queue.  *)
Reset ==
  /\ MayReset /\ MainRuns
  /\ agent_tokens' = 0 /\ agent_connected' = FALSE
  /\ FailTasks(Waiting, <<>>) /\ FlushAll("failed")
  /\ out' = None /\ mark' = [t \in Tasks |-> None] /\ owed' = FALSE
  /\ wire' = <<>> /\ inited' = FALSE /\ started' = FALSE /\ credit' = 0
  /\ UNCHANGED <<pc, ret, caller, grants>>

-----------------------------------------------------------------------------
(* The coroutine: messages of the server. *)
Running(where) == pc \in where /\ (pc \in Parked => caller = "loop")
Reads == Running({"idle", "partial", "more"})

(* The coroutine waits for the rest of a message, where no wakeup helps. *)
Partial == /\ Running({"idle", "more"}) /\ pc' = "partial"
           /\ UNCHANGED <<agent_msg_queue, agent_tokens, agent_connected,
                          flushing, ret, out, caller, flush, mark, srvVars,
                          pushes, grants, owed>>

Grant(n) == grants < MaxGrants /\ grants' = grants + 1 /\ n \in 1 .. MaxGrants

(* main_handle_agent_token *)
HandleToken ==
  /\ Reads /\ inited
  /\ \E n \in 1 .. MaxGrants : /\ Grant(n)
                               /\ agent_tokens' = agent_tokens + n
                               /\ credit' = credit + n
  /\ pc' = "send" /\ ret' = "more"
  /\ UNCHANGED <<agent_msg_queue, agent_connected, flushing, out, caller, flush,
                 mark, wire, inited, started, pushes, owed>>

(* main_handle_init and main_handle_agent_connected_tokens: the tokens are *)
(* set, not added; then agent_start up to the return of its notification.  *)
AddTokens(n) == agent_tokens' = agent_tokens + n
TakeTokens(n) == agent_tokens' = n
SetTokens ==
  /\ Reads
  /\ \E n \in 1 .. MaxGrants : Grant(n) /\ TakeTokens(n) /\ credit' = n
  /\ started' = FALSE /\ inited' = TRUE
  /\ \E withAgent \in BOOLEAN :
       /\ inited => withAgent
       /\ agent_connected' = (agent_connected \/ withAgent)
       /\ pc' = IF withAgent THEN "starting" ELSE "more"
  /\ UNCHANGED <<agent_msg_queue, flushing, ret, out, caller, flush, mark, wire,
                 pushes, owed>>

(* main_handle_agent_connected: a server that counts no tokens anew. *)
HandleConnected ==
  /\ Reads /\ inited
  /\ agent_connected' = TRUE /\ pc' = "starting"
  /\ UNCHANGED <<agent_msg_queue, agent_tokens, flushing, ret, out, caller,
                 flush, mark, srvVars, pushes, grants, owed>>

(* agent_start, from there: AGENT_START is written, whatever happened to   *)
(* the agent; then the capabilities are queued and the queue is sent.      *)
AgentStart ==
  /\ Running({"starting"})
  /\ started' = TRUE
  /\ IF agent_connected THEN pc' = "send" /\ ret' = "more"
                        ELSE pc' = "more" /\ ret' = ret
  /\ IF agent_connected /\ pushes < MaxPushes
       THEN Queue(1) ELSE UNCHANGED <<agent_msg_queue, pushes>>
  /\ UNCHANGED <<agent_tokens, agent_connected, flushing, out, caller, flush,
                 mark, wire, inited, credit, grants, owed>>

(* agent_stopped, up to the notification and after it: reset_agent fails   *)
(* the transfers and keeps the queue and the tokens.                       *)
HandleDisconnected ==
  /\ Reads /\ inited
  /\ agent_connected' = FALSE /\ pc' = "stopping"
  /\ UNCHANGED <<agent_msg_queue, agent_tokens, flushing, ret, out, caller,
                 flush, mark, srvVars, pushes, grants, owed>>

DroppedQueue == <<>>
KeptQueue == agent_msg_queue
AgentStopped ==
  /\ Running({"stopping"})
  /\ FailTasks(Waiting, KeptQueue) /\ FlushAll("failed")
  /\ pc' = "update"
  /\ UNCHANGED <<agent_tokens, agent_connected, ret, out, caller, mark, srvVars,
                 grants, owed>>

Updated == /\ Running({"update"}) /\ pc' = "more"
           /\ UNCHANGED <<agent_msg_queue, agent_tokens, agent_connected,
                          flushing, ret, out, caller, flush, mark, srvVars,
                          pushes, grants, owed>>

(* main_agent_handle_msg, on the agent's capabilities: it answers. *)
HandleAgentData ==
  /\ Reads /\ inited /\ agent_connected
  /\ Queue(1)
  /\ pc' = "send" /\ ret' = "more"
  /\ UNCHANGED <<agent_tokens, agent_connected, flushing, out, caller, flush,
                 mark, srvVars, grants, owed>>

(* A message that does not concern the agent. *)
HandleOther == /\ Running({"partial"}) /\ pc' = "more"
               /\ UNCHANGED <<agent_msg_queue, agent_tokens, agent_connected,
                              flushing, ret, out, caller, flush, mark, srvVars,
                              pushes, grants, owed>>

(* spice_channel_iterate: nothing to read, so the queue comes first again. *)
Iterate == /\ pc = "more" /\ pc' = "send" /\ ret' = "idle"
           /\ UNCHANGED <<agent_msg_queue, agent_tokens, agent_connected,
                          flushing, out, caller, flush, mark, srvVars, pushes,
                          grants, owed>>

-----------------------------------------------------------------------------
(* The coroutine: agent_send_msg_queue. *)
SpendToken == agent_tokens' = agent_tokens - 1

SendChunk ==
  /\ pc = "send" /\ agent_tokens > 0 /\ agent_msg_queue # <<>>
  /\ SpendToken
  /\ out' = Head(agent_msg_queue) /\ agent_msg_queue' = Tail(agent_msg_queue)
  /\ pc' = "writing"
  /\ UNCHANGED <<agent_connected, flushing, ret, caller, flush, mark, srvVars,
                 pushes, grants, owed>>

(* The chunk is written: its flush request, if any, completes, and its     *)
(* callback, run at once, may find the transfer cancelled and queue that.  *)
Completed == {t \in Tasks : <<out, t>> \in flushing}
ChunkSent ==
  /\ Running({"writing"})
  /\ wire' = IF out = None THEN wire ELSE Append(wire, out)
  /\ credit' = IF out # None /\ started THEN credit - 1 ELSE credit
  /\ flush' = [t \in Tasks |-> IF t \in Completed THEN "ok" ELSE flush[t]]
  /\ flushing' = {e \in flushing : e[1] # out}
  /\ \E cancelled \in SUBSET Completed : FailTasks(cancelled, agent_msg_queue)
  /\ out' = None /\ pc' = "send"
  /\ UNCHANGED <<agent_tokens, agent_connected, ret, caller, mark, inited,
                 started, grants, owed>>

SendDone ==
  /\ pc = "send" /\ (agent_tokens = 0 \/ agent_msg_queue = <<>>)
  /\ IF agent_msg_queue = <<>> THEN FlushAll("ok") ELSE UNCHANGED <<flushing, flush>>
  /\ pc' = ret /\ owed' = (owed /\ agent_msg_queue # <<>>)
  /\ UNCHANGED <<agent_msg_queue, agent_tokens, agent_connected, ret, out,
                 caller, mark, srvVars, pushes, grants>>

-----------------------------------------------------------------------------
Main == \/ PushWoken \/ PushSilent \/ Reset
        \/ \E t \in Tasks : PushData(t) \/ FlushAsync(t)
Server == \/ Partial \/ HandleToken \/ SetTokens \/ HandleConnected
          \/ HandleDisconnected \/ HandleAgentData
Coroutine == \/ AgentStart \/ AgentStopped \/ Updated \/ HandleOther \/ Iterate
             \/ SendChunk \/ ChunkSent \/ SendDone
Next == Main \/ Server \/ Coroutine

(* The main loop runs the coroutine while it can run, a callback returns,  *)
(* the socket drains, the server ends a message it began, and does not keep*)
(* the socket readable for ever, when spice_channel_iterate_read would not *)
(* return.                                                                 *)
Fairness == /\ WF_vars(Coroutine) /\ SF_vars(Iterate)
            /\ \A t \in Tasks : WF_vars(FlushAsync(t))

Spec == Init /\ [][Next]_vars /\ Fairness

-----------------------------------------------------------------------------
(* The chunks of a connection, sent, being sent or queued. *)
Stream == wire \o (IF out = None THEN <<>> ELSE <<out>>) \o agent_msg_queue

(* The agent can put its messages together again: the chunks of a message  *)
(* go one after the other, complete and in the order they were queued, also*)
(* over a stop and a start of the agent (agent_msg_queue_many, and the     *)
(* comment of spice_main_channel_reset on multi-chunk messages).           *)
Follows(a, b) == IF a.last THEN b.part = 1 /\ b.msg > a.msg
                 ELSE b.msg = a.msg /\ b.part = a.part + 1
WholeMessages ==
  LET s == Stream IN
  /\ \A i \in 1 .. Len(s) - 1 : Follows(s[i], s[i + 1])
  /\ s # <<>> => s[1].part = 1 /\ Last(s).last

(* The client never sends a chunk the server did not allow: after          *)
(* AGENT_START its tokens, with that of the chunk it is writing, are what  *)
(* the server counts (agent_tokens in main_handle_agent_connected_tokens,  *)
(* main_handle_agent_token and agent_send_msg_queue).                      *)
TokensHonoured ==
  /\ credit >= 0
  /\ agent_tokens + (IF out = None THEN 0 ELSE 1) <= credit

(* No flush request is lost or completed for a chunk that was not sent: one*)
(* that waits has an entry of its own, whose chunk is queued or is being   *)
(* written, so the warning of agent_send_msg_queue is never printed.       *)
FlushKeyed ==
  /\ \A t \in Tasks : Cardinality({e \in flushing : e[2] = t})
                        = IF flush[t] = "waiting" THEN 1 ELSE 0
  /\ \A e \in flushing : e[1] = out \/ \E i \in DOMAIN agent_msg_queue :
                                          agent_msg_queue[i] = e[1]

(* A flush reports success when the data of its transfer left the queue:   *)
(* all of it is written, or its last chunk is (file_xfer_flush_async).     *)
FlushedIsSent ==
  \A t \in Tasks : flush[t] = "ok" /\ mark[t] # None
                     => mark[t] = out \/ \E i \in DOMAIN wire : wire[i] = mark[t]

(* What is queued is sent as long as there are tokens, once a sender woke  *)
(* the coroutine (agent_send_msg_queue and the wakeups of its users) ...   *)
QueueDrains == (owed /\ agent_msg_queue # <<>> /\ agent_tokens > 0)
                 ~> (agent_msg_queue = <<>> \/ agent_tokens = 0)

(* ... which every sender should: "the message is not flushed immediately, *)
(* you can wakeup() the channel coroutine or send_msg_queue()".            *)
AllIsSent == (agent_msg_queue # <<>> /\ agent_tokens > 0)
               ~> (agent_msg_queue = <<>> \/ agent_tokens = 0)
=============================================================================
