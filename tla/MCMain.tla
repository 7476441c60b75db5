------------------------------- MODULE MCMain -------------------------------
(***************************************************************************)
(* The machines of the main channel that use the agent, for TLC: the queue *)
(* of agent messages and its tokens, their framing, file transfers and     *)
(* forwarded ports.  Each models what it needs of the others, so one of    *)
(* them runs at a time: every behaviour is that of the machine "which"     *)
(* names.                                                                  *)
(***************************************************************************)
EXTENDS AgentQueue
CONSTANTS
  Header, MaxData, PieceSizes, MaxPieces, MaxMessages,            \* of AgentFraming
  Copies, EmptyFiles, Blocks,                                     \* of FileTransfer
  AnyAgent, Precancelled, RacyCancel, MayShrink, MayFail,
  Local, Guest, WINDOW_SIZE, Bytes, MaxRead, MaxConns, MaxAssoc,  \* of PortForward
  MaxQueue, MaxLosses

VARIABLE which   \* the machine that runs
VARIABLES \* AgentFraming
  sizes, pieces, size, msg_out, paysize, queue, stream, agent_msg, agent_msg_pos,
  agent_msg_data, data, handled, skipped
VARIABLES \* FileTransfer
  file_agent_connected, task, op, shared, cancelled, file_started, can_send, queued,
  finished, odd
VARIABLES \* PortForward
  connections, conn, made, assoc, accepting, toAgent, toClient, progs, agent, state,
  listening, assocs, losses

\* A copy is the set of its files, and a file has no data or some blocks of them.
Files == UNION Copies

M == INSTANCE AgentFraming WITH out <- msg_out
F == INSTANCE FileTransfer WITH
       Ops <- Copies, Tasks <- Files, TasksOf <- [o \in Copies |-> o],
       Size <- [t \in Files |-> IF t \in EmptyFiles THEN 0 ELSE Blocks],
       agent_connected <- file_agent_connected, started <- file_started
P == INSTANCE PortForward

framingVars == <<sizes, pieces, size, msg_out, paysize, queue, stream, agent_msg,
                 agent_msg_pos, agent_msg_data, data, handled, skipped>>
fileVars == <<file_agent_connected, task, op, shared, cancelled, file_started, can_send,
              queued, finished, odd>>
forwardVars == <<connections, conn, made, assoc, accepting, toAgent, toClient, progs,
                 agent, state, listening, assocs, losses>>
mcvars == <<which, vars, framingVars, fileVars, forwardVars>>

\* Machine x takes the step: it is the one that runs, and the others keep still.
On(x) ==
  /\ which = x /\ UNCHANGED which
  /\ IF x = "agent" THEN TRUE ELSE UNCHANGED vars
  /\ IF x = "framing" THEN TRUE ELSE UNCHANGED framingVars
  /\ IF x = "file" THEN TRUE ELSE UNCHANGED fileVars
  /\ IF x = "forward" THEN TRUE ELSE UNCHANGED forwardVars

MCInit ==
  /\ which \in {"agent", "framing", "file", "forward"}
  /\ Init /\ M!Init /\ F!Init /\ P!Init

MCNext ==
  \/ On("agent") /\ PushWoken
  \/ On("agent") /\ PushSilent
  \/ On("agent") /\ Reset
  \/ \E t \in Tasks :
       \/ On("agent") /\ PushData(t)
       \/ On("agent") /\ FlushAsync(t)
  \/ On("agent") /\ Partial
  \/ On("agent") /\ HandleToken
  \/ On("agent") /\ SetTokens
  \/ On("agent") /\ HandleConnected
  \/ On("agent") /\ HandleDisconnected
  \/ On("agent") /\ HandleAgentData
  \/ On("agent") /\ AgentStart
  \/ On("agent") /\ AgentStopped
  \/ On("agent") /\ Updated
  \/ On("agent") /\ HandleOther
  \/ On("agent") /\ Iterate
  \/ On("agent") /\ SendChunk
  \/ On("agent") /\ ChunkSent
  \/ On("agent") /\ SendDone
  \/ On("framing") /\ M!Begin
  \/ On("framing") /\ M!CopyPiece
  \/ On("framing") /\ M!ServerTakes
  \/ On("framing") /\ M!Receive
  \/ On("framing") /\ M!DataMsg
  \/ On("framing") /\ M!AgentGone
  \/ \E o \in Copies : On("file") /\ F!Copy(o)
  \/ On("file") /\ F!ResetAgent
  \/ On("file") /\ F!AgentBack
  \/ \E t \in Files :
       \/ On("file") /\ F!Opened(t)
       \/ On("file") /\ F!InfoDone(t)
       \/ On("file") /\ F!ReadDone(t)
       \/ On("file") /\ F!EofDone(t)
       \/ On("file") /\ F!BusyDone(t)
       \/ On("file") /\ F!Flushed(t)
       \/ On("file") /\ F!Closed(t)
       \/ On("file") /\ F!Answer(t)
       \/ On("file") /\ F!AgentError(t)
       \/ On("file") /\ F!Cancel(t)
  \/ On("forward") /\ P!AssociateRemote
  \/ On("forward") /\ P!DisassociateRemote
  \/ On("forward") /\ P!AssociateLocal
  \/ On("forward") /\ P!AcceptFails
  \/ On("forward") /\ P!handle_accepted
  \/ On("forward") /\ P!handle_data
  \/ On("forward") /\ P!handle_close
  \/ On("forward") /\ P!handle_ack
  \/ On("forward") /\ P!agent_disconnected
  \/ On("forward") /\ P!agent_start
  \/ \E i \in P!Conns :
       \/ On("forward") /\ P!Accept(i)
       \/ On("forward") /\ P!ReadCancelled(i)
       \/ On("forward") /\ P!Read(i)
       \/ On("forward") /\ P!Written(i)
       \/ On("forward") /\ P!ReadEnds(i)
       \/ On("forward") /\ P!WriteFails(i)
       \/ On("forward") /\ P!AgentAccepts(i)
       \/ On("forward") /\ P!AgentSends(i)
       \/ On("forward") /\ P!AgentCloses(i)
  \/ \E i \in P!Conns, ok \in BOOLEAN : On("forward") /\ P!Connected(i, ok)
  \/ On("forward") /\ P!AgentReceives
  \/ On("forward") /\ P!AgentDies
  \/ On("forward") /\ P!AgentStarts

MCSpec == MCInit /\ [][MCNext]_mcvars

ASSUME MainAssumption ==
  M!FramingAssumption /\ F!FileTransferAssumption /\ P!PortForwardAssumption

-----------------------------------------------------------------------------
\* The variables of the four machines have their types, and the windows and counters of
\* the code stay in their ranges.
MCTypes ==
  /\ which = "agent" => TypeOK
  /\ which = "framing" => M!TypeOK
  /\ which = "file" => F!TypeOK
  /\ which = "forward" => P!TypeOK

\* Agent queue (channel-main.c): messages of several chunks stay whole over a loss of
\* the agent, a flush waits for a chunk that is queued, and reports what was sent.
AgentSafe == which = "agent" => WholeMessages /\ FlushKeyed /\ FlushedIsSent

\* File transfers (spice-file-transfer-task.c, channel-main.c): each task finishes once,
\* and the operation outlives its callbacks.
FileSafe == which = "file" => F!FinishedOnce /\ F!OperationAlive

\* Port forwarding (port-forward.c): a connection is referenced exactly by the table and by
\* its operations under way.
ForwardSafe == which = "forward" => P!RefExact

\* The data of all three arrives: every agent message is rebuilt from any chunks it is cut
\* into, and cutting wastes no chunk (channel-main.c); the bytes and the last progress that
\* a copy reports add up; the bytes of the guest reach the client's program whole and in
\* order (port-forward.c).
DataSafe ==
  /\ which = "framing" => M!MessagesRebuilt /\ M!ChunksFull
  /\ which = "file" => F!ProgressCoherent
  /\ which = "forward" => P!InOrder

\* What the main channel owes its users comes: queued messages are sent while there are
\* tokens, a file operation returns (and sends nothing late), a forwarded stream flows.  The
\* fairness is that of the machine's own module.
MainLive ==
  /\ F!NoLateData
  /\ which = "agent" /\ Fairness => QueueDrains
  /\ which = "file" /\ F!Fairness => F!OperationEnds
  /\ which = "forward" /\ P!Fairness => P!StreamsFlow
=============================================================================
