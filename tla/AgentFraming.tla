---------------------------- MODULE AgentFraming ----------------------------
(***************************************************************************)
(* Agent messages on the wire (channel-main.c): agent_msg_queue_many cuts a*)
(* message, made of several pieces, in chunks; main_handle_agent_data puts *)
(* messages together from whatever chunks the server makes of the stream.  *)
(* The two ends, of streams in opposite directions in the program, are     *)
(* joined here; the server between them cuts the bytes anew, and the agent *)
(* may go away in the middle of a message and come back.                   *)
(*                                                                         *)
(* A byte is a pair: the number of its message and its place in it, header *)
(* included.                                                               *)
(***************************************************************************)
EXTENDS Integers, Sequences, SequencesExt, FiniteSetsExt

CONSTANTS
  Header,      \* sizeof(VDAgentMessage)
  MaxData,     \* VD_AGENT_MAX_DATA_SIZE
  PieceSizes,  \* the sizes of the pieces of a message
  MaxPieces,   \* bound: pieces of a message
  MaxMessages  \* bound: messages queued

FramingAssumption ==
  /\ Header \in Nat \ {0} /\ MaxData \in Nat
  /\ MaxData > Header  \* the static assertion of agent_msg_queue_many
  /\ PieceSizes \subseteq Nat /\ MaxPieces \in Nat /\ MaxMessages \in Nat

VARIABLES
  sizes,    \* the data size of each message queued so far
  pieces,   \* agent_msg_queue_many: what its second loop has yet to copy,
  size,     \* the data it has yet to copy,
  out, paysize,  \* the chunk it fills, and the room left in it
  queue,    \* agent_msg_queue
  stream,   \* the bytes in the server
  agent_msg, agent_msg_pos, agent_msg_data,  \* the receiver
  data,     \* the rest of the AGENT_DATA message it handles
  handled,  \* the messages given to main_agent_handle_msg: header and data
  skipped   \* the messages lost with an agent

sendVars == <<sizes, pieces, size, out, paysize>>
recvVars == <<agent_msg, agent_msg_pos, agent_msg_data, data, handled, skipped>>
vars == <<sendVars, queue, stream, recvVars>>

MaxSize == MaxPieces * Max(PieceSizes)
Byte == (1 .. MaxMessages) \X (1 .. Header + MaxSize)
NoChunk == <<>>

TypeOK ==
  /\ sizes \in Seq(0 .. MaxSize) /\ pieces \in Seq(0 .. Max(PieceSizes))
  /\ size \in 0 .. MaxSize
  /\ out \in Seq(Byte) /\ paysize \in 0 .. MaxData
  /\ queue \in Seq(Seq(Byte)) /\ stream \in Seq(Byte)
  /\ agent_msg \in Seq(Byte) /\ Len(agent_msg) <= Header
  /\ agent_msg_pos \in 0 .. Header + MaxSize
  /\ agent_msg_data \in Seq(Byte) /\ data \in Seq(Byte)
  /\ \A i \in DOMAIN queue : Len(queue[i]) \in 1 .. MaxData

Init ==
  /\ sizes = <<>> /\ pieces = <<>> /\ size = 0 /\ out = NoChunk /\ paysize = 0
  /\ queue = <<>> /\ stream = <<>>
  /\ agent_msg = <<>> /\ agent_msg_pos = 0 /\ agent_msg_data = <<>> /\ data = <<>>
  /\ handled = <<>> /\ skipped = {}

-----------------------------------------------------------------------------
BytesOf(m, from, n) == [k \in 1 .. n |-> <<m, from + k>>]
Sending == pieces # <<>>
Lesser(x, y) == IF x < y THEN x ELSE y

(* agent_msg_queue_many: the header opens the first chunk, which is queued *)
(* at once when the header is all there is.                                *)
DataOnly(total) == Lesser(MaxData, total) + Header
FirstChunk(total) == Lesser(MaxData, total + Header)
Begin ==
  /\ ~Sending /\ Len(sizes) < MaxMessages
  /\ \E n \in 1 .. MaxPieces : \E ps \in [1 .. n -> PieceSizes] :
       LET total == FoldLeft(LAMBDA x, y : x + y, 0, ps)
           room == FirstChunk(total) - Header
           head == BytesOf(Len(sizes) + 1, 0, Header)
       IN /\ sizes' = Append(sizes, total) /\ size' = total
          /\ pieces' = IF total = 0 THEN <<>> ELSE ps
          /\ paysize' = room
          /\ queue' = IF room = 0 THEN Append(queue, head) ELSE queue
          /\ out' = IF room = 0 THEN NoChunk ELSE head
  /\ UNCHANGED <<stream, recvVars>>

(* An iteration of its inner loop, or the end of a piece. *)
CopyPiece ==
  /\ Sending
  /\ LET s == Head(pieces)
         fresh == out = NoChunk
         room == IF fresh THEN Lesser(MaxData, size) ELSE paysize
         mins == Lesser(room, s)
         m == Len(sizes)
         chunk == out \o BytesOf(m, Header + sizes[m] - size, mins)
     IN IF s = 0
          THEN pieces' = Tail(pieces) /\ UNCHANGED <<size, out, paysize, queue>>
          ELSE /\ size' = size - mins
               /\ pieces' = IF size' = 0 THEN <<>> ELSE <<s - mins>> \o Tail(pieces)
               /\ paysize' = room - mins
               /\ queue' = IF room = mins THEN Append(queue, chunk) ELSE queue
               /\ out' = IF room = mins THEN NoChunk ELSE chunk
  /\ UNCHANGED <<sizes, stream, recvVars>>

(* The server takes a chunk, and sends bytes on as it likes. *)
ServerTakes == /\ queue # <<>>
               /\ stream' = stream \o Head(queue) /\ queue' = Tail(queue)
               /\ UNCHANGED <<sendVars, recvVars>>

-----------------------------------------------------------------------------
(* main_handle_agent_data: an AGENT_DATA message; one that holds exactly a *)
(* message, when none is in the making, is handled in place.               *)
SizeIn(header) == sizes[header[1][1]]
WellFormed(header) == /\ Len(header) = Header
                      /\ \A k \in 1 .. Header : header[k] = <<header[1][1], k>>
Handle(header, bytes) == handled' = Append(handled, [head |-> header, data |-> bytes])

Receive ==
  /\ data = <<>> /\ stream # <<>>
  /\ \E n \in 1 .. Lesser(Len(stream), MaxData) :
       LET msg == SubSeq(stream, 1, n) IN
       /\ stream' = SubSeq(stream, n + 1, Len(stream))
       /\ IF /\ agent_msg_pos = 0
             /\ n >= Header /\ SizeIn(msg) + Header = n
            THEN /\ Handle(SubSeq(msg, 1, Header), SubSeq(msg, Header + 1, n))
                 /\ UNCHANGED data
            ELSE data' = msg /\ UNCHANGED handled
  /\ UNCHANGED <<sendVars, queue, agent_msg, agent_msg_pos, agent_msg_data, skipped>>

(* main_handle_agent_data_msg: bytes for the header, then for the data, and*)
(* the message is handled when both are complete.                          *)
WholeHeader == Header
HeaderRoom == Header - agent_msg_pos
TakeHeader ==
  IF agent_msg_pos < Header THEN Lesser(HeaderRoom, Len(data)) ELSE 0
DataMsg ==
  /\ data # <<>>
  /\ LET n == TakeHeader
         header == agent_msg \o SubSeq(data, 1, n)
         total == Header + SizeIn(header)
         pos == agent_msg_pos + n
         k == IF pos < Header THEN 0 ELSE Lesser(total - pos, Len(data) - n)
         body == agent_msg_data \o SubSeq(data, n + 1, n + k)
         whole == pos >= Header /\ pos + k = total
     IN /\ data' = SubSeq(data, n + k + 1, Len(data))
        /\ IF whole
             THEN /\ Handle(header, body)
                  /\ agent_msg_pos' = 0 /\ agent_msg_data' = <<>>
                  /\ agent_msg' = <<>>
             ELSE /\ agent_msg_pos' = pos + k /\ agent_msg_data' = body
                  /\ agent_msg' = header
                  /\ UNCHANGED handled
  /\ UNCHANGED <<sendVars, queue, stream, skipped>>

(* spice_main_channel_reset_agent: the server drops what it has of the old *)
(* agent's stream, and the message in the making is forgotten.             *)
ForgetNothing == UNCHANGED <<agent_msg_pos, agent_msg, agent_msg_data>>
Forget == agent_msg_pos' = 0 /\ agent_msg' = <<>> /\ agent_msg_data' = <<>>
AgentGone ==
  /\ ~Sending /\ data = <<>> /\ queue = <<>>
  /\ stream' = <<>> /\ Forget
  /\ skipped' = skipped \union (1 .. Len(sizes) \ {handled[i].head[1][1] : i \in DOMAIN handled})
  /\ UNCHANGED <<sendVars, queue, data, handled>>

Next == Begin \/ CopyPiece \/ ServerTakes \/ Receive \/ DataMsg \/ AgentGone

Spec == Init /\ [][Next]_vars

-----------------------------------------------------------------------------
(* The messages handled are messages that were queued, whole, in the order *)
(* they were queued, none twice, and none missing but those lost with an   *)
(* agent (main_handle_agent_data_msg and its shortcut).                    *)
Whole(h) == /\ WellFormed(h.head)
            /\ h.data = BytesOf(h.head[1][1], Header, SizeIn(h.head))
MessagesRebuilt ==
  /\ \A i \in DOMAIN handled : Whole(handled[i])
  /\ \A i \in 1 .. Len(handled) - 1 :
       LET a == handled[i].head[1][1]
           b == handled[i + 1].head[1][1]
       IN a < b /\ \A m \in a + 1 .. b - 1 : m \in skipped

(* Cutting wastes no chunk, for the agent's tokens count chunks: when a    *)
(* message is queued whole, all of its chunks but the last are full, and   *)
(* nothing is left behind in an unfinished chunk (agent_msg_queue_many).   *)
ChunksFull ==
  /\ ~Sending => out = NoChunk
  /\ \A i \in DOMAIN queue :
       LET last == Last(queue[i])
       IN Len(queue[i]) = MaxData \/ last[2] = Header + sizes[last[1]]
=============================================================================
