---------------------------- MODULE PortForward ----------------------------
(***************************************************************************)
(* Ports forwarded between the client and the guest over the agent stream  *)
(* of the main channel (port-forward.c).  A Connection is shared by the    *)
(* table of the forwarder, its connect or read operation and its write     *)
(* operation, one reference each; both directions have a window, that the  *)
(* acknowledgements of the other end open again.                           *)
(*                                                                         *)
(* The callbacks of the client and the handlers of the agent's messages    *)
(* run one at a time.  The agent and the programs at the two ends of a     *)
(* connection are external; the agent behaves like the client's code, and  *)
(* gives every connection an id of its own, as generate_connection_id does *)
(* (so handle_accepted never finds one that exists already).               *)
(***************************************************************************)
EXTENDS Integers, Sequences, FiniteSets, SequencesExt

CONSTANTS
  Local,       \* connections that a program of the client's side opens
  Guest,       \* connections that a program of the guest opens
  WINDOW_SIZE, \* bytes
  Bytes,       \* bound: bytes each program sends over its connection
  MaxRead,     \* bound: bytes of one read, of one DATA message
  MaxConns,    \* bound: connections made
  MaxAssoc,    \* bound: calls that associate the port
  MaxQueue,    \* bound: messages on their way, when one more is sent unasked
  MaxLosses    \* bound: times the agent goes away

Conns == Local \union Guest

PortForwardAssumption ==
  /\ Local \intersect Guest = {}
  /\ WINDOW_SIZE \in Nat /\ WINDOW_SIZE >= 2
  /\ Bytes \in Nat /\ MaxRead \in Nat \ {0}
  /\ MaxConns \in Nat /\ MaxAssoc \in Nat
  /\ MaxQueue \in Nat /\ MaxLosses \in Nat

VARIABLES
  connections,  \* the table, by id
  conn,         \* the structs; refs = 0 before the first and after the last use
  made,         \* the ids already used
  assoc,        \* remote_assocs: the one remote port is associated
  accepting,    \* an accept of the listener is under way
  toAgent, toClient,   \* the agent stream, in order
  progs,        \* bytes read from, and written to, the client's programs
  agent,        \* the guest's side of each connection
  state, listening,    \* the agent runs, it listens on the remote port
  assocs, losses

cvars == <<connections, conn, made, assoc, accepting, progs>>
avars == <<agent, state, listening>>
vars == <<cvars, toAgent, toClient, avars, assocs, losses>>

Unused == [refs |-> 0, cancelled |-> FALSE, connecting |-> FALSE, op |-> "none",
           write_buffer |-> <<>>, writing |-> FALSE, data_sent |-> 0,
           data_received |-> 0, ack_interval |-> 0]

Guestless(st) == [st |-> st, sent |-> 0, acked |-> 0, got |-> 0, owes |-> 0]

Stretch(from, n) == [k \in 1 .. n |-> from + k]

(* The commands of the agent protocol that concern a connection or a port. *)
Msg(command, i, size) == [command |-> command, id |-> i, size |-> size]
Data(i, bytes) == [command |-> "DATA", id |-> i, data |-> bytes]
Plain(command) == [command |-> command]

TypeOK ==
  /\ connections \subseteq made /\ made \subseteq Conns
  /\ conn \in [Conns ->
       [refs : 0 .. 3, cancelled : BOOLEAN, connecting : BOOLEAN,
        op : {"none", "connect", "read"},
        write_buffer : Seq(Seq(1 .. Bytes)), writing : BOOLEAN,
        data_sent : 0 .. WINDOW_SIZE - 1 + MaxRead,
        data_received : 0 .. WINDOW_SIZE, ack_interval : 0 .. WINDOW_SIZE]]
  /\ assoc \in BOOLEAN /\ accepting \in BOOLEAN
  /\ progs \in [Conns -> [read : 0 .. Bytes, written : Seq(1 .. Bytes)]]
  /\ agent \in [Conns -> [st : {"none", "asked", "open", "closed"},
                          sent : 0 .. Bytes, acked : 0 .. Bytes,
                          got : 0 .. Bytes, owes : 0 .. WINDOW_SIZE]]
  /\ state \in {"up", "down", "starting"} /\ listening \in BOOLEAN
  /\ assocs \in 0 .. MaxAssoc /\ losses \in 0 .. MaxLosses

Init ==
  /\ connections = {} /\ conn = [i \in Conns |-> Unused] /\ made = {}
  /\ assoc = FALSE /\ accepting = FALSE
  /\ toAgent = <<>> /\ toClient = <<>>
  /\ progs = [i \in Conns |-> [read |-> 0, written |-> <<>>]]
  /\ agent = [i \in Conns |-> Guestless("none")]
  /\ state = "up" /\ listening = FALSE
  /\ assocs = 0 /\ losses = 0

-----------------------------------------------------------------------------
(* send_command queues the message for the agent. *)
Send(m) == toAgent' = Append(toAgent, m)
Put(i, c) == conn' = [conn EXCEPT ![i] = c]

(* unref_connection; the last one frees the struct and closes the socket. *)
Unref(c) == [c EXCEPT !.refs = @ - 1]

(* close_connection_no_notify: the operations under way are cancelled and  *)
(* the table drops its reference, if it has one.                           *)
DropFromTable(i) == connections' = connections \ {i}
Closed(i, c) == IF i \in connections THEN [Unref(c) EXCEPT !.cancelled = TRUE]
                                     ELSE [c EXCEPT !.cancelled = TRUE]

(* close_connection, called by the end of an operation, then its own unref *)
CloseAndUnref(i, c) ==
  /\ Send(Msg("CLOSE", i, 0)) /\ DropFromTable(i) /\ Put(i, Unref(Closed(i, c)))

program_read_unheld(c) == [c EXCEPT !.op = "read"]
program_read(c) == [c EXCEPT !.op = "read", !.refs = @ + 1]

-----------------------------------------------------------------------------
(* The client.  Bounds: ports are associated as long as connections are    *)
(* made, and there is one kind of port at a time.                          *)
MoreConns == Cardinality(made) < MaxConns

(* port_forwarder_associate_remote and its inverse; an association that    *)
(* exists is replaced, with a SHUTDOWN first.                              *)
AssociateRemote ==
  /\ MoreConns /\ ~accepting /\ Len(toAgent) < MaxQueue
  /\ assocs < MaxAssoc /\ assocs' = assocs + 1
  /\ assoc' = TRUE
  /\ toAgent' = toAgent \o (IF assoc THEN <<Plain("SHUTDOWN")>> ELSE <<>>)
                        \o <<Plain("LISTEN")>>
  /\ UNCHANGED <<connections, conn, made, accepting, progs, toClient, avars,
                 losses>>

DisassociateRemote ==
  /\ MoreConns /\ Len(toAgent) < MaxQueue
  /\ assoc /\ assoc' = FALSE /\ Send(Plain("SHUTDOWN"))
  /\ UNCHANGED <<connections, conn, made, accepting, progs, toClient, avars,
                 assocs, losses>>

(* port_forwarder_associate_local: an accept under way is replaced, which  *)
(* changes nothing here.                                                   *)
AssociateLocal ==
  /\ MoreConns /\ ~assoc /\ assocs = 0
  /\ ~accepting /\ accepting' = TRUE
  /\ UNCHANGED <<connections, conn, made, assoc, progs, toAgent, toClient,
                 avars, assocs, losses>>

(* listener_accept_callback: the connection waits for the agent's ACK, and *)
(* the next accept starts; after an error none does.                       *)
AcceptFails ==
  /\ MoreConns /\ accepting /\ accepting' = FALSE
  /\ UNCHANGED <<connections, conn, made, assoc, progs, toAgent, toClient,
                 avars, assocs, losses>>

Fresh(i) == /\ i \notin made /\ agent[i].st = "none"
            /\ Cardinality({j \in Conns : j \in made \/ agent[j].st # "none"})
                 < MaxConns
Accept(i) ==
  /\ accepting /\ i \in Local /\ Fresh(i)
  /\ made' = made \union {i} /\ connections' = connections \union {i}
  /\ Put(i, [Unused EXCEPT !.refs = 1, !.connecting = TRUE,
                           !.ack_interval = WINDOW_SIZE \div 2])
  /\ Send(Msg("CONNECT", i, WINDOW_SIZE \div 2))
  /\ UNCHANGED <<assoc, accepting, progs, toClient, avars, assocs, losses>>

(* connection_connect_callback.  The reference of the connect becomes that *)
(* of the read.                                                            *)
Connected(i, ok) ==
  LET c == [conn[i] EXCEPT !.op = "none"] IN
  /\ conn[i].op = "connect"
  /\ \/ /\ c.cancelled
        /\ Put(i, Unref(c)) /\ UNCHANGED <<connections, toAgent>>
     \/ /\ ~c.cancelled /\ ~ok
        /\ CloseAndUnref(i, c)
     \/ /\ ~c.cancelled /\ ok
        /\ Put(i, Unref(program_read([c EXCEPT !.connecting = FALSE])))
        /\ Send(Msg("ACK", i, WINDOW_SIZE \div 2))
        /\ UNCHANGED connections
  /\ UNCHANGED <<made, assoc, accepting, progs, toClient, avars, assocs, losses>>

(* connection_read_callback: the read was cancelled, ... *)
ReadCancelled(i) ==
  LET c == conn[i] IN
  /\ c.op = "read" /\ c.cancelled
  /\ Put(i, Unref([c EXCEPT !.op = "none"]))
  /\ UNCHANGED <<connections, made, assoc, accepting, progs, toAgent, toClient,
                 avars, assocs, losses>>

(* ... failed or came to the end, ... *)
ReadEnds(i) ==
  LET c == conn[i] IN
  /\ c.op = "read" /\ ~c.cancelled
  /\ CloseAndUnref(i, [c EXCEPT !.op = "none"])
  /\ UNCHANGED <<made, assoc, accepting, progs, toClient, avars, assocs, losses>>

(* ... or gave some bytes: they are sent, and the next read starts unless  *)
(* the window is full.                                                     *)
InWindow(sent) == sent < WINDOW_SIZE
Read(i) ==
  LET c == conn[i] IN
  /\ c.op = "read" /\ ~c.cancelled /\ Len(toAgent) < MaxQueue
  /\ \E n \in 1 .. MaxRead :
       LET sent == c.data_sent + n IN
       /\ progs[i].read + n <= Bytes
       /\ progs' = [progs EXCEPT ![i].read = @ + n]
       /\ Send(Data(i, Stretch(progs[i].read, n)))
       /\ Put(i, IF InWindow(sent)
                   THEN [c EXCEPT !.data_sent = sent]
                   ELSE Unref([c EXCEPT !.data_sent = sent, !.op = "none"]))
  /\ UNCHANGED <<connections, made, assoc, accepting, toClient, avars, assocs,
                 losses>>

(* connection_write_callback: the write failed, ... *)
WriteFails(i) ==
  LET c == conn[i] IN
  /\ c.writing
  /\ CloseAndUnref(i, [c EXCEPT !.writing = FALSE])
  /\ UNCHANGED <<made, assoc, accepting, progs, toClient, avars, assocs, losses>>

(* ... or wrote the first n bytes of the buffer at the head; the rest goes *)
(* back there, and the next write starts, or the reference is dropped.  A  *)
(* struct that this frees is used once more, to see if an ACK is due: then *)
(* one may or may not be sent.                                             *)
RestAtTail(buffer, n) ==
  LET rest == SubSeq(Head(buffer), n + 1, Len(Head(buffer)))
  IN Tail(buffer) \o (IF rest = <<>> THEN <<>> ELSE <<rest>>)
Rest(buffer, n) ==
  LET rest == SubSeq(Head(buffer), n + 1, Len(Head(buffer)))
  IN (IF rest = <<>> THEN <<>> ELSE <<rest>>) \o Tail(buffer)
NeverReset(received, acks) == received
AfterAck(received, acks) == IF acks THEN 0 ELSE received
Written(i) ==
  LET c == conn[i] IN
  /\ c.writing
  /\ \E n \in 1 .. Len(Head(c.write_buffer)) :
       LET left == Rest(c.write_buffer, n)
           received == c.data_received + n
           w == [c EXCEPT !.write_buffer = left, !.writing = left # <<>>]
           held == IF left = <<>> THEN Unref(w) ELSE w
       IN /\ progs' = [progs EXCEPT ![i].written =
                          @ \o SubSeq(Head(c.write_buffer), 1, n)]
          /\ \E acks \in BOOLEAN :
               /\ held.refs > 0 => acks = (received >= c.ack_interval)
               /\ IF acks THEN Send(Msg("ACK", i, received)) ELSE UNCHANGED toAgent
               /\ Put(i, [held EXCEPT !.data_received = AfterAck(received, acks)])
  /\ UNCHANGED <<connections, made, assoc, accepting, toClient, avars, assocs,
                 losses>>

-----------------------------------------------------------------------------
(* The client: port_forwarder_handle_message. *)
Receive(command) ==
  /\ toClient # <<>> /\ Head(toClient).command = command
  /\ toClient' = Tail(toClient)
  /\ UNCHANGED <<accepting, avars, assocs, losses>>

handle_accepted ==
  /\ Receive("ACCEPTED")
  /\ LET i == Head(toClient).id IN
     IF assoc
       THEN /\ Put(i, [Unused EXCEPT !.refs = 2, !.connecting = TRUE,
                                     !.op = "connect",
                                     !.ack_interval = Head(toClient).size])
            /\ connections' = connections \union {i}
            /\ made' = made \union {i} /\ UNCHANGED toAgent
       ELSE Send(Msg("CLOSE", i, 0)) /\ UNCHANGED <<conn, connections, made>>
  /\ UNCHANGED <<assoc, progs>>

(* The data of a connection that does not exist or is still connecting is  *)
(* dropped; a write starts unless one is under way.                        *)
handle_data ==
  /\ Receive("DATA")
  /\ LET i == Head(toClient).id
         c == conn[i]
         buffer == Append(c.write_buffer, Head(toClient).data)
     IN IF i \in connections /\ ~c.connecting
          THEN Put(i, [c EXCEPT !.write_buffer = buffer, !.writing = TRUE,
                                !.refs = IF Len(buffer) = 1 THEN @ + 1 ELSE @])
          ELSE UNCHANGED conn
  /\ UNCHANGED <<connections, made, assoc, progs, toAgent>>

handle_close ==
  /\ Receive("CLOSE")
  /\ LET i == Head(toClient).id IN
     IF i \in connections
       THEN Put(i, Closed(i, conn[i])) /\ DropFromTable(i) /\ UNCHANGED toAgent
       ELSE Send(Msg("CLOSE", i, 0)) /\ UNCHANGED <<conn, connections>>
  /\ UNCHANGED <<made, assoc, progs>>

(* The first ACK of a connection accepted here opens it; a later one starts*)
(* the read again that a full window stopped.                              *)
Resumes(before, after) == after < WINDOW_SIZE /\ before >= WINDOW_SIZE
handle_ack ==
  /\ Receive("ACK")
  /\ LET i == Head(toClient).id
         c == conn[i]
         sent == c.data_sent - Head(toClient).size
     IN CASE i \in connections /\ c.connecting ->
               Put(i, program_read([c EXCEPT !.connecting = FALSE,
                                      !.ack_interval = Head(toClient).size]))
          [] i \in connections /\ ~c.connecting ->
               Put(i, IF Resumes(c.data_sent, sent)
                        THEN program_read([c EXCEPT !.data_sent = sent])
                        ELSE [c EXCEPT !.data_sent = sent])
          [] OTHER -> UNCHANGED conn
  /\ UNCHANGED <<connections, made, assoc, progs, toAgent>>

(* port_forwarder_agent_disconnected: the tables are emptied; a read or a  *)
(* connect under way is not cancelled.                                     *)
agent_disconnected ==
  /\ Receive("GONE")
  /\ assoc' = FALSE /\ connections' = {}
  /\ conn' = [i \in Conns |-> IF i \in connections THEN Unref(conn[i]) ELSE conn[i]]
  /\ UNCHANGED <<made, progs, toAgent>>

(* The main channel answers a new agent with AGENT_START, which overtakes  *)
(* the messages it could not send before.                                  *)
agent_start ==
  /\ Receive("CONNECTED")
  /\ \E k \in 0 .. Len(toAgent) :
       toAgent' = SubSeq(toAgent, 1, k) \o <<Plain("START")>>
                    \o SubSeq(toAgent, k + 1, Len(toAgent))
  /\ UNCHANGED <<connections, conn, made, assoc, progs>>

-----------------------------------------------------------------------------
(* The agent, external: it does what the client's code does. *)
Reply(m) == toClient' = Append(toClient, m)
AgentEnd(i, a) == agent' = [agent EXCEPT ![i] = a]
Quiet == UNCHANGED <<agent, toClient>>

AgentAccepts(i) ==
  /\ state = "up" /\ listening /\ i \in Guest /\ Fresh(i)
  /\ AgentEnd(i, [agent[i] EXCEPT !.st = "asked"])
  /\ Reply(Msg("ACCEPTED", i, WINDOW_SIZE \div 2))
  /\ UNCHANGED <<cvars, toAgent, state, listening, assocs, losses>>

AgentSends(i) ==
  LET a == agent[i] IN
  /\ state = "up" /\ Len(toClient) < MaxQueue
  /\ a.st = "open" /\ a.sent - a.acked < WINDOW_SIZE
  /\ a.sent < Bytes
  /\ LET n == IF a.sent + MaxRead <= Bytes THEN MaxRead ELSE Bytes - a.sent
     IN /\ AgentEnd(i, [a EXCEPT !.sent = @ + n])
        /\ Reply(Data(i, Stretch(a.sent, n)))
  /\ UNCHANGED <<cvars, toAgent, state, listening, assocs, losses>>

AgentCloses(i) ==
  /\ state = "up" /\ agent[i].st \in {"asked", "open"}
  /\ AgentEnd(i, Guestless("closed"))
  /\ Reply(Msg("CLOSE", i, 0))
  /\ UNCHANGED <<cvars, toAgent, state, listening, assocs, losses>>

AgentConnects(m) ==
  \/ /\ AgentEnd(m.id, [agent[m.id] EXCEPT !.st = "open"])
     /\ Reply(Msg("ACK", m.id, WINDOW_SIZE \div 2))
  \/ /\ AgentEnd(m.id, Guestless("closed"))
     /\ Reply(Msg("CLOSE", m.id, 0))

AgentTakesData(m) ==
  LET a == agent[m.id]
      owes == a.owes + Len(m.data)
      b == [a EXCEPT !.got = @ + Len(m.data)]
  IN IF owes >= WINDOW_SIZE \div 2
       THEN AgentEnd(m.id, [b EXCEPT !.owes = 0]) /\ Reply(Msg("ACK", m.id, owes))
       ELSE AgentEnd(m.id, [b EXCEPT !.owes = owes]) /\ UNCHANGED toClient

(* The server drops what it gets for an agent before AGENT_START. *)
AgentReceives ==
  LET m == Head(toAgent) IN
  /\ toAgent # <<>> /\ toAgent' = Tail(toAgent)
  /\ state' = IF m.command = "START" /\ state = "starting" THEN "up" ELSE state
  /\ IF state # "up" THEN Quiet /\ UNCHANGED listening
     ELSE CASE m.command = "LISTEN" -> listening' = TRUE /\ Quiet
            [] m.command = "SHUTDOWN" -> listening' = FALSE /\ Quiet
            [] m.command = "CONNECT" -> AgentConnects(m) /\ UNCHANGED listening
            [] m.command = "START" -> Quiet /\ UNCHANGED listening
            [] OTHER ->
                 /\ UNCHANGED listening
                 /\ LET a == agent[m.id] IN
                    CASE m.command = "ACK" /\ a.st = "asked" ->
                           /\ AgentEnd(m.id, [a EXCEPT !.st = "open"])
                           /\ UNCHANGED toClient
                      [] m.command = "ACK" /\ a.st = "open" ->
                           /\ AgentEnd(m.id, [a EXCEPT !.acked = @ + m.size])
                           /\ UNCHANGED toClient
                      [] m.command = "DATA" /\ a.st = "open" -> AgentTakesData(m)
                      [] m.command = "CLOSE" /\ a.st # "none" ->
                           /\ AgentEnd(m.id, Guestless("closed"))
                           /\ UNCHANGED toClient
                      [] OTHER -> Quiet
  /\ UNCHANGED <<cvars, assocs, losses>>

AgentDies ==
  /\ state = "up" /\ losses < MaxLosses /\ losses' = losses + 1
  /\ state' = "down" /\ listening' = FALSE
  /\ agent' = [i \in Conns |-> IF agent[i].st = "none" THEN agent[i]
                               ELSE Guestless("closed")]
  /\ Reply(Plain("GONE"))
  /\ UNCHANGED <<cvars, toAgent, assocs>>

(* A new agent knows no connection; it matters as long as some are made. *)
AgentStarts ==
  /\ MoreConns /\ state = "down" /\ state' = "starting" /\ Reply(Plain("CONNECTED"))
  /\ UNCHANGED <<cvars, toAgent, agent, listening, assocs, losses>>

-----------------------------------------------------------------------------
Handle == handle_accepted \/ handle_data \/ handle_close \/ handle_ack
            \/ agent_disconnected \/ agent_start

Callbacks(i) == \/ \E ok \in BOOLEAN : Connected(i, ok)
                \/ ReadCancelled(i) \/ Read(i) \/ Written(i)

Next == \/ AssociateRemote \/ DisassociateRemote \/ AssociateLocal
        \/ AcceptFails \/ Handle
        \/ \E i \in Conns : \/ Accept(i) \/ Callbacks(i)
                            \/ ReadEnds(i) \/ WriteFails(i)
        \/ AgentReceives \/ AgentDies \/ AgentStarts
        \/ \E i \in Conns : AgentAccepts(i) \/ AgentSends(i) \/ AgentCloses(i)

(* GLib runs the callbacks of what is ready, the programs send and read    *)
(* what they have to, and the agent serves its stream and its connections. *)
Fairness ==
  /\ WF_vars(Handle) /\ WF_vars(AgentReceives)
  /\ \A i \in Conns : /\ WF_vars(Callbacks(i)) /\ WF_vars(Read(i))
                      /\ WF_vars(Written(i)) /\ WF_vars(AgentSends(i))

Spec == Init /\ [][Next]_vars /\ Fairness

-----------------------------------------------------------------------------
(* A connection is freed exactly when the table and its operations let go  *)
(* of it: no operation ends on a freed struct and none is leaked, whatever *)
(* closes the connection and how often (refs in every handler).  What the  *)
(* last write does with the struct after its own unref is in Written.      *)
Operations(c) == (IF c.op # "none" THEN 1 ELSE 0) + (IF c.writing THEN 1 ELSE 0)
RefExact ==
  \A i \in Conns :
    conn[i].refs = Operations(conn[i]) + (IF i \in connections THEN 1 ELSE 0)

(* The client's program gets what the guest's program sent, from its start,*)
(* nothing twice, left out or out of order, over partial writes, queued    *)
(* chunks and messages that come before the connection is ready            *)
(* (handle_data, connection_write_callback).                               *)
InFlight(i) ==
  FlattenSeq([k \in 1 .. Len(toClient) |->
                IF toClient[k].command = "DATA" /\ toClient[k].id = i
                  THEN toClient[k].data ELSE <<>>])
Pipe(i) == progs[i].written \o FlattenSeq(conn[i].write_buffer) \o InFlight(i)
InOrder ==
  \A i \in Conns :
    /\ progs[i].written = Stretch(0, Len(progs[i].written))
    /\ i \in connections /\ agent[i].st = "open"
         => Pipe(i) = Stretch(0, agent[i].sent)

(* The windows never close for good: over a connection the agent has open, *)
(* all the bytes go through in both directions, or both sides close it     *)
(* (data_sent and data_received, ack_interval, WINDOW_SIZE).               *)
Delivered(i) == /\ agent[i].got = Bytes /\ Len(progs[i].written) = Bytes
                /\ i \in connections
StreamsFlow ==
  \A i \in Conns : (agent[i].st = "open" /\ i \in connections)
                    ~> (agent[i].st # "open" \/ Delivered(i))
=============================================================================
