------------------------------- MODULE Webdav -------------------------------
(***************************************************************************)
(* Folder sharing: the port channel's events, the stream the coroutine     *)
(* feeds (vmcstream.c), and the webdav channel (channel-webdav.c), which   *)
(* takes apart the frames the guest sends for its clients, gives each its  *)
(* pipe to the WebDAV server, and puts the answers into one output queue.  *)
(*                                                                         *)
(* A frame is three reads: client, size, data; a message of the guest ends *)
(* where a read ends.  A pipe and its callbacks have default priority, and *)
(* go before idles; the WebDAV server and the guest are external.          *)
(***************************************************************************)
EXTENDS Integers, Sequences, FiniteSets

CONSTANTS
  Ids, Objects, None, \* client numbers, Client structs
  Fallible,   \* the port closes while data is written to a client, and
              \* soup_server_accept_iostream may fail
  MaxFrames, MaxReplies, MaxCloses \* bounds

WebdavAssumption ==
  /\ None \notin Ids \union Objects /\ Fallible \in BOOLEAN
  /\ MaxFrames \in Nat /\ MaxReplies \in Nat /\ MaxCloses \in Nat

VARIABLES
  opened,    \* the port, as the channel knows it
  frames, pending, \* the guest: clients of the frames written, items to send
  co,        \* what the coroutine still has to feed
  task,      \* the read asked of the stream
  done,      \* complete_in_idle_cb
  demuxing, demux, \* as in the code
  writing,   \* the client whose pipe is written
  delivered, \* the frames written to a client
  clients,   \* the hash table
  obj,       \* of a Client: its number, its references, what goes on with it
  queue,     \* the output queue: elements, flushing, idle_id
  muxed,     \* elements written
  replies, closes

guest == <<frames, pending>>
stream == <<co, task, done>>
output == <<queue, muxed, replies>>
vars == <<opened, guest, stream, demuxing, demux, writing, delivered, clients, obj,
          output, closes>>

Reads == {"id", "size", "data"}
Item(read, v) == [read |-> read, val |-> v]
Free == [id |-> None, refs |-> 0, cancelled |-> FALSE, read |-> "none", closed |-> FALSE]
Values == Ids \union (0 .. MaxFrames)
Items == [read : Reads, val : Values]
Elements == [part : Reads, obj : Objects]

TypeOK ==
  /\ opened \in BOOLEAN /\ frames \in Seq(Ids) /\ pending \in Seq(Items)
  /\ co \in Seq(Items) /\ task \in Reads \union {"none"}
  /\ done \in Seq([read : Reads, val : Values, cancelled : BOOLEAN])
  /\ demuxing \in BOOLEAN /\ demux \in [client : Ids \union {None}, size : Nat]
  /\ writing \in Objects \union {None}
  /\ delivered \in Seq(Ids \X (1 .. MaxFrames)) /\ clients \in [Ids -> Objects \union {None}]
  /\ obj \in [Objects -> [id : Ids \union {None}, refs : 0 .. 2, cancelled : BOOLEAN,
                          read : {"none", "reading", "ready", "queued"}, closed : BOOLEAN]]
  /\ queue \in [elems : Seq(Elements), flushing : BOOLEAN, idle : BOOLEAN]
  /\ muxed \in Seq(Elements) /\ replies \in 0 .. MaxReplies /\ closes \in 0 .. MaxCloses

Init ==
  /\ opened = FALSE /\ frames = <<>> /\ pending = <<>>
  /\ co = <<>> /\ task = "none" /\ done = <<>>
  /\ demuxing = FALSE /\ demux = [client |-> None, size |-> 0] /\ writing = None
  /\ delivered = <<>> /\ clients = [i \in Ids |-> None] /\ obj = [o \in Objects |-> Free]
  /\ queue = [elems |-> <<>>, flushing |-> FALSE, idle |-> FALSE] /\ muxed = <<>>
  /\ replies = 0 /\ closes = 0

(***************************************************************************)
(* Pipes first: a source of default priority that is ready                 *)
(***************************************************************************)
WriteFails == writing # None /\ (~opened \/ obj[writing].closed)
ReadReady(o) == obj[o].read = "ready" \/ (obj[o].read = "reading" /\ obj[o].cancelled)
Idle == ~WriteFails /\ \A o \in Objects : ~ReadReady(o)

\* client_unref; the last reference frees the struct
Unref(f, o) == IF f[o].refs = 1 THEN [f EXCEPT ![o] = Free] ELSE [f EXCEPT ![o].refs = @ - 1]
\* remove_client: once only, the number may belong to another client by then
Removed(o) == obj[o].cancelled
RemovedFrom(o) == IF Removed(o) THEN clients ELSE [clients EXCEPT ![obj[o].id] = None]
RemoveClient(f, o) ==
  IF Removed(o) THEN f ELSE Unref([f EXCEPT ![o].cancelled = TRUE], o)

(***************************************************************************)
(* The guest and the coroutine                                             *)
(***************************************************************************)
GuestWrites(c, size) ==
  /\ Len(frames) < MaxFrames /\ frames' = Append(frames, c)
  /\ LET n == IF size THEN Len(frames') ELSE 0 IN
       pending' = pending \o <<Item("id", c), Item("size", n)>>
                  \o (IF size THEN <<Item("data", n)>> ELSE <<>>)
  /\ UNCHANGED <<opened, stream, demuxing, demux, writing, delivered, clients, obj, output, closes>>

\* webdav_handle_data_msg
ServerSends ==
  /\ Idle /\ opened /\ co = <<>> /\ \E m \in 1 .. Len(pending) :
       co' = SubSeq(pending, 1, m) /\ pending' = SubSeq(pending, m + 1, Len(pending))
  /\ UNCHANGED <<opened, frames, task, done, demuxing, demux, writing, delivered, clients,
                 obj, output, closes>>

\* spice_vmc_input_stream_co_data: a read of nothing ends with any data
CoFeeds ==
  /\ co # <<>> /\ task # "none"
  /\ LET none == task = "data" /\ demux.size = 0
         got == IF none THEN 0 ELSE Head(co).val
     IN /\ done' = Append(done, [read |-> task, val |-> got, cancelled |-> FALSE])
        /\ co' = IF none THEN co ELSE Tail(co)
  /\ task' = "none"
  /\ UNCHANGED <<opened, guest, demuxing, demux, writing, delivered, clients, obj, output, closes>>

(***************************************************************************)
(* Taking frames apart                                                     *)
(***************************************************************************)
\* start_demux, with a cancellable that is cancelled once the port is closed:
\* the read ends before it begins, and demuxing stays.
Demux ==
  /\ demuxing' = TRUE
  /\ task' = IF task = "none" /\ opened THEN "id" ELSE task
\* demux_to_client; the end of an empty frame is demux_to_client_finish
ToClient(o) ==
  \/ demux.size > 0 /\ writing' = o /\ UNCHANGED <<demuxing, task>>
  \/ demux.size = 0 /\ Demux /\ UNCHANGED writing
\* start_client
StartClient(o) ==
  /\ obj[o] = Free
  /\ obj' = [obj EXCEPT ![o] = [id |-> demux.client, refs |-> 2, cancelled |-> FALSE,
                                read |-> "reading", closed |-> FALSE]]
  /\ clients' = [clients EXCEPT ![demux.client] = o]
  /\ ToClient(o)

\* client_read_cb, size_read_cb, data_read_cb
ReadDone ==
  /\ Idle /\ done # <<>> /\ done' = Tail(done)
  /\ LET d == Head(done) IN
       \/ d.cancelled /\ UNCHANGED <<demuxing, demux, task, writing, clients, obj>>
       \/ /\ ~d.cancelled /\ d.read = "id"
          /\ demux' = [demux EXCEPT !.client = d.val] /\ task' = "size"
          /\ UNCHANGED <<demuxing, writing, clients, obj>>
       \/ /\ ~d.cancelled /\ d.read = "size"
          /\ demux' = [demux EXCEPT !.size = d.val] /\ task' = "data"
          /\ UNCHANGED <<demuxing, writing, clients, obj>>
       \/ /\ ~d.cancelled /\ d.read = "data" /\ UNCHANGED demux
          /\ LET o == clients[demux.client] IN
               \/ o # None /\ ToClient(o) /\ UNCHANGED <<clients, obj>>
               \/ o = None /\ \E n \in Objects : StartClient(n)
               \/ o = None /\ Fallible /\ UNCHANGED <<demuxing, task, writing, clients, obj>>
  /\ UNCHANGED <<opened, guest, co, delivered, output, closes>>

\* demux_to_client_cb, demux_to_client_finish
WriteDone ==
  /\ writing # None /\ writing' = None
  /\ \/ /\ WriteFails
        /\ obj' = RemoveClient(obj, writing) /\ clients' = RemovedFrom(writing)
        /\ UNCHANGED delivered
     \/ /\ Idle
        /\ delivered' = Append(delivered, <<obj[writing].id, demux.size>>)
        /\ UNCHANGED <<clients, obj>>
  /\ Demux
  /\ UNCHANGED <<opened, guest, co, done, demux, output, closes>>

(***************************************************************************)
(* Answers                                                                 *)
(***************************************************************************)
\* The WebDAV server answers, or closes its side: a read of nothing
ServerReplies(o) ==
  /\ Idle /\ obj[o].read = "reading" /\ replies < MaxReplies /\ replies' = replies + 1
  /\ \E c \in BOOLEAN : obj' = [obj EXCEPT ![o].read = "ready", ![o].closed = c]
  /\ UNCHANGED <<opened, guest, stream, demuxing, demux, writing, delivered, clients, queue,
                 muxed, closes>>

\* server_reply_cb, output_queue_push three times
Starts(q) == q.idle \/ ~q.flushing
ServerReplyCb(o) ==
  /\ ReadReady(o)
  /\ \/ /\ obj[o].cancelled
        /\ obj' = Unref([obj EXCEPT ![o].read = "none"], o) /\ UNCHANGED queue
     \/ /\ ~obj[o].cancelled
        /\ obj' = [obj EXCEPT ![o].read = "queued"]
        /\ queue' = [queue EXCEPT
             !.elems = @ \o <<[part |-> "id", obj |-> o], [part |-> "size", obj |-> o],
                              [part |-> "data", obj |-> o]>>,
             !.idle = Starts(queue)]
  /\ UNCHANGED <<opened, guest, stream, demuxing, demux, writing, delivered, clients, muxed,
                 replies, closes>>

\* mux_pushed_cb: the answer is out, the next one is read, or the client is gone
Pushed(o) ==
  IF obj[o].closed
  THEN /\ obj' = Unref(RemoveClient([obj EXCEPT ![o].read = "none"], o), o)
       /\ clients' = RemovedFrom(o)
  ELSE /\ obj' = [obj EXCEPT ![o].read = "reading"]
       /\ UNCHANGED clients
\* output_queue_idle
OutputIdle ==
  /\ Idle /\ queue.idle
  /\ \/ /\ queue.flushing \/ queue.elems = <<>>
        /\ queue' = [queue EXCEPT !.idle = FALSE] /\ UNCHANGED <<muxed, clients, obj>>
     \/ /\ ~queue.flushing /\ queue.elems # <<>>
        /\ queue' = [queue EXCEPT !.elems = Tail(@), !.flushing = TRUE]
        /\ muxed' = Append(muxed, Head(queue.elems))
        /\ IF Head(queue.elems).part = "data" THEN Pushed(Head(queue.elems).obj)
                                              ELSE UNCHANGED <<clients, obj>>
  /\ UNCHANGED <<opened, guest, stream, demuxing, demux, writing, delivered, replies, closes>>
\* output_queue_flush_cb
Flushed(q) == [q EXCEPT !.flushing = FALSE, !.idle = TRUE]
OutputFlushed ==
  /\ queue.flushing /\ queue' = Flushed(queue)
  /\ UNCHANGED <<opened, guest, stream, demuxing, demux, writing, delivered, clients, obj,
                 muxed, replies, closes>>

(***************************************************************************)
(* port_event, an idle while the coroutine waits                           *)
(***************************************************************************)
PortOpened ==
  /\ Idle /\ co = <<>> /\ ~opened /\ opened' = TRUE
  /\ IF demuxing THEN UNCHANGED <<demuxing, task>>
     ELSE demuxing' = TRUE /\ task' = IF task = "none" THEN "id" ELSE task
  /\ UNCHANGED <<guest, co, done, demux, writing, delivered, clients, obj, output, closes>>

\* read_cancelled ends the read; one that has ended is found cancelled later.
NotCancelled == done \* a mutant
CancelledReads == [i \in DOMAIN done |-> [done[i] EXCEPT !.cancelled = TRUE]]
InTable(o) == \E i \in Ids : clients[i] = o
PortClosed ==
  /\ Idle /\ co = <<>> /\ opened /\ opened' = FALSE
  /\ Fallible \/ writing = None
  /\ closes < MaxCloses /\ closes' = closes + 1
  /\ task' = "none" /\ done' = CancelledReads /\ demuxing' = FALSE
  /\ obj' = [o \in Objects |->
               IF InTable(o) THEN Unref([obj EXCEPT ![o].cancelled = TRUE], o)[o] ELSE obj[o]]
  /\ clients' = [i \in Ids |-> None]
  /\ pending' = <<>> \* the guest starts anew
  /\ UNCHANGED <<frames, co, demux, writing, delivered, output>>

Next ==
  \/ \E c \in Ids, size \in BOOLEAN : GuestWrites(c, size)
  \/ ServerSends \/ CoFeeds \/ ReadDone \/ WriteDone
  \/ \E o \in Objects : ServerReplies(o) \/ ServerReplyCb(o)
  \/ OutputIdle \/ OutputFlushed \/ PortOpened \/ PortClosed

Spec == Init /\ [][Next]_vars

(***************************************************************************)
(* Properties                                                              *)
(***************************************************************************)
\* What a client's pipe gets is what the guest wrote for that client, in order,
\* however the port was closed and opened in between (data_read_cb, port_event).
Routed ==
  /\ \A i \in DOMAIN delivered : frames[delivered[i][2]] = delivered[i][1]
  /\ \A i, j \in DOMAIN delivered : i < j => delivered[i][2] < delivered[j][2]

\* While the port is open exactly one step of the demultiplexer is under way:
\* "the other end will be waiting on read_async() until data is fed".
OneReader ==
  opened => Cardinality({i \in DOMAIN done : ~done[i].cancelled})
            + (IF task = "none" THEN 0 ELSE 1) + (IF writing = None THEN 0 ELSE 1) = 1

\* The output is whole answers, one after the other; nothing that waits in the
\* queue is forgotten, and the data of an answer is not read over before it is out.
MuxWhole ==
  /\ LET all == muxed \o queue.elems
         at(i) == all[i].part = <<"id", "size", "data">>[1 + ((i - 1) % 3)]
     IN \A i \in DOMAIN all : at(i) /\ all[i].obj = all[i - ((i - 1) % 3)].obj
  /\ queue.elems # <<>> => queue.idle \/ queue.flushing
  /\ \A i \in DOMAIN queue.elems : obj[queue.elems[i].obj].read = "queued"

\* The client whose pipe is written has not been freed, and the table holds the
\* clients that were not removed, and those only: one that ends late never takes
\* away the new client of its number (remove_client, demux_to_client_cb).
ClientsLive ==
  /\ writing # None => obj[writing].refs > 0
  /\ \A i \in Ids : clients[i] # None =>
       obj[clients[i]].id = i /\ obj[clients[i]].refs > 0 /\ ~obj[clients[i]].cancelled
  /\ \A o \in Objects : obj[o].id # None /\ ~obj[o].cancelled => clients[obj[o].id] = o
=============================================================================
