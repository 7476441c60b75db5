----------------------------- MODULE Smartcard -----------------------------
(***************************************************************************)
(* The smartcard channel (channel-smartcard.c) and the reader manager      *)
(* (smartcard-manager.c): readers come and go, cards too; the server is    *)
(* told of one thing at a time and answers each with a VSC_Error, which    *)
(* for a reader carries the identifier the server gives it.                *)
(*                                                                         *)
(* APDUs are answered at once and change nothing here.  A reader that is   *)
(* plugged again is another reader.                                        *)
(***************************************************************************)
EXTENDS Integers, Sequences, FiniteSets, SequencesExt

CONSTANTS
  Readers,
  None,
  MaxEvents, \* bound: changes of the hardware
  MaxResets  \* bound: connections lost

SmartcardAssumption ==
  MaxEvents \in Nat /\ MaxResets \in Nat /\ None \notin Readers

VARIABLES
  present, cards, used, \* libcacard: readers, readers with a card, ever seen
  events,     \* its queue of VEvents
  monitored,  \* monitor_id # 0
  has_id,     \* readers whose identifier is not -1
  up,         \* "down", "init" while smartcard_manager_init_async runs, "up"
  pending_reader_additions, pending_reader_removals, pending_card_insertions,
  message_queue, in_flight_message,
  net,        \* serialised messages the server has not answered
  server,     \* the readers it knows, with and without a card
  before,     \* ghost: readers attached when the connection was last lost
  changes, resets

hardware == <<present, cards, used, events, changes>>
pending == <<pending_reader_additions, pending_reader_removals, pending_card_insertions>>
sending == <<message_queue, in_flight_message, net>>
past == <<before, resets>>
vars == <<hardware, monitored, has_id, up, pending, sending, server, past>>

Msg(type, r) == [type |-> type, reader |-> r]
Types == {"ReaderAdd", "ReaderRemove", "ATR", "CardRemove"}
Msgs == [type : Types, reader : Readers]
NoMsg == Msg("none", None)

TypeOK ==
  /\ present \subseteq used /\ used \subseteq Readers /\ cards \subseteq present
  /\ events \in Seq([type : {"reader+", "reader-", "card+", "card-"}, reader : Readers])
  /\ monitored \in BOOLEAN /\ up \in {"down", "init", "up"}
  /\ has_id \subseteq Readers /\ before \subseteq Readers
  /\ pending_reader_additions \in Seq(Readers)
  /\ pending_reader_removals \subseteq Readers /\ pending_card_insertions \subseteq Readers
  /\ message_queue \in Seq(Msgs) /\ in_flight_message \in Msgs \union {NoMsg}
  /\ net \in Seq(Msgs)
  /\ server \in [readers : SUBSET Readers, cards : SUBSET Readers]
  /\ changes \in 0 .. MaxEvents /\ resets \in 0 .. MaxResets

Init ==
  /\ present \in SUBSET Readers /\ used = present /\ cards \in SUBSET present
  /\ events = SetToSeq({[type |-> "reader+", reader |-> r] : r \in present})
              \o SetToSeq({[type |-> "card+", reader |-> r] : r \in cards})
  /\ monitored = FALSE /\ up = "init" /\ has_id = {}
  /\ pending_reader_additions = <<>> /\ pending_reader_removals = {}
  /\ pending_card_insertions = {} /\ message_queue = <<>> /\ in_flight_message = NoMsg
  /\ net = <<>> /\ server = [readers |-> {}, cards |-> {}]
  /\ before = {} /\ changes = 0 /\ resets = 0

(***************************************************************************)
(* The hardware, external                                                  *)
(***************************************************************************)
Change(type, r, ps, cs) ==
  /\ changes < MaxEvents /\ changes' = changes + 1
  /\ present' = ps /\ cards' = cs /\ used' = used \union {r}
  /\ events' = Append(events, [type |-> type, reader |-> r])
  /\ UNCHANGED <<monitored, has_id, up, pending, sending, server, past>>
ReaderPlugged(r) == r \notin used /\ Change("reader+", r, present \union {r}, cards)
ReaderUnplugged(r) == r \in present /\ Change("reader-", r, present \ {r}, cards \ {r})
CardInserted(r) == r \in present \ cards /\ Change("card+", r, present, cards \union {r})
CardTaken(r) == r \in cards /\ Change("card-", r, present, cards \ {r})

(***************************************************************************)
(* smartcard_message_send, smartcard_message_complete_in_flight.  The      *)
(* state of the channel is a record s while a handler runs.                *)
(***************************************************************************)
State ==
  [adds |-> pending_reader_additions, removals |-> pending_reader_removals,
   insertions |-> pending_card_insertions, queue |-> message_queue,
   flight |-> in_flight_message, net |-> net]
Becomes(s) ==
  /\ pending_reader_additions' = s.adds /\ pending_reader_removals' = s.removals
  /\ pending_card_insertions' = s.insertions /\ message_queue' = s.queue
  /\ in_flight_message' = s.flight /\ net' = s.net

message_send(s, m) ==
  IF s.flight = NoMsg THEN [s EXCEPT !.flight = m, !.net = Append(@, m)]
                      ELSE [s EXCEPT !.queue = Append(@, m)]
complete_in_flight(s) ==
  IF s.queue = <<>> THEN [s EXCEPT !.flight = NoMsg]
  ELSE [s EXCEPT !.flight = Head(s.queue), !.queue = Tail(@), !.net = Append(@, Head(s.queue))]

(***************************************************************************)
(* The callbacks of the manager's signals                                  *)
(***************************************************************************)
Known(s, r) == r \in has_id \/ Contains(s.adds, r)
reader_added_cb(s, r) ==
  IF Known(s, r) THEN s
  ELSE message_send([s EXCEPT !.adds = Append(@, r)], Msg("ReaderAdd", r))
reader_removed_cb(s, r) ==
  IF r \in has_id THEN message_send(s, Msg("ReaderRemove", r))
                  ELSE [s EXCEPT !.removals = @ \union {r}]
card_inserted_cb(s, r) ==
  IF r \in has_id THEN message_send(s, Msg("ATR", r))
                  ELSE [s EXCEPT !.insertions = @ \union {r}]
card_removed_cb(s, r) ==
  IF r \in has_id THEN message_send(s, Msg("CardRemove", r))
                  ELSE [s EXCEPT !.insertions = @ \ {r}]

\* smartcard_monitor_dispatch
Dispatch ==
  /\ monitored /\ events # <<>> /\ events' = Tail(events)
  /\ LET e == Head(events) IN
       \/ e.type = "reader+" /\ Becomes(reader_added_cb(State, e.reader))
       \/ e.type = "reader-" /\ Becomes(reader_removed_cb(State, e.reader))
       \/ e.type = "card+" /\ Becomes(card_inserted_cb(State, e.reader))
       \/ e.type = "card-" /\ Becomes(card_removed_cb(State, e.reader))
  /\ UNCHANGED <<present, cards, used, changes, monitored, has_id, up, server, past>>

\* spice_smartcard_channel_up_cb: every reader of the list, with its card
UpCb ==
  LET Tells(s, r) == LET t == reader_added_cb(s, r)
                     IN IF r \in cards THEN card_inserted_cb(t, r) ELSE t
  IN /\ up = "init" /\ up' = "up" /\ monitored' = TRUE
     /\ Becomes(FoldLeft(Tells, State, SetToSeq(present)))
     /\ UNCHANGED <<hardware, has_id, server, past>>

(***************************************************************************)
(* The server answers the oldest message; handle_smartcard_msg             *)
(***************************************************************************)
\* What follows the answer to a ReaderAdd
Attached(s, r) ==
  LET t == IF r \in s.insertions
           THEN message_send([s EXCEPT !.insertions = @ \ {r}], Msg("ATR", r)) ELSE s
  IN IF r \in t.removals
     THEN message_send([t EXCEPT !.removals = @ \ {r}], Msg("CardRemove", r)) ELSE t

ServerTakes(m) ==
  server' = CASE m.type = "ReaderAdd" -> [server EXCEPT !.readers = @ \union {m.reader}]
              [] m.type = "ReaderRemove" ->
                   [readers |-> server.readers \ {m.reader}, cards |-> server.cards \ {m.reader}]
              [] m.type = "ATR" -> [server EXCEPT !.cards = @ \union {m.reader}]
              [] m.type = "CardRemove" -> [server EXCEPT !.cards = @ \ {m.reader}]

\* The g_return_if_fail of the code are the guards on the pending additions.
Answer ==
  /\ up # "down" /\ net # <<>> /\ in_flight_message # NoMsg
  /\ ServerTakes(Head(net))
  /\ LET s == [State EXCEPT !.net = Tail(@)] IN
       \/ /\ in_flight_message.type = "ReaderAdd"
          /\ s.adds # <<>> /\ Head(s.adds) \notin has_id
          /\ has_id' = has_id \union {Head(s.adds)}
          /\ Becomes(complete_in_flight(Attached([s EXCEPT !.adds = Tail(@)], Head(s.adds))))
       \/ /\ in_flight_message.type # "ReaderAdd"
          /\ Becomes(complete_in_flight(s)) /\ UNCHANGED has_id
  /\ UNCHANGED <<hardware, monitored, up, past>>

(***************************************************************************)
(* The connection is lost, and comes back to a server that knows nothing   *)
(***************************************************************************)
\* spice_smartcard_channel_reset: the identifiers of the readers stay.
ClearedAll == [adds |-> <<>>, removals |-> {}, insertions |-> {}, queue |-> <<>>,
               flight |-> NoMsg, net |-> <<>>]
KeptAdditions == [ClearedAll EXCEPT !.adds = pending_reader_additions] \* a mutant
Cleared == ClearedAll
Reset ==
  /\ up # "down" /\ resets < MaxResets /\ resets' = resets + 1
  /\ up' = "down" /\ Becomes(Cleared)
  /\ server' = [readers |-> {}, cards |-> {}]
  /\ before' = has_id
  /\ UNCHANGED <<hardware, monitored, has_id>>
\* spice_smartcard_channel_up
ChannelUp ==
  /\ up = "down" /\ up' = "init"
  /\ UNCHANGED <<hardware, monitored, has_id, pending, sending, server, past>>

Next ==
  \/ \E r \in Readers : ReaderPlugged(r) \/ ReaderUnplugged(r)
                        \/ CardInserted(r) \/ CardTaken(r)
  \/ Dispatch \/ UpCb \/ Answer \/ Reset \/ ChannelUp

Spec == Init /\ [][Next]_vars

(***************************************************************************)
(* Properties                                                              *)
(***************************************************************************)
\* The server works on one message at a time, the one in flight; the pending
\* additions are, in order, the readers of the ReaderAdds it has not answered,
\* so that an identifier goes to the reader it was given for.
AnswerFitsReader ==
  /\ net = IF in_flight_message = NoMsg THEN <<>> ELSE <<in_flight_message>>
  /\ LET added == SelectSeq(net \o message_queue, LAMBDA m : m.type = "ReaderAdd")
     IN pending_reader_additions = [i \in DOMAIN added |-> added[i].reader]

\* Once all is said the server knows every reader and which of them have a
\* card; but not the readers that had an identifier when a connection was lost,
\* which reader_added_cb takes for attached.
Quiet == up = "up" /\ events = <<>> /\ in_flight_message = NoMsg /\ message_queue = <<>>
ServerKnows ==
  Quiet => \A r \in present \ before :
             r \in server.readers /\ (r \in cards <=> r \in server.cards)

\* A removal that had to wait for the answer to the addition takes the reader
\* from the server once that has come.
ServerForgets == Quiet => server.readers \subseteq present
=============================================================================
