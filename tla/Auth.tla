-------------------------------- MODULE Auth --------------------------------
(***************************************************************************)
(* How a channel authenticates, and reads through the layer that SASL may  *)
(* have put on the connection (spice-channel.c): the ticket, the steps of  *)
(* SASL, the credentials of the session, the error the application is      *)
(* told, and the messages that were decoded together.                      *)
(*                                                                         *)
(* The SASL library, the server and the user are external: the mechanism   *)
(* asks for some credentials, at its start or at a later step; the server  *)
(* accepts the right ones; it turns the layer on after its result.  A      *)
(* message is two halves, which the layer packs as it likes.  There is no  *)
(* TLS, with which SASL would put no layer.                                *)
(***************************************************************************)
EXTENDS Naturals, Sequences

CONSTANTS
    MaxRounds, \* steps of the server, bounded
    MaxTypos,  \* wrong credentials the user types, bounded
    MaxBreaks, \* connections that are lost, bounded
    MaxHalves  \* halves of messages the server sends, bounded

AuthAssumption == {MaxRounds, MaxTypos, MaxBreaks, MaxHalves} \subseteq Nat

VARIABLES
    method,    \* "sasl" or "ticket", by the capabilities of the server
    asks, late,\* what the mechanism asks for, and whether at a step
    user, password,  \* of the session: "none", "wrong", "right"
    pc,        \* where the coroutine waits
    has_error, event, error,
    needs,     \* auth_needs_username, auth_needs_password
    err,       \* the library has finished: SASL_OK, not SASL_CONTINUE
    sasl_conn, \* the layer is on
    decoded,   \* halves in sasl_decoded
    wire,      \* what the server sent and the channel did not read
    turn,      \* the server is to answer
    accepted,  \* it accepted the credentials
    opened,    \* the application was told OPENED
    closing,   \* it called spice_channel_disconnect
    rounds, typos, breaks, halves

library == <<method, asks, late>>
session == <<user, password>>
outcome == <<has_error, event, error, needs>>
server == <<turn, accepted, rounds>>
bounds == <<typos, breaks, halves>>
vars == <<library, session, pc, outcome, err, sasl_conn, decoded, wire, server,
          opened, closing, bounds>>

Init ==
    /\ method \in {"sasl", "ticket"} /\ late \in BOOLEAN
    /\ asks \in {{}, {"user"}, {"user", "password"}}
    /\ method = "ticket" => ~late /\ asks = {}
    /\ user = "none" /\ password = "none" /\ pc = "idle"
    /\ has_error = FALSE /\ event = "NONE" /\ error = {} /\ needs = {}
    /\ err = FALSE /\ sasl_conn = FALSE /\ decoded = 0 /\ wire = <<>>
    /\ turn = FALSE /\ accepted = FALSE /\ rounds = 0
    /\ opened = FALSE /\ closing = FALSE /\ typos = 0 /\ breaks = 0 /\ halves = 0

Missing == {x \in asks : (x = "user" /\ user = "none") \/ (x = "password" /\ password = "none")}
Right == IF method = "ticket" THEN password = "right"
         ELSE ("user" \in asks => user = "right") /\ ("password" \in asks => password = "right")

Item(kind, val, enc) == [kind |-> kind, val |-> val, enc |-> enc]

----------------------------------------------------------------------------
\* The end of an attempt.

\* Mutant: an error always asks for the password.
PasswordOnly(flags) == {"password"}

\* What an error asks the application for: the password unless only the user
\* name is needed (spice_channel_failed_sasl_authentication).
NeedsOf(flags) == IF flags = {} THEN {"password"} ELSE flags

\* spice_channel_failed_sasl_authentication, with the flags as they are now.
FailedSasl(flags) ==
    /\ error' = NeedsOf(flags) /\ event' = "ERROR_AUTH" /\ has_error' = TRUE
    /\ needs' = flags
    /\ pc' = "over"

\* spice_channel_failed_spice_authentication.
FailedTicket ==
    /\ error' = {"password"} /\ event' = "ERROR_AUTH" /\ has_error' = TRUE
    /\ pc' = "over" /\ UNCHANGED needs

\* The error exits that tell ERROR_LINK.
FailedLink ==
    /\ event' = "ERROR_LINK" /\ has_error' = TRUE /\ pc' = "over"
    /\ UNCHANGED <<error, needs>>

----------------------------------------------------------------------------
\* The coroutine, from one read to the next.

Attempt ==
    /\ pc = "idle"
    /\ turn' = TRUE /\ accepted' = FALSE /\ rounds' = 0
    /\ wire' = <<>> /\ err' = FALSE /\ sasl_conn' = FALSE
    /\ UNCHANGED <<library, session, outcome, decoded, opened, closing, bounds>>

\* SASL is chosen: the library is set up, and the list of mechanisms comes first.
ChooseSasl == method = "sasl" /\ Attempt /\ pc' = "mechs"

\* spice_channel_send_spice_ticket: an absent password is sent as the empty one.
SendTicket == method = "ticket" /\ Attempt /\ pc' = "auth"

\* spice_channel_read: the next thing on the wire.
Reads(kind) == /\ wire # <<>> /\ Head(wire).kind = kind
               /\ wire' = Tail(wire)
\* spice_channel_write.
Sent == turn' = TRUE /\ UNCHANGED <<accepted, rounds>>
Same == UNCHANGED <<library, session, decoded, opened, closing, bounds>>

\* sasl_client_start or a step that asks: the credentials are gathered, and one
\* that is missing ends the attempt, there or in the library.
Ask(step) == IF late = step THEN asks ELSE needs
Fails(step) == late = step /\ Missing # {}

\* The list of mechanisms, and the start message.
ReadMechs ==
    /\ pc = "mechs" /\ Reads("mechs")
    /\ IF Fails(FALSE)
       THEN FailedSasl(Ask(FALSE)) /\ UNCHANGED <<server, err>>
       ELSE /\ pc' = "reply" /\ Sent /\ needs' = Ask(FALSE)
            /\ err' \in BOOLEAN
            /\ UNCHANGED <<has_error, event, error>>
    /\ UNCHANGED sasl_conn /\ Same

\* A reply that is complete ends the loop when the library has finished, and
\* later than at the first step whatever the library thinks.
NoMoreSteps == Head(wire).val /\ (err \/ rounds > 1)

\* A reply of the server: unless that is the end there is a step, and what it
\* gives is sent unless both are done now.
ReadReply ==
    /\ pc = "reply" /\ Reads("data")
    /\ \/ /\ NoMoreSteps
          /\ pc' = "result" /\ UNCHANGED <<err, server, outcome>>
       \/ /\ ~NoMoreSteps /\ Fails(TRUE)
          /\ FailedSasl(Ask(TRUE)) /\ UNCHANGED <<server, err>>
       \/ /\ ~NoMoreSteps /\ ~Fails(TRUE)
          /\ needs' = Ask(TRUE)
          /\ IF Head(wire).val
             THEN err' = TRUE /\ pc' = "result" /\ UNCHANGED server
             ELSE err' \in BOOLEAN /\ pc' = "reply" /\ Sent
          /\ UNCHANGED <<has_error, event, error>>
    /\ UNCHANGED sasl_conn /\ Same

\* Mutant: the layer is on when the library has finished.
AtOnce == pc' = "result" \/ sasl_conn

\* The layer is on after the result.
LayerOn == pc' = "auth"

\* The result of the server, which is sent without the layer.
ReadResult ==
    /\ pc = "result" /\ Reads("result")
    /\ IF Head(wire).val
       THEN pc' = "auth" /\ sasl_conn' = LayerOn /\ UNCHANGED outcome
       ELSE FailedSasl(needs) /\ UNCHANGED sasl_conn
    /\ UNCHANGED <<err, server>> /\ Same

\* spice_channel_recv_auth, to the end of the emission of OPENED.
RecvAuth ==
    /\ pc = "auth" /\ Reads("link")
    /\ IF Head(wire).val
       THEN pc' = "wait" /\ opened' = TRUE /\ UNCHANGED outcome
       ELSE FailedTicket /\ UNCHANGED opened
    /\ UNCHANGED <<library, session, err, sasl_conn, decoded, server, closing, bounds>>

\* The connection is lost: SASL tells an error of authentication wherever it is
\* but for the result, whose read leaves the length of the last data: when that
\* was 0 it is taken for SPICE_LINK_ERR_OK, and recv_auth finds the error.
Lost ==
    /\ pc \in {"mechs", "reply", "result", "auth"} /\ breaks < MaxBreaks
    /\ breaks' = breaks + 1
    /\ \/ pc \in {"mechs", "reply", "result"} /\ FailedSasl(needs)
       \/ pc \in {"result", "auth"} /\ FailedLink
    /\ UNCHANGED <<library, session, err, sasl_conn, decoded, wire, server, opened,
                   closing, typos, halves>>

----------------------------------------------------------------------------
\* Reading messages (spice_channel_iterate_read, spice_channel_read_sasl).

Packet == IF wire = <<>> THEN 0 ELSE Head(wire).val

\* The socket is readable: spice_channel_recv_msg is entered.
WaitEnds ==
    /\ pc = "wait" /\ (wire # <<>> \/ has_error)
    /\ pc' = IF has_error THEN "over" ELSE "recv"
    /\ UNCHANGED <<library, session, outcome, err, sasl_conn, decoded, wire, server,
                   opened, closing, bounds>>

\* spice_channel_read_sasl: another packet is decoded when nothing is left.
Decode ==
    /\ pc = "recv" /\ ~has_error /\ decoded < 2 /\ wire # <<>>
    /\ decoded' = decoded + Packet
    /\ wire' = Tail(wire)
    /\ UNCHANGED <<library, session, pc, outcome, err, sasl_conn, server, opened,
                   closing, bounds>>

\* A whole message is there: its handler runs, and waits for the main loop.
Handle ==
    /\ pc = "recv" /\ ~has_error /\ decoded >= 2
    /\ decoded' = decoded - 2
    /\ pc' = "handling"
    /\ UNCHANGED <<library, session, outcome, err, sasl_conn, wire, server, opened,
                   closing, bounds>>

\* The loop goes on: something is decoded, or there is more to read.
GoesOn == decoded > 0 \/ (wire # <<>> /\ ~has_error)

\* The handler is back.
Handled ==
    /\ pc = "handling"
    /\ pc' = IF GoesOn THEN "recv" ELSE "wait"
    /\ UNCHANGED <<library, session, outcome, err, sasl_conn, decoded, wire, server,
                   opened, closing, bounds>>

\* With an error spice_channel_recv_msg reads nothing; "while (c->sasl_decoded
\* != NULL)" enters it again.
RecvNothing ==
    /\ pc = "recv" /\ has_error
    /\ pc' = IF decoded > 0 THEN "recv" ELSE "over"
    /\ UNCHANGED <<library, session, outcome, err, sasl_conn, decoded, wire, server,
                   opened, closing, bounds>>

\* spice_channel_disconnect, while the main loop runs; the half of a message the
\* coroutine has taken is not in sasl_decoded any more.
Parked == pc \in {"handling", "wait"} \/ (pc = "recv" /\ decoded < 2 /\ wire = <<>>)
Disconnect ==
    /\ opened /\ ~closing /\ Parked
    /\ closing' = TRUE /\ has_error' = TRUE
    /\ decoded' = IF pc = "recv" THEN 0 ELSE decoded
    /\ UNCHANGED <<library, session, pc, event, error, needs, err, sasl_conn, wire,
                   server, opened, bounds>>

----------------------------------------------------------------------------
\* The application: told of the error, it types what is asked for, and connects
\* again; a reset forgets the layer and the flags, the event and the error go.
Retry ==
    /\ pc = "over" /\ event # "NONE"
    /\ \E good \in BOOLEAN :
          /\ good \/ typos < MaxTypos
          /\ typos' = IF good THEN typos ELSE typos + 1
          /\ LET typed(x, old) == IF event = "ERROR_AUTH" /\ x \in error
                                  THEN (IF good THEN "right" ELSE "wrong") ELSE old
             IN  user' = typed("user", user) /\ password' = typed("password", password)
    /\ pc' = "idle" /\ has_error' = FALSE /\ event' = "NONE" /\ error' = {} /\ needs' = {}
    /\ sasl_conn' = FALSE /\ decoded' = 0
    /\ UNCHANGED <<library, err, wire, server, opened, closing, breaks, halves>>

----------------------------------------------------------------------------
\* The server.

ServerMechs ==
    /\ turn /\ pc = "mechs"
    /\ wire' = Append(wire, Item("mechs", TRUE, FALSE))
    /\ turn' = FALSE
    /\ UNCHANGED <<library, session, pc, outcome, err, sasl_conn, decoded, accepted,
                   rounds, opened, closing, bounds>>

\* Not complete, or complete with the result and, when it accepts, with the link
\* result in the layer.
ServerReply ==
    /\ turn /\ pc = "reply"
    /\ turn' = FALSE /\ rounds' = rounds + 1
    /\ \/ (rounds < MaxRounds \/ (late /\ rounds = 0))
          /\ wire' = Append(wire, Item("data", FALSE, FALSE))
          /\ UNCHANGED accepted
       \/ (late => rounds > 0)
          /\ accepted' = Right
          /\ wire' = wire \o <<Item("data", TRUE, FALSE), Item("result", Right, FALSE)>>
                          \o (IF Right THEN <<Item("link", TRUE, TRUE)>> ELSE <<>>)
    /\ UNCHANGED <<library, session, pc, outcome, err, sasl_conn, decoded, opened,
                   closing, bounds>>

ServerTicket ==
    /\ turn /\ pc = "auth" /\ method = "ticket"
    /\ turn' = FALSE /\ accepted' = Right
    /\ wire' = Append(wire, Item("link", Right, FALSE))
    /\ UNCHANGED <<library, session, pc, outcome, err, sasl_conn, decoded, rounds, opened,
                   closing, bounds>>

\* Halves of messages; without the layer the halves of one come as one packet.
ServerSends ==
    /\ accepted /\ pc \in {"wait", "recv", "handling"} /\ method = "sasl"
    /\ \E k \in 1 .. 3 :
          /\ halves + k =< MaxHalves
          /\ halves' = halves + k
          /\ wire' = Append(wire, Item("packet", k, TRUE))
    /\ UNCHANGED <<library, session, pc, outcome, err, sasl_conn, decoded, server, opened,
                   closing, typos, breaks>>

Coroutine == \/ ReadMechs \/ ReadReply \/ ReadResult \/ RecvAuth
             \/ WaitEnds \/ Decode \/ Handle \/ Handled \/ RecvNothing
Server == ServerMechs \/ ServerReply \/ ServerTicket
Connect == ChooseSasl \/ SendTicket
Next == Connect \/ Coroutine \/ Lost \/ Disconnect \/ Retry \/ Server \/ ServerSends

\* The main loop runs the coroutine, the server answers, and the user tries again.
Fairness == WF_vars(Coroutine) /\ WF_vars(Server) /\ WF_vars(Connect) /\ WF_vars(Retry)

Spec == Init /\ [][Next]_vars /\ Fairness

----------------------------------------------------------------------------
\* The state is well formed.
TypeOK ==
    /\ method \in {"sasl", "ticket"} /\ late \in BOOLEAN
    /\ {asks, needs, error} \subseteq SUBSET {"user", "password"}
    /\ {user, password} \subseteq {"none", "wrong", "right"}
    /\ pc \in {"idle", "mechs", "reply", "result", "auth", "wait", "recv", "handling",
               "over"}
    /\ event \in {"NONE", "ERROR_AUTH", "ERROR_LINK"} /\ decoded \in 0 .. 4
    /\ {has_error, err, sasl_conn, turn, accepted, opened, closing} \subseteq BOOLEAN

\* What the channel reads next is encoded exactly when the channel decodes it:
\* "This must come *after* check-auth-result" of spice_channel_perform_auth_sasl.
LayerAgrees ==
    (wire # <<>> /\ pc \in {"mechs", "reply", "result", "auth", "wait", "recv", "handling"}) =>
        Head(wire).enc = sasl_conn

\* An error of authentication asks for everything that was missing, so that the
\* application can fill it in (SPICE_CLIENT_ERROR_AUTH_NEEDS_*); a connection that
\* broke before the mechanism asked for anything is the exception.
ErrorTellsMissing ==
    (pc = "over" /\ event = "ERROR_AUTH" /\ needs # {}) => Missing \subseteq error

\* Messages that were decoded are not left behind while the channel waits.
NothingLeft == pc = "wait" /\ ~has_error => decoded = 0

\* An application that fills in what it is asked for gets in.
GetsIn == <>opened

\* A channel that is disconnected comes to its end: "Close the socket and reset
\* connection specific data" of spice_channel_disconnect.
DisconnectEnds == closing ~> (pc = "over")
=============================================================================
