------------------------------- MODULE Inputs -------------------------------
(***************************************************************************)
(* The inputs channel (channel-inputs.c): mouse motions held back until    *)
(* the server acknowledges bunches of them, positions of which only the    *)
(* last counts, buttons, and the lock keys that client and guest keep      *)
(* equal (the GTK session's side of it, spice-gtk-session.c).              *)
(*                                                                         *)
(* The main context queues messages; a wakeup of high priority has the     *)
(* coroutine write them, unless it is in the middle of a message it reads. *)
(* The coroutine's own messages go to the wire at once.  A motion is one   *)
(* unit, positions are numbered in the order asked; the server is external.*)
(***************************************************************************)
EXTENDS Integers, Sequences

CONSTANTS
  SPICE_INPUT_MOTION_ACK_BUNCH,
  Partial,   \* a message may arrive in pieces
  MaxMoves, MaxClicks, MaxToggles, MaxResets \* bounds

Bunch == SPICE_INPUT_MOTION_ACK_BUNCH

InputsAssumption ==
  /\ Bunch \in Nat \ {0} /\ Partial \in BOOLEAN
  /\ {MaxMoves, MaxClicks, MaxToggles, MaxResets} \subseteq Nat

VARIABLES
  ready,         \* the channel's state is READY
  reading,       \* the coroutine is in the middle of a message
  dx,            \* motion not sent
  dpy, asked,    \* position not sent (-1 when none), positions asked
  motion_count,
  queued, wire,  \* messages for the coroutine to write, and written
  toClient,      \* messages of the server
  locks, caps,   \* lock keys to tell the server, and those of the client
  server,        \* what the server has: motion, position, buttons, lock keys
  moved, clicks, toggles, resets

mouse == <<dx, dpy, asked, motion_count, moved, clicks>>
keys == <<locks, caps, toggles>>
net == <<queued, wire, toClient>>
vars == <<ready, reading, mouse, keys, net, server, resets>>

Messages == [kind : {"motion", "position", "button", "locks"}, val : Nat]
Msg(k, v) == [kind |-> k, val |-> v]

TypeOK ==
  /\ ready \in BOOLEAN /\ reading \in BOOLEAN
  /\ dx \in 0 .. MaxMoves /\ dpy \in -1 .. MaxMoves /\ asked \in 0 .. MaxMoves
  /\ motion_count \in Int /\ queued \in Seq(Messages) /\ wire \in Seq(Messages)
  /\ toClient \in Seq([kind : {"ack", "locks"}, val : Nat])
  /\ locks \in 0 .. 1 /\ caps \in 0 .. 1
  /\ server \in [motion : Nat, position : Nat, locks : 0 .. 1, unacked : 0 .. Bunch - 1]
  /\ moved \in 0 .. MaxMoves /\ clicks \in 0 .. MaxClicks
  /\ toggles \in 0 .. MaxToggles /\ resets \in 0 .. MaxResets

\* spice_inputs_channel_init: the private part is all zero.
Init ==
  /\ ready = FALSE /\ reading = FALSE /\ dx = 0 /\ dpy = 0 /\ asked = 0 /\ motion_count = 0
  /\ queued = <<>> /\ wire = <<>> /\ toClient = <<>> /\ locks \in 0 .. 1 /\ caps = locks
  /\ server = [motion |-> 0, position |-> 0, locks |-> 0, unacked |-> 0]
  /\ moved = 0 /\ clicks = 0 /\ toggles = 0 /\ resets = 0

(***************************************************************************)
(* What is held back                                                       *)
(***************************************************************************)
\* mouse_motion, mouse_position
Motion(d) == IF d = 0 THEN <<>> ELSE <<Msg("motion", d)>>
Always(p) == <<Msg("position", p)>> \* a mutant
Position(p) == IF p = -1 THEN <<>> ELSE <<Msg("position", p)>>
Held == Motion(dx) \o Position(dpy)
AllSent == /\ dx' = 0 /\ dpy' = -1

\* spice_inputs_channel_motion, while a motion or a click is bounded
Bounded == moved + asked < MaxMoves
NotFull == motion_count < 2 * Bunch
MoveBy ==
  /\ ready /\ Bounded /\ moved' = moved + 1
  /\ IF NotFull
     THEN /\ queued' = Append(queued, Msg("motion", dx + 1)) /\ dx' = 0
          /\ motion_count' = motion_count + 1
     ELSE dx' = dx + 1 /\ UNCHANGED <<queued, motion_count>>
  /\ UNCHANGED <<ready, reading, dpy, asked, keys, wire, toClient, server, clicks, resets>>

\* spice_inputs_channel_position
MoveTo ==
  /\ ready /\ Bounded /\ asked' = asked + 1
  /\ IF NotFull
     THEN /\ queued' = Append(queued, Msg("position", asked + 1)) /\ dpy' = -1
          /\ motion_count' = motion_count + 1
     ELSE dpy' = asked + 1 /\ UNCHANGED <<queued, motion_count>>
  /\ UNCHANGED <<ready, reading, dx, keys, wire, toClient, server, moved, clicks, resets>>

\* spice_inputs_channel_button_press and _release: what is held back goes first.
\* The message carries, for the properties, the motion made before it.
Button ==
  /\ ready /\ clicks < MaxClicks /\ clicks' = clicks + 1
  /\ queued' = queued \o Held \o <<Msg("button", moved)>>
  /\ motion_count' = motion_count + Len(Held) /\ AllSent
  /\ UNCHANGED <<ready, reading, asked, keys, wire, toClient, server, moved, resets>>

(***************************************************************************)
(* The coroutine                                                           *)
(***************************************************************************)
\* spice_channel_idle_wakeup, spice_channel_iterate_write: before the socket is
\* looked at, unless a message is being read
Flush ==
  /\ queued # <<>> /\ ~reading /\ wire' = wire \o queued /\ queued' = <<>>
  /\ UNCHANGED <<ready, reading, mouse, keys, toClient, server, resets>>

\* spice_channel_recv_msg
BeginRead ==
  /\ Partial /\ ~reading /\ queued = <<>> /\ toClient # <<>> /\ reading' = TRUE
  /\ UNCHANGED <<ready, mouse, keys, net, server, resets>>
CanRead == toClient # <<>> /\ (reading \/ queued = <<>>)

\* inputs_handle_ack
HandleAck ==
  /\ CanRead /\ Head(toClient).kind = "ack" /\ toClient' = Tail(toClient) /\ reading' = FALSE
  /\ motion_count' = motion_count - Bunch + Len(Held)
  /\ wire' = wire \o Held
  /\ IF Held = <<>> THEN UNCHANGED <<dx, dpy>> ELSE AllSent
  /\ UNCHANGED <<ready, queued, asked, keys, server, moved, clicks, resets>>

\* inputs_handle_modifiers, guest_modifiers_changed
\* spice_gtk_session_sync_keyboard_modifiers_for_channel, set_key_locks
HandleModifiers ==
  /\ CanRead /\ Head(toClient).kind = "locks" /\ toClient' = Tail(toClient) /\ reading' = FALSE
  /\ IF Head(toClient).val = caps THEN UNCHANGED <<queued, locks>>
     ELSE queued' = Append(queued, Msg("locks", caps)) /\ locks' = caps
  /\ UNCHANGED <<ready, mouse, caps, toggles, wire, server, resets>>

\* keymap_modifiers_changed, set_key_locks: kept for spice_inputs_channel_up
Forgotten(l) == locks \* a mutant
Kept(l) == l
ClientToggles ==
  /\ toggles < MaxToggles /\ toggles' = toggles + 1
  /\ caps' = 1 - caps /\ locks' = Kept(caps')
  /\ queued' = IF ready THEN Append(queued, Msg("locks", caps')) ELSE queued
  /\ UNCHANGED <<ready, reading, mouse, wire, toClient, server, resets>>

\* spice_inputs_channel_up
Up ==
  /\ ~ready /\ ready' = TRUE /\ wire' = wire \o <<Msg("locks", locks)>>
  /\ UNCHANGED <<reading, mouse, keys, queued, toClient, server, resets>>

\* spice_inputs_channel_reset; the server's side starts anew
Down ==
  /\ ready /\ resets < MaxResets /\ resets' = resets + 1
  /\ ready' = FALSE /\ reading' = FALSE /\ motion_count' = 0
  /\ queued' = <<>> /\ wire' = <<>> /\ toClient' = <<>>
  /\ server' = [server EXCEPT !.unacked = 0]
  /\ moved' = server.motion + dx
  /\ UNCHANGED <<dx, dpy, asked, keys, clicks>>

(***************************************************************************)
(* The server                                                              *)
(***************************************************************************)
Counted == (server.unacked + 1) % Bunch
ServerTakes ==
  /\ wire # <<>> /\ wire' = Tail(wire)
  /\ LET m == Head(wire) IN
       \/ /\ m.kind = "motion"
          /\ server' = [server EXCEPT !.motion = @ + m.val, !.unacked = Counted]
          /\ toClient' = IF Counted = 0 THEN Append(toClient, Msg("ack", 0)) ELSE toClient
       \/ /\ m.kind = "position"
          /\ server' = [server EXCEPT !.position = m.val, !.unacked = Counted]
          /\ toClient' = IF Counted = 0 THEN Append(toClient, Msg("ack", 0)) ELSE toClient
       \/ m.kind = "button" /\ UNCHANGED <<server, toClient>>
       \/ /\ m.kind = "locks" /\ server' = [server EXCEPT !.locks = m.val]
          /\ toClient' = IF m.val = server.locks THEN toClient
                         ELSE Append(toClient, Msg("locks", m.val))
  /\ UNCHANGED <<ready, reading, mouse, keys, queued, resets>>
GuestToggles ==
  /\ ready /\ toggles < MaxToggles /\ toggles' = toggles + 1
  /\ server' = [server EXCEPT !.locks = 1 - @]
  /\ toClient' = Append(toClient, Msg("locks", 1 - server.locks))
  /\ UNCHANGED <<ready, reading, mouse, locks, caps, queued, wire, resets>>

Next ==
  \/ MoveBy \/ MoveTo \/ Button \/ Flush \/ BeginRead \/ HandleAck \/ HandleModifiers
  \/ ClientToggles \/ Up \/ Down \/ ServerTakes \/ GuestToggles

Spec == Init /\ [][Next]_vars

(***************************************************************************)
(* Properties                                                              *)
(***************************************************************************)
\* The sums of the first 0, 1, .. numbers of x, and of all
Sums(x) == LET s[i \in 0 .. Len(x)] == IF i = 0 THEN 0 ELSE s[i - 1] + x[i] IN s
Sum(x) == Sums(x)[Len(x)]

\* The motion in messages q, those the server counts, and acknowledgements, one by one
Motions(q) == [i \in 1 .. Len(q) |-> IF q[i].kind = "motion" THEN q[i].val ELSE 0]
Counts(q) == [i \in 1 .. Len(q) |-> IF q[i].kind \in {"motion", "position"} THEN 1 ELSE 0]
Acks(q) == [i \in 1 .. Len(q) |-> IF q[i].kind = "ack" THEN 1 ELSE 0]

\* No motion is lost or made twice by the bunches, and the count is that of the
\* messages no acknowledgement of which was handled (mouse_motion,
\* inputs_handle_ack, spice_inputs_channel_reset).
MotionConserved ==
  /\ moved = server.motion + Sum(Motions(wire \o queued)) + dx
  /\ ready => motion_count =
       Sum(Counts(wire \o queued)) + server.unacked + Bunch * Sum(Acks(toClient))

\* What is held back is sent in the end: an acknowledgement is still to come for
\* it, unless it was held back when the channel went down.
HeldIsAwaited ==
  resets = 0 /\ (dx > 0 \/ dpy > 0) => motion_count >= 2 * Bunch

\* A button is pressed where the pointer had been moved to: the motion made
\* before it never comes after it (spice_inputs_channel_button_press).
ClickedAfterMotion ==
  LET all == wire \o queued IN
  \A i \in DOMAIN all : all[i].kind = "button" /\ resets = 0 =>
    server.motion + Sums(Motions(all))[i] >= all[i].val

\* When nothing is under way, the guest's lock keys are the client's, whoever
\* changed them and however the two crossed.
LocksAgree ==
  ready /\ queued = <<>> /\ wire = <<>> /\ toClient = <<>> => server.locks = caps

\* "Change mouse position": the server is left with the position asked last.
LastPositionWins ==
  ready /\ queued = <<>> /\ wire = <<>> /\ dpy \in {-1, 0} /\ resets = 0
    => server.position = asked

\* "if no motion, msg == NULL": no position is sent that was not asked for.
NoPositionUnasked ==
  \A i \in DOMAIN wire : wire[i].kind = "position" => wire[i].val > 0
=============================================================================
