------------------------------- MODULE Widget -------------------------------
(***************************************************************************)
(* The keyboard and the pointer of the display widget (spice-widget.c):    *)
(* which keys the guest is left with, and who holds the grabs, over focus  *)
(* and crossing events, the grab sequence, delayed key presses, and an     *)
(* inputs channel that goes up and down.                                   *)
(*                                                                         *)
(* A keyboard grab makes the window system send the widget a focus-out,    *)
(* an ungrab a focus-in, and a pointer grab a leave and an enter; they     *)
(* come after the events already queued.  While a device is grabbed, the   *)
(* real focus (the real pointer) stays where it is.                        *)
(***************************************************************************)
EXTENDS Integers, Sequences

CONSTANTS
  Keys, GrabKeys, \* keys, those of the grab sequence (modifiers) among them
  None,
  Prompt, \* a loss of the focus is handled before anything else happens
  MaxQueue, MaxMoves, MaxFlips \* bounds

WidgetAssumption ==
  /\ GrabKeys \subseteq Keys /\ GrabKeys # {} /\ None \notin Keys
  /\ Prompt \in BOOLEAN /\ {MaxQueue, MaxMoves, MaxFlips} \subseteq Nat

VARIABLES
  focus, over, \* the widget has the keyboard focus, the pointer is over it
  events,      \* of the window system, not handled yet
  inputs,      \* the inputs channel: "none", "off" or "ready"
  w,           \* the widget, and the keys that the guest has down
  moves, flips \* bounded: changes of focus and pointer, of settings

vars == <<focus, over, events, inputs, w, moves, flips>>

Modes == {"client", "server"}
Focus(e) == <<e, None>>
Events == {Focus(e) : e \in {"in", "out", "enter", "leave"}} \union ({"press", "release"} \X Keys)

TypeOK ==
  /\ focus \in BOOLEAN /\ over \in BOOLEAN /\ events \in Seq(Events)
  /\ inputs \in {"none", "off", "ready"}
  /\ w \in [keyboard_grab_active : BOOLEAN, mouse_grab_active : BOOLEAN,
            keyboard_have_focus : BOOLEAN, mouse_have_pointer : BOOLEAN,
            keyboard_grab_released : BOOLEAN, keyboard_grab_inhibit : BOOLEAN,
            mouse_mode : Modes, activeseq : SUBSET GrabKeys, seq_pressed : BOOLEAN,
            key_state : SUBSET Keys, key_delayed : Keys \union {None},
            down : SUBSET Keys, echo : Seq(Events)]
  /\ w.echo = <<>> /\ moves \in 0 .. MaxMoves /\ flips \in 0 .. MaxFlips

Init ==
  /\ focus = FALSE /\ over = FALSE /\ events = <<>> /\ inputs = "none"
  /\ w = [keyboard_grab_active |-> FALSE, mouse_grab_active |-> FALSE,
          keyboard_have_focus |-> FALSE, mouse_have_pointer |-> FALSE,
          keyboard_grab_released |-> FALSE, keyboard_grab_inhibit |-> FALSE,
          mouse_mode |-> "server", activeseq |-> {}, seq_pressed |-> FALSE,
          key_state |-> {}, key_delayed |-> None, down |-> {}, echo |-> <<>>]
  /\ moves = 0 /\ flips = 0

(***************************************************************************)
(* Grabs; ok: the window system grants them                                *)
(***************************************************************************)
try_keyboard_grab(s, ok) ==
  IF /\ ok /\ ~s.keyboard_grab_inhibit /\ ~s.keyboard_grab_active
     /\ s.keyboard_have_focus /\ s.mouse_have_pointer /\ ~s.keyboard_grab_released
  THEN [s EXCEPT !.keyboard_grab_active = TRUE, !.echo = Append(@, Focus("out"))] ELSE s

try_keyboard_ungrab(s) ==
  IF s.keyboard_grab_active
  THEN [s EXCEPT !.keyboard_grab_active = FALSE, !.echo = Append(@, Focus("in"))] ELSE s

\* do_pointer_grab
try_mouse_grab(s, ok) ==
  IF /\ s.mouse_have_pointer /\ s.keyboard_have_focus
     /\ s.mouse_mode = "server" /\ ~s.mouse_grab_active
  THEN LET k == try_keyboard_grab(s, ok) IN
       IF ok THEN [k EXCEPT !.mouse_grab_active = TRUE, !.echo = Append(@, Focus("leave"))] ELSE k
  ELSE s

try_mouse_ungrab(s) ==
  IF s.mouse_grab_active
  THEN [s EXCEPT !.mouse_grab_active = FALSE, !.echo = Append(@, Focus("enter"))] ELSE s

(***************************************************************************)
(* Keys                                                                    *)
(***************************************************************************)
\* spice_inputs_channel_key_press, _key_release: only a channel that is ready sends
Sends(s, type, k) ==
  [s EXCEPT !.down = IF inputs # "ready" THEN @
                     ELSE IF type = "press" THEN @ \union {k} ELSE @ \ {k}]

key_press_delayed(s) ==
  IF s.key_delayed = None THEN s
  ELSE [Sends(s, "press", s.key_delayed) EXCEPT !.key_delayed = None]

\* send_key, SEND_KEY_PRESS: a modifier is never delayed
PressKey(s, k) ==
  IF inputs = "none" THEN s
  ELSE LET p == key_press_delayed(s) IN
       [IF k \notin GrabKeys /\ k \notin p.key_state THEN [p EXCEPT !.key_delayed = k]
        ELSE Sends(p, "press", k)
        EXCEPT !.key_state = @ \union {k}]

\* send_key, SEND_KEY_RELEASE; key_press_and_release is one message
ReleaseKey(s, k) ==
  IF inputs = "none" \/ k \notin s.key_state THEN s
  ELSE [IF s.key_delayed = k THEN [s EXCEPT !.key_delayed = None]
        ELSE Sends(key_press_delayed(s), "release", k)
        EXCEPT !.key_state = @ \ {k}]

\* send_key, SEND_KEY_RELEASE of every key that is pressed: the delayed one goes down
\* before any other goes up, and in the end all are up.
release_keys(s) ==
  IF inputs = "none" \/ s.key_state = {} THEN s
  ELSE LET p == key_press_delayed(s) IN
       [p EXCEPT !.down = @ \ s.key_state, !.key_state = {}]

(***************************************************************************)
(* The grab sequence                                                       *)
(***************************************************************************)
\* check_for_grab_key
Recorded(s, k) == s.activeseq \union ({k} \intersect GrabKeys)
Reset(s) == [s EXCEPT !.activeseq = {}, !.seq_pressed = FALSE]

SequencePressed(s, ok) ==
  LET m == IF s.mouse_mode # "server" THEN s
           ELSE IF s.mouse_grab_active THEN try_mouse_ungrab(s) ELSE try_mouse_grab(s, ok)
  IN [m EXCEPT !.activeseq = {}, !.seq_pressed = TRUE]

KeepsGrab(s) == s \* a mutant
Ungrabbed(s) == try_keyboard_ungrab(s)
SequenceReleased(s, ok) ==
  LET r == [release_keys(s) EXCEPT !.keyboard_grab_released = ~@] IN
  Reset(IF r.keyboard_grab_released THEN Ungrabbed(r) ELSE try_keyboard_grab(r, ok))

\* key_event, but for what it sends
Sequence(s, type, k, ok) ==
  LET recorded == [s EXCEPT !.activeseq = Recorded(s, k)]
      whole == recorded.activeseq = GrabKeys
      expected == IF s.seq_pressed THEN "release" ELSE "press"
  IN IF type # expected THEN Reset(s)
     ELSE IF ~whole THEN recorded
     ELSE IF s.seq_pressed THEN SequenceReleased(s, ok) ELSE SequencePressed(s, ok)

key_event(s, type, k, ok) ==
  LET q == Sequence(s, type, k, ok) IN
  IF type = "press" THEN PressKey(q, k) ELSE ReleaseKey(q, k)

(***************************************************************************)
(* Events                                                                  *)
(***************************************************************************)
update_keyboard_focus(s, state) == [s EXCEPT !.keyboard_have_focus = state]

focus_in_event(s, ok) ==
  IF s.keyboard_have_focus THEN s
  ELSE LET r == release_keys(s)
           f == IF r.keyboard_grab_released THEN [r EXCEPT !.activeseq = {}] ELSE r
       IN try_keyboard_grab(update_keyboard_focus(f, TRUE), ok)

\* a focus-out is the grab's own while the keyboard is grabbed
focus_out_event(s) ==
  IF s.keyboard_grab_active THEN s ELSE update_keyboard_focus(release_keys(s), FALSE)

enter_event(s, ok) == try_keyboard_grab([s EXCEPT !.mouse_have_pointer = TRUE], ok)
leave_event(s) ==
  IF s.mouse_grab_active THEN s ELSE try_keyboard_ungrab([s EXCEPT !.mouse_have_pointer = FALSE])

\* What a handler leaves of the queue and the widget
Then(s, queue) == w' = [s EXCEPT !.echo = <<>>] /\ events' = queue \o s.echo
Changed(s) == Then(s, events)
Handled(s) == Then(s, Tail(events))
Still == UNCHANGED <<focus, over, inputs, moves, flips>>
Known == Prompt => focus \/ ~w.keyboard_have_focus

HandleEvent ==
  /\ events # <<>> /\ Still
  /\ \E ok \in BOOLEAN : LET e == Head(events) IN
       \/ e = Focus("in") /\ Handled(focus_in_event(w, ok))
       \/ e = Focus("out") /\ Handled(focus_out_event(w))
       \/ e = Focus("enter") /\ Handled(enter_event(w, ok))
       \/ e = Focus("leave") /\ Handled(leave_event(w))
       \/ \E k \in Keys, t \in {"press", "release"} :
            e = <<t, k>> /\ Handled(key_event(w, t, k, ok))

\* key_press_delayed, when its time has come
KeyTimer == w.key_delayed # None /\ Changed(key_press_delayed(w)) /\ Still

\* motion_event: moving the pointer takes the keyboard back
motion_event ==
  /\ Known /\ inputs # "none" /\ over /\ Still
  /\ \E ok \in BOOLEAN : LET m == [w EXCEPT !.seq_pressed = FALSE] IN
       Changed(IF m.keyboard_grab_released /\ m.keyboard_have_focus
               THEN try_keyboard_grab(release_keys([m EXCEPT !.keyboard_grab_released = FALSE]), ok)
               ELSE m)
\* button_event, as far as the grab
button_event ==
  /\ Known /\ over /\ w.mouse_mode = "server" /\ ~w.mouse_grab_active /\ Still
  /\ \E ok \in BOOLEAN : Changed(try_mouse_grab(w, ok))

Flip == Known /\ flips < MaxFlips /\ flips' = flips + 1
\* grab_broken, and grab_notify of a widget that is shadowed
grab_broken ==
  /\ Flip /\ UNCHANGED <<focus, over, inputs, moves>>
  /\ (w.keyboard_grab_active \/ w.mouse_grab_active)
  /\ \E keyboard \in {w.keyboard_grab_active, FALSE} :
       Changed(try_mouse_ungrab(IF keyboard THEN release_keys(try_keyboard_ungrab(w)) ELSE w))
grab_notify == Changed(release_keys(w)) /\ Still

\* session_inhibit_keyboard_grab_changed
inhibit_changed ==
  /\ Flip /\ UNCHANGED <<focus, over, inputs, moves>>
  /\ \E ok \in BOOLEAN :
       LET s == [w EXCEPT !.keyboard_grab_inhibit = ~@] IN
       Changed(IF s.keyboard_grab_inhibit THEN try_mouse_ungrab(Ungrabbed(s))
               ELSE try_mouse_grab(try_keyboard_grab(s, ok), ok))
\* update_mouse_mode; pressed: a button is held
update_mouse_mode ==
  /\ Flip /\ UNCHANGED <<focus, over, inputs, moves>>
  /\ \E ok, pressed \in BOOLEAN :
       LET s == [w EXCEPT !.mouse_mode = IF @ = "server" THEN "client" ELSE "server"] IN
       Changed(IF s.mouse_mode = "client" THEN try_mouse_ungrab(s)
               ELSE IF pressed THEN try_mouse_grab(s, ok) ELSE s)
\* channel_new, channel_destroy, inputs_channel_event; a server lets go of the
\* keys of a client that is gone, and a key is not delayed for as long as a
\* connection takes.
InputsChange ==
  /\ Flip /\ inputs' \in {"none", "off", "ready"} \ {inputs}
  /\ inputs' = "ready" => w.key_delayed = None
  /\ w' = [w EXCEPT !.down = {}] /\ UNCHANGED <<focus, over, events, moves>>

(***************************************************************************)
(* The window system                                                       *)
(***************************************************************************)
Move == moves < MaxMoves /\ moves' = moves + 1 /\ (Prompt => events = <<>>)
FocusMoves ==
  /\ Move /\ ~w.keyboard_grab_active /\ focus' = ~focus
  /\ events' = Append(events, Focus(IF focus' THEN "in" ELSE "out"))
  /\ UNCHANGED <<over, inputs, w, flips>>
PointerMoves ==
  /\ Move /\ ~w.mouse_grab_active /\ over' = ~over
  /\ events' = Append(events, Focus(IF over' THEN "enter" ELSE "leave"))
  /\ UNCHANGED <<focus, inputs, w, flips>>
KeyMoves ==
  /\ (focus \/ w.keyboard_grab_active) /\ Len(events) < MaxQueue
  /\ \E e \in {"press", "release"} \X Keys : events' = Append(events, e)
  /\ UNCHANGED <<focus, over, inputs, w, moves, flips>>

Next ==
  \/ HandleEvent \/ KeyTimer \/ motion_event \/ button_event \/ grab_broken \/ grab_notify
  \/ inhibit_changed \/ update_mouse_mode \/ InputsChange
  \/ FocusMoves \/ PointerMoves \/ KeyMoves

Spec == Init /\ [][Next]_vars

(***************************************************************************)
(* Properties                                                              *)
(***************************************************************************)
\* What the guest has down or is about to get is recorded as pressed, so that
\* release_keys lets go of it (send_key).
Remembered == w.down \union ({w.key_delayed} \ {None}) \subseteq w.key_state

\* A widget that has lost the focus leaves the guest with no key down, and none
\* on its way, whatever was held, delayed or grabbed when it left.
NoKeyLeft ==
  events = <<>> /\ ~focus =>
    ~w.keyboard_have_focus /\ w.down = {} /\ (w.key_delayed = None \/ inputs # "ready")

\* The keyboard is grabbed only where the user wants it to be: focus and pointer
\* in the widget, no USB dialog, not let go with the grab sequence; the pointer
\* only where the server moves it.
GrabsAllowed ==
  /\ w.keyboard_grab_active =>
       focus /\ w.keyboard_have_focus /\ w.mouse_have_pointer
       /\ ~w.keyboard_grab_inhibit /\ ~w.keyboard_grab_released
  /\ w.mouse_grab_active => w.mouse_mode = "server" /\ w.mouse_have_pointer
=============================================================================
