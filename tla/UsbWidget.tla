----------------------------- MODULE UsbWidget -----------------------------
(***************************************************************************)
(* The USB device widget (usb-device-widget.c): a check box per device,    *)
(* the requests they make of the device manager, and the info bar.         *)
(*                                                                         *)
(* Of the manager and its channels (module Usb) this keeps what the widget *)
(* sees: who holds a channel, the requests, "redirecting".  The build has  *)
(* polkit: a device that waits for the user's right can be given up.       *)
(***************************************************************************)
EXTENDS Integers, Sequences, FiniteSets, SequencesExt

CONSTANTS
  Devices,
  Prompt,    \* between clicks a disconnection ends, and what ended is answered
  MaxRoom,   \* bound: channels
  MaxClicks, \* bound: clicks of the user
  MaxErrors  \* bound: errors of a device

UsbWidgetAssumption ==
  Prompt \in BOOLEAN /\ MaxRoom \in Nat /\ MaxClicks \in Nat /\ MaxErrors \in Nat

VARIABLES
  plug,        \* of a device: "away", "here" in the manager's list, "gone"
  room,        \* channels the manager has
  held,        \* of a device: no channel, "asked" for, "yes", "leaving"
  redirecting, \* of the manager
  calls,       \* the requests that are not answered, in the order they were made
  open,        \* there is a widget
  box,         \* of a device: no check box, or "on", "off"
  clickable,   \* its check box is sensitive
  bar,         \* the info bar: "none", "error", "redirecting", "empty"
  lost,        \* a reference of the widget will never be dropped
  own,         \* devices the manager has redirected of itself
  stale,       \* the manager has changed of itself since update_status
  clicks, errors

manager == <<plug, room, held, redirecting, calls>>
view == <<box, clickable, bar>>
vars == <<manager, view, open, lost, own, stale, clicks, errors>>

\* The callbacks of the widget, and the manager's own: of add_dev and of
\* check_redir_on_connect
Own == {"auto", "onconnect"}
Kinds == {"connect", "disconnect"} \union Own
Calls == [kind : Kinds, dev : Devices, state : {"running", "ok", "error"}]

TypeOK ==
  /\ plug \in [Devices -> {"away", "here", "gone"}] /\ room \in 0 .. MaxRoom
  /\ held \in [Devices -> {"no", "asked", "yes", "leaving"}]
  /\ redirecting \in BOOLEAN /\ calls \in Seq(Calls) /\ open \in BOOLEAN
  /\ box \in [Devices -> {"none", "on", "off"}] /\ clickable \in [Devices -> BOOLEAN]
  /\ bar \in {"none", "error", "redirecting", "empty"} /\ lost \in BOOLEAN
  /\ own \subseteq Devices /\ stale \in BOOLEAN
  /\ clicks \in 0 .. MaxClicks /\ errors \in 0 .. MaxErrors

Init ==
  /\ plug = [d \in Devices |-> "away"] /\ room = 0
  /\ held = [d \in Devices |-> "no"] /\ redirecting = FALSE /\ calls = <<>>
  /\ open = FALSE /\ box = [d \in Devices |-> "none"]
  /\ clickable = [d \in Devices |-> FALSE] /\ bar = "none" /\ lost = FALSE
  /\ own = {} /\ stale = FALSE /\ clicks = 0 /\ errors = 0

Free == Cardinality({d \in Devices : held[d] # "no"}) < room

\* spice_usb_device_manager_can_redirect_device, without the guest's filter
CanRedirect(d) == room > 0 /\ (held[d] # "no" \/ Free)

\* spice_usb_device_widget_update_status, check_can_redirect
update_status ==
  LET boxes == {d \in Devices : box'[d] # "none"} IN
  /\ clickable' = [d \in Devices |-> d \in boxes /\ ~redirecting' /\ CanRedirect(d)']
  /\ bar' = CASE boxes = {}   -> "empty"
              [] boxes # {} /\ redirecting' -> "redirecting"
              [] boxes # {} /\ ~redirecting' ->
                   IF \E d \in boxes : ~CanRedirect(d)' THEN "error" ELSE "none"
  /\ stale' = FALSE

\* spice_usb_device_manager_connect_device_async; the channel is taken at once
Connect(kind, d) ==
  \/ /\ held[d] # "no" \/ ~Free
     /\ calls' = Append(calls, [kind |-> kind, dev |-> d, state |-> "error"])
     /\ UNCHANGED held
  \/ /\ held[d] = "no" /\ Free
     /\ calls' = Append(calls, [kind |-> kind, dev |-> d, state |-> "running"])
     /\ held' = [held EXCEPT ![d] = "asked"]

\* spice_usb_device_manager_disconnect_device_async of a device that is held
\* as h says: for one that is not it returns without a task, and with no
\* callback the data of the request are never freed.
Disconnect(d, h) ==
  \/ /\ h[d] = "no" /\ lost' = TRUE /\ UNCHANGED <<calls, redirecting>>
  \/ /\ h[d] # "no" /\ redirecting' = TRUE
     /\ calls' = Append(calls, [kind |-> "disconnect", dev |-> d, state |-> "running"])
     /\ UNCHANGED lost

\* spice_usbredir_channel_disconnect_device
LetGo(d) ==
  [held EXCEPT ![d] = CASE @ \in {"asked", "leaving"} -> "leaving" [] OTHER -> "no"]

(***************************************************************************)
(* The widget                                                              *)
(***************************************************************************)
\* spice_usb_device_widget_constructed, with device_added_cb of every device
BoxOf(d) == IF held[d] = "no" THEN "off" ELSE "on"
Constructed ==
  /\ ~open /\ open' = TRUE
  /\ box' = [d \in Devices |-> IF plug[d] = "here" THEN BoxOf(d) ELSE "none"]
  /\ own' = {c.dev : c \in {x \in ToSet(calls) : x.kind \in Own}}
  /\ UNCHANGED <<manager, lost, clicks, errors>>
  /\ update_status

\* spice_usb_device_widget_finalize: every request has a reference
Finalize ==
  /\ open /\ ~lost /\ \A c \in ToSet(calls) : c.kind \in Own
  /\ open' = FALSE /\ box' = [d \in Devices |-> "none"]
  /\ clickable' = [d \in Devices |-> FALSE] /\ bar' = "none"
  /\ UNCHANGED <<manager, lost, own, stale, clicks, errors>>

\* checkbox_clicked_cb
Asking(c) == c.kind # "disconnect" /\ c.state = "running"
Click(d) ==
  /\ Prompt => \A c \in ToSet(calls) : Asking(c)
  /\ clicks < MaxClicks /\ clickable[d] /\ clicks' = clicks + 1
  /\ \/ /\ box[d] = "off" /\ box' = [box EXCEPT ![d] = "on"]
        /\ Connect("connect", d) /\ redirecting' = TRUE /\ UNCHANGED lost
     \/ /\ box[d] = "on" /\ box' = [box EXCEPT ![d] = "off"]
        /\ Disconnect(d, held) /\ UNCHANGED held
  /\ UNCHANGED <<plug, room, open, own, errors>>
  /\ update_status

\* What connect_cb does to the check box of a request that failed
Unchecked(d) == [box EXCEPT ![d] = IF @ = "on" THEN "off" ELSE @]

\* connect_cb, _disconnect_cb and connect_cb_data_free, after
\* _connect_device_async_cb and _disconnect_device_async_cb of the manager; the
\* manager's own requests end in auto_connect_cb, of which the widget hears not.
Answer(i) ==
  LET c == calls[i] IN
  /\ c.state # "running" /\ calls' = RemoveAt(calls, i)
  /\ redirecting' = (redirecting /\ c.kind = "onconnect")
  /\ UNCHANGED <<plug, room, held, open, lost, own, clicks, errors>>
  /\ \/ /\ c.kind \notin Own
        /\ box' = IF c.kind = "connect" /\ c.state = "error" THEN Unchecked(c.dev) ELSE box
        /\ update_status
     \/ /\ c.kind \in Own
        /\ stale' = TRUE /\ UNCHANGED view

(***************************************************************************)
(* The manager                                                             *)
(***************************************************************************)
\* The channel serves a request: spice_usbredir_channel_open_acl_cb with
\* open_device, or the thread of a disconnection
Serve(i) ==
  LET c == calls[i] IN
  /\ c.state = "running"
  /\ \/ /\ c.kind = "disconnect" /\ held' = LetGo(c.dev)
        /\ calls' = [calls EXCEPT ![i].state = "ok"]
     \/ /\ c.kind # "disconnect" /\ held[c.dev] = "asked"
        /\ held' = [held EXCEPT ![c.dev] = "yes"]
        /\ calls' = [calls EXCEPT ![i].state = "ok"]
     \/ /\ c.kind # "disconnect" /\ held' = [held EXCEPT ![c.dev] = "no"]
        /\ calls' = [calls EXCEPT ![i].state = "error"]
  /\ stale' = (stale \/ c.kind \in Own)
  /\ UNCHANGED <<plug, room, redirecting, view, open, lost, own, clicks, errors>>

\* add_dev and device_added_cb
DeviceAdded(d) ==
  /\ plug[d] = "away" /\ plug' = [plug EXCEPT ![d] = "here"]
  /\ \/ /\ CanRedirect(d) /\ Connect("auto", d) /\ redirecting' = TRUE
        /\ own' = own \union {d}
     \/ UNCHANGED <<held, calls, redirecting, own>>
  /\ UNCHANGED <<room, open, lost, clicks, errors>>
  /\ \/ ~open /\ UNCHANGED <<view, stale>>
     \/ open /\ box' = [box EXCEPT ![d] = BoxOf(d)'] /\ update_status

\* remove_dev and device_removed_cb
DeviceRemoved(d) ==
  /\ plug[d] = "here" /\ plug' = [plug EXCEPT ![d] = "gone"]
  /\ held' = LetGo(d)
  /\ UNCHANGED <<room, redirecting, calls, open, lost, own, clicks, errors>>
  /\ \/ ~open /\ UNCHANGED <<view, stale>>
     \/ open /\ box' = [box EXCEPT ![d] = "none"] /\ update_status

\* device_error of the channel, and device_error_cb: a check box that is made
\* inactive has been clicked.
DeviceError(d) ==
  /\ errors < MaxErrors /\ held[d] # "no" /\ errors' = errors + 1
  /\ held' = LetGo(d)
  /\ \/ /\ open /\ box[d] = "on" /\ box' = [box EXCEPT ![d] = "off"]
        /\ Disconnect(d, held') /\ UNCHANGED <<plug, room, open, own, clicks>>
        /\ update_status
     \/ /\ open /\ box[d] # "on"
        /\ UNCHANGED <<plug, room, redirecting, calls, box, open, lost, own, clicks>>
        /\ update_status
     \/ /\ ~open
        /\ UNCHANGED <<plug, room, redirecting, calls, view, open, lost, own, stale, clicks>>

\* channel_new and check_redir_on_connect
ChannelNew ==
  /\ room < MaxRoom /\ room' = room + 1 /\ stale' = TRUE
  /\ \/ UNCHANGED <<held, calls, own>>
     \/ \E d \in Devices :
          /\ plug[d] = "here" /\ held[d] = "no"
          /\ held' = [held EXCEPT ![d] = "asked"] /\ own' = own \union {d}
          /\ calls' = Append(calls, [kind |-> "onconnect", dev |-> d, state |-> "running"])
  /\ UNCHANGED <<plug, redirecting, view, open, lost, clicks, errors>>

Next ==
  \/ \E d \in Devices : Click(d) \/ DeviceAdded(d) \/ DeviceRemoved(d) \/ DeviceError(d)
  \/ \E i \in DOMAIN calls : Answer(i) \/ Serve(i)
  \/ Constructed \/ Finalize \/ ChannelNew

Spec == Init /\ [][Next]_vars

(***************************************************************************)
(* Properties                                                              *)
(***************************************************************************)
\* With no request under way, a check box is active when its device is redirected
\* and only then, whatever failed, was clicked again or was unplugged meanwhile;
\* of the devices the manager redirected of itself the widget is not told.
\* Without Prompt the end of an old request may come after a new one has begun.
BoxTellsDevice ==
  open /\ calls = <<>> =>
    \A d \in Devices \ own : plug[d] = "here" => (box[d] = "on" <=> held[d] = "yes")

\* With no request under way, the user can click what can be redirected, and is told
\* when there is something that cannot: no end of a request leaves the boxes as they
\* were while it ran.  Of what the manager did of itself the widget is not told.
BoxesAreLive ==
  open /\ calls = <<>> /\ ~stale =>
    /\ bar # "redirecting"
    /\ \A d \in Devices : plug[d] = "here" => (clickable[d] <=> CanRedirect(d))

=============================================================================
