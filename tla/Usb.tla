-------------------------------- MODULE Usb --------------------------------
(***************************************************************************)
(* USB redirection: the device manager (usb-device-manager.c), its         *)
(* channels (channel-usbredir.c) and the ACL helper (usb-acl-helper.c).    *)
(*                                                                         *)
(* The main context runs idles and callbacks; disconnections run in        *)
(* threads, and so do connections in a build without polkit.  A thread     *)
(* holds device_connect_mutex of its channel; open_acl_cb takes no lock.   *)
(* The build has libusb hotplug: the manager is a listener of its own.     *)
(***************************************************************************)
EXTENDS Integers, Sequences, FiniteSets, SequencesExt

CONSTANTS
  Channels, Devices, Threads, None,
  MaxOps,    \* bound: requests for connection and disconnection
  MaxErrors  \* bound: messages the host part refuses

UsbAssumption ==
  /\ "main" \notin Threads /\ IsFiniteSet(Channels)
  /\ None \notin Channels \union Devices \union Threads \union {"main"}
  /\ MaxOps \in Nat /\ MaxErrors \in Nat

VARIABLES
  polkit,      \* the build has it
  bus,         \* of a device: "away", "plugged", "gone"
  devices, removed, \* the manager's list, and the devices that left it
  channels,    \* the manager's list
  life,        \* of a channel object: "new", "alive", "gone"
  st, dev,     \* priv->state, priv->device
  helper,      \* the ACL helper: none, asking, or what its task returned
  grab, redirecting, \* inhibit-keyboard-grab, redirecting
  request,     \* who asked for the connection a channel makes: user, manager
  answers, asked, \* answers to the user's requests on their way, requests made
  job,         \* what each agent does
  lock,        \* who holds device_connect_mutex
  listeners,   \* event_listeners
  raced,       \* two agents changed event_listeners at once
  reader,      \* the device whose error parked the coroutine
  errors       \* the errors so far

lists == <<devices, removed, channels, life>>
ui == <<grab, redirecting>>
ops == <<request, answers, asked>>
count == <<listeners, raced>>
chan == <<st, dev, helper>>
vars == <<polkit, bus, lists, chan, ui, ops, job, lock, count, reader, errors>>

Agents == Threads \union {"main"}
NoJob == [kind |-> "none", chan |-> None, pc |-> "none", saw |-> 0, then |-> "none"]
Jobs == [kind : {"none", "open", "close"}, chan : Channels \union {None},
         pc : {"none", "start", "store"}, saw : Int, then : {"none", "tell", "error"}]

TypeOK ==
  /\ polkit \in BOOLEAN /\ grab \in BOOLEAN /\ redirecting \in BOOLEAN
  /\ bus \in [Devices -> {"away", "plugged", "gone"}]
  /\ devices \subseteq Devices /\ removed \subseteq Devices
  /\ channels \in Seq(Channels) /\ life \in [Channels -> {"new", "alive", "gone"}]
  /\ st \in [Channels -> {"DISCONNECTED", "WAITING", "CONNECTED", "DISCONNECTING"}]
  /\ dev \in [Channels -> Devices \union {None}]
  /\ helper \in [Channels -> {"none", "asking", "ok", "error"}]
  /\ request \in [Channels -> {"none", "user", "manager"}]
  /\ answers \in 0 .. MaxOps /\ asked \in 0 .. MaxOps /\ job \in [Agents -> Jobs]
  /\ lock \in [Channels -> Agents \union {None}]
  /\ listeners \in Int /\ raced \in BOOLEAN /\ errors \in 0 .. MaxErrors
  /\ reader \in [Channels -> Devices \union {None}]

Init ==
  /\ polkit \in BOOLEAN /\ grab = FALSE /\ redirecting = FALSE
  /\ bus = [d \in Devices |-> "away"] /\ devices = {} /\ removed = {}
  /\ channels = <<>>
  /\ life = [c \in Channels |-> "new"]
  /\ st = [c \in Channels |-> "DISCONNECTED"] /\ dev = [c \in Channels |-> None]
  /\ helper = [c \in Channels |-> "none"]
  /\ request = [c \in Channels |-> "none"] /\ answers = 0 /\ asked = 0
  /\ job = [a \in Agents |-> NoJob] /\ lock = [c \in Channels |-> None]
  /\ listeners = 1 /\ raced = FALSE
  /\ reader = [c \in Channels |-> None] /\ errors = 0

Listed == ToSet(channels)
MainIdle == job["main"] = NoJob
FreeThreads == {t \in Threads : job[t] = NoJob}

\* get_channel_for_dev, is_device_connected: a channel holds the device from
\* the request on, whatever its state.
Holders(d) == {c \in Listed : dev[c] = d}
OnlyConnected(d) == \E c \in Holders(d) : st[c] = "CONNECTED" \* a mutant
IsConnected(d) == Holders(d) # {}
Free(c) == dev[c] = None

NewJob(kind, c, then) ==
  [kind |-> kind, chan |-> c, pc |-> "start", saw |-> 0, then |-> then]

(***************************************************************************)
(* The bus.  A device that is plugged again is another device.             *)
(***************************************************************************)
Plug(d) ==
  /\ bus[d] = "away" /\ bus' = [bus EXCEPT ![d] = "plugged"]
  /\ UNCHANGED <<polkit, lists, chan, ui, ops, job, lock, count, reader, errors>>
Unplug(d) ==
  /\ bus[d] = "plugged" /\ bus' = [bus EXCEPT ![d] = "gone"]
  /\ UNCHANGED <<polkit, lists, chan, ui, ops, job, lock, count, reader, errors>>

(***************************************************************************)
(* Requests to connect                                                     *)
(***************************************************************************)
\* spice_usbredir_channel_connect_device_async
ChannelConnect(c, d, who) ==
  /\ asked' = asked + 1
  /\ \/ /\ st[c] # "DISCONNECTED"
        /\ answers' = IF who = "user" THEN answers + 1 ELSE answers
        /\ UNCHANGED <<chan, job, grab, request>>
     \/ /\ st[c] = "DISCONNECTED"
        /\ request' = [request EXCEPT ![c] = who] /\ dev' = [dev EXCEPT ![c] = d]
        /\ \/ /\ polkit
              /\ st' = [st EXCEPT ![c] = "WAITING"]
              /\ helper' = [helper EXCEPT ![c] = "asking"]
              /\ grab' = TRUE /\ UNCHANGED job
           \/ /\ ~polkit
              /\ \E t \in FreeThreads : job' = [job EXCEPT ![t] = NewJob("open", c, "none")]
              /\ UNCHANGED <<st, helper, grab>>
        /\ UNCHANGED answers

\* _spice_usb_device_manager_connect_device_async: the first free channel
Connect(d) ==
  /\ asked < MaxOps /\ redirecting' = TRUE
  /\ \/ /\ \/ IsConnected(d)
           \/ \A c \in Listed : ~Free(c)
        /\ answers' = answers + 1 /\ asked' = asked + 1
        /\ UNCHANGED <<chan, job, grab, request>>
     \/ /\ ~IsConnected(d)
        /\ \E i \in DOMAIN channels :
             /\ Free(channels[i]) /\ \A j \in 1 .. i - 1 : ~Free(channels[j])
             /\ ChannelConnect(channels[i], d, "user")

ConnectDevice(d) ==
  /\ MainIdle /\ d \in devices /\ Connect(d)
  /\ UNCHANGED <<polkit, bus, lists, lock, count, reader, errors>>

\* spice_usb_device_manager_add_dev; auto-connect is a choice of the user and
\* of the filters, and can_redirect wants a free channel.
AddDev(d) ==
  /\ MainIdle /\ bus[d] # "away" /\ d \notin devices \union removed
  /\ devices' = devices \union {d}
  /\ \/ UNCHANGED <<chan, ui, ops, job>>
     \/ (\E c \in Listed : Free(c)) /\ Connect(d)
  /\ UNCHANGED <<polkit, bus, removed, channels, life, lock, count, reader, errors>>

\* channel_new, with check_redir_on_connect
ChannelNew(c) ==
  /\ MainIdle /\ life[c] = "new"
  /\ life' = [life EXCEPT ![c] = "alive"] /\ channels' = Append(channels, c)
  /\ \/ UNCHANGED <<chan, ops, job, grab>>
     \/ /\ asked < MaxOps
        /\ \E d \in devices : ~IsConnected(d) /\ ChannelConnect(c, d, "manager")
  /\ UNCHANGED <<polkit, bus, devices, removed, redirecting, lock, count, reader, errors>>

(***************************************************************************)
(* The ACL helper: cb_out_watch, cancelled_cb, spice_usb_acl_helper_cancel *)
(***************************************************************************)
HelperAnswers(c) ==
  /\ MainIdle /\ helper[c] = "asking"
  /\ \E r \in {"ok", "error"} : helper' = [helper EXCEPT ![c] = r]
  /\ UNCHANGED <<polkit, bus, lists, st, dev, ui, ops, job, lock, count, reader, errors>>
\* The critical of a helper without a task leaves everything as it is.
AfterCancel(c) == IF helper[c] = "asking" THEN "error" ELSE helper[c]

\* The end of the task of a connection
Answered(c) ==
  /\ request' = [request EXCEPT ![c] = "none"]
  /\ answers' = IF request[c] = "user" THEN answers + 1 ELSE answers
  /\ UNCHANGED asked

\* What open_acl_cb does on an error
OpenFails(c) ==
  /\ dev' = [dev EXCEPT ![c] = None] /\ st' = [st EXCEPT ![c] = "DISCONNECTED"]
  /\ helper' = [helper EXCEPT ![c] = "none"]
  /\ Answered(c) /\ grab' = FALSE

\* spice_usbredir_channel_open_acl_cb, up to the call of open_device
Refused(c) == helper[c] = "error" \/ st[c] = "DISCONNECTING"
OpenAclCb(c) ==
  /\ MainIdle /\ helper[c] \in {"ok", "error"} /\ st[c] \in {"WAITING", "DISCONNECTING"}
  /\ \/ /\ Refused(c)
        /\ OpenFails(c) /\ UNCHANGED job
     \/ /\ ~Refused(c)
        /\ job' = [job EXCEPT !["main"] = NewJob("open", c, "none")]
        /\ UNCHANGED <<chan, ops, grab>>
  /\ UNCHANGED <<polkit, bus, lists, redirecting, lock, count, reader, errors>>

(***************************************************************************)
(* open_device, by the main context or by a thread that takes the lock     *)
(***************************************************************************)
Open(a) ==
  LET c == job[a].chan IN
  /\ job[a].kind = "open" /\ job[a].pc = "start"
  /\ a # "main" => lock[c] = None
  /\ \/ /\ bus[dev[c]] = "plugged"
        /\ job' = [job EXCEPT ![a].pc = "store", ![a].saw = listeners]
        /\ lock' = IF a = "main" THEN lock ELSE [lock EXCEPT ![c] = a]
        /\ UNCHANGED <<chan, grab, ops>>
     \/ /\ OpenFails(c) \* libusb_open or usbredirhost_set_device refuse it
        /\ job' = [job EXCEPT ![a] = NoJob] /\ UNCHANGED lock
  /\ UNCHANGED <<polkit, bus, lists, redirecting, count, reader, errors>>

Storing(a) == \E b \in Agents \ {a} : job[b].pc = "store"
\* start_event_listening, STATE_CONNECTED and the end of the task
Opened(a) ==
  LET c == job[a].chan IN
  /\ job[a].kind = "open" /\ job[a].pc = "store"
  /\ listeners' = job[a].saw + 1 /\ raced' = (raced \/ Storing(a))
  /\ st' = [st EXCEPT ![c] = "CONNECTED"]
  /\ helper' = [helper EXCEPT ![c] = "none"]
  /\ grab' = IF a = "main" THEN FALSE ELSE grab
  /\ Answered(c)
  /\ lock' = IF lock[c] = a THEN [lock EXCEPT ![c] = None] ELSE lock
  /\ job' = [job EXCEPT ![a] = NoJob]
  /\ UNCHANGED <<polkit, bus, lists, dev, redirecting, reader, errors>>

(***************************************************************************)
(* spice_usbredir_channel_disconnect_device                                *)
(***************************************************************************)
\* What follows it: the answer of the task, the end of device_error
Finished(a, c) ==
  /\ answers' = IF job[a].then = "tell" THEN answers + 1 ELSE answers
  /\ UNCHANGED <<request, asked>>
  /\ reader' = IF job[a].then = "error" THEN [reader EXCEPT ![c] = None] ELSE reader
  /\ job' = [job EXCEPT ![a] = NoJob]
Close(a) ==
  LET c == job[a].chan IN
  /\ job[a].kind = "close" /\ job[a].pc = "start" /\ lock[c] = None
  /\ \/ /\ st[c] \in {"DISCONNECTED", "DISCONNECTING"}
        /\ Finished(a, c) /\ UNCHANGED <<chan, lock>>
     \/ /\ st[c] = "WAITING"
        /\ st' = [st EXCEPT ![c] = "DISCONNECTING"]
        /\ helper' = [helper EXCEPT ![c] = AfterCancel(c)]
        /\ Finished(a, c) /\ UNCHANGED <<dev, lock>>
     \/ /\ st[c] = "CONNECTED"
        /\ lock' = [lock EXCEPT ![c] = a]
        /\ job' = [job EXCEPT ![a].pc = "store", ![a].saw = listeners]
        /\ UNCHANGED <<chan, ops, reader>>
  /\ UNCHANGED <<polkit, bus, lists, ui, count, errors>>
\* stop_event_listening, usbredirhost_set_device and the rest
Closed(a) ==
  LET c == job[a].chan IN
  /\ job[a].kind = "close" /\ job[a].pc = "store"
  /\ listeners' = job[a].saw - 1 /\ raced' = (raced \/ Storing(a))
  /\ dev' = [dev EXCEPT ![c] = None] /\ st' = [st EXCEPT ![c] = "DISCONNECTED"]
  /\ lock' = [lock EXCEPT ![c] = None]
  /\ Finished(a, c)
  /\ UNCHANGED <<polkit, bus, lists, helper, ui, errors>>

\* spice_usb_device_manager_disconnect_device
DisconnectDevice(d) ==
  /\ MainIdle /\ d \in devices
  /\ \E c \in Holders(d) : job' = [job EXCEPT !["main"] = NewJob("close", c, "none")]
  /\ UNCHANGED <<polkit, bus, lists, chan, ui, ops, lock, count, reader, errors>>
\* spice_usb_device_manager_disconnect_device_async
DisconnectAsync(d) ==
  /\ MainIdle /\ asked < MaxOps
  /\ redirecting' = TRUE /\ asked' = asked + 1
  /\ \E t \in FreeThreads, c \in Holders(d) :
       job' = [job EXCEPT ![t] = NewJob("close", c, "tell")]
  /\ UNCHANGED <<polkit, bus, lists, chan, request, answers, grab, lock, count, reader, errors>>

\* spice_usb_device_manager_remove_dev; the list is seen by the main context only
RemoveDev(d) ==
  /\ MainIdle /\ bus[d] = "gone" /\ d \in devices
  /\ \/ \E c \in Holders(d) : job' = [job EXCEPT !["main"] = NewJob("close", c, "none")]
     \/ ~IsConnected(d) /\ UNCHANGED job
  /\ devices' = devices \ {d} /\ removed' = removed \union {d}
  /\ UNCHANGED <<polkit, bus, channels, life, chan, ui, ops, lock, count, reader, errors>>

\* _connect_device_async_cb, _disconnect_device_async_cb and the callers' own
Tell ==
  /\ MainIdle /\ answers > 0 /\ answers' = answers - 1
  /\ redirecting' = FALSE
  /\ UNCHANGED <<polkit, bus, lists, chan, grab, request, asked, job, lock, count, reader, errors>>

(***************************************************************************)
(* Errors of the host part, resets, and the end of a channel               *)
(***************************************************************************)
\* usbredir_handle_msg: the coroutine waits for device_error
HandleMsgFails(c) ==
  /\ MainIdle /\ life[c] = "alive" /\ errors < MaxErrors /\ lock[c] = None
  /\ reader[c] = None /\ dev[c] # None
  /\ reader' = [reader EXCEPT ![c] = dev[c]] /\ errors' = errors + 1
  /\ UNCHANGED <<polkit, bus, lists, chan, ui, ops, job, lock, count>>
\* device_error
SameDevice(c) == reader[c] = dev[c]
DeviceError(c) ==
  /\ MainIdle /\ reader[c] # None
  /\ \/ /\ SameDevice(c)
        /\ job' = [job EXCEPT !["main"] = NewJob("close", c, "error")]
        /\ UNCHANGED reader
     \/ /\ ~SameDevice(c)
        /\ reader' = [reader EXCEPT ![c] = None] /\ UNCHANGED job
  /\ UNCHANGED <<polkit, bus, lists, chan, ui, ops, lock, count, errors>>

\* spice_usbredir_channel_reset: only a connected device is let go, in a thread.
\* What _channel_reset_finish makes anew is the host part, not modelled.
ChannelReset(c) ==
  /\ MainIdle /\ life[c] = "alive" /\ st[c] = "CONNECTED" /\ reader[c] = None
  /\ \E t \in FreeThreads : job' = [job EXCEPT ![t] = NewJob("close", c, "none")]
  /\ UNCHANGED <<polkit, bus, lists, chan, ui, ops, lock, count, reader, errors>>

\* channel_destroy; the tasks keep the object
ChannelDestroy(c) ==
  /\ MainIdle
  /\ \E i \in DOMAIN channels : channels[i] = c /\ channels' = RemoveAt(channels, i)
  /\ UNCHANGED <<polkit, bus, devices, removed, life, chan, ui, ops, job, lock, count, reader, errors>>
\* dispose
Dispose(c) ==
  /\ MainIdle /\ life[c] = "alive" /\ c \notin Listed
  /\ helper[c] = "none" /\ reader[c] = None /\ \A a \in Agents : job[a].chan # c
  /\ life' = [life EXCEPT ![c] = "gone"]
  /\ job' = [job EXCEPT !["main"] = NewJob("close", c, "none")]
  /\ UNCHANGED <<polkit, bus, devices, removed, channels, chan, ui, ops, lock, count, reader, errors>>

Next ==
  \/ \E d \in Devices : Plug(d) \/ Unplug(d) \/ ConnectDevice(d)
                        \/ DisconnectDevice(d) \/ DisconnectAsync(d)
                        \/ AddDev(d) \/ RemoveDev(d)
  \/ \E c \in Channels : ChannelNew(c) \/ HelperAnswers(c) \/ OpenAclCb(c)
                         \/ HandleMsgFails(c) \/ DeviceError(c) \/ ChannelReset(c)
                         \/ ChannelDestroy(c) \/ Dispose(c)
  \/ \E a \in Agents : Open(a) \/ Opened(a) \/ Close(a) \/ Closed(a)
  \/ Tell

Spec == Init /\ [][Next]_vars

(***************************************************************************)
(* Properties                                                              *)
(***************************************************************************)
\* A device is given to one channel only, also while the first one still asks
\* for the right to open it (is_device_connected, check_redir_on_connect).
OneHolder == \A c1, c2 \in Listed : c1 # c2 /\ dev[c1] = dev[c2] => dev[c1] = None

\* A device that left the bus and the list is not kept open by a channel,
\* whatever remove_dev found the channel doing (remove_dev, open_acl_cb).
GoneIsReleased ==
  MainIdle => \A c \in Listed : st[c] = "CONNECTED" => dev[c] \in devices

\* What device_error disconnects is the device that failed, not one the channel
\* has got since, although it looks at the device before it has the lock.
ErrorIsOwn ==
  \A c \in Channels :
    lock[c] = "main" /\ job["main"].then = "error" => dev[c] = reader[c]

\* The keyboard grab is not inhibited, nor the manager redirecting, when
\* nobody asks for anything any more (open_acl_cb, _connect_device_async_cb).
Released ==
  /\ grab => \E c \in Channels : st[c] \in {"WAITING", "DISCONNECTING"}
  /\ redirecting => \/ answers > 0
                    \/ \E c \in Channels : request[c] = "user"
                    \/ \E a \in Agents : job[a].then = "tell"

\* Unless two agents changed it at once, event_listeners counts the manager and
\* the connected channels: the event thread neither stops early nor stays.
CountExact ==
  raced \/ listeners = 1 + Cardinality({c \in Channels : st[c] = "CONNECTED"})

\* "Disconnects the @device": when a disconnection ends, its channel neither
\* holds the device connected nor is about to.
DisconnectDisconnects ==
  [][\A a \in Agents : job[a].kind = "close" /\ job'[a].kind = "none" =>
       LET c == job[a].chan IN
       /\ st'[c] \in {"DISCONNECTED", "DISCONNECTING"}
       /\ \A b \in Agents : job'[b].chan = c => job'[b].kind # "open"]_vars

=============================================================================
