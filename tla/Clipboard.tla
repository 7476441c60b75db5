----------------------------- MODULE Clipboard -----------------------------
(***************************************************************************)
(* One clipboard selection shared between the desktop of the client and    *)
(* the guest (spice-gtk-session.c, and the clipboard messages of           *)
(* channel-main.c).  The code keeps one copy of this state per selection   *)
(* and they do not touch, so the model has one.                            *)
(*                                                                         *)
(* Each side announces that it took the clipboard ("grab") and that it     *)
(* lost it ("release"); the contents are asked for when somebody pastes.   *)
(* The client learns of a new owner by an event that comes later, asks it  *)
(* for its targets and announces it when the answer has come, so every     *)
(* decision is made on an owner that may have changed.  A paste in the     *)
(* client runs a main loop of its own until the guest has answered.        *)
(*                                                                         *)
(* The agent and the other applications of the desktop are external.  The  *)
(* agent has the capabilities CLIPBOARD_BY_DEMAND and CLIPBOARD_SELECTION, *)
(* and answers every request.                                              *)
(***************************************************************************)
EXTENDS Naturals, Sequences

CONSTANTS
    CrossingGrabs,  \* whether both sides may take the clipboard at once
    MaxCopies,      \* how often an application of the client takes or drops it
    MaxGuestCopies, \* how often an application of the guest does
    MaxPastes,      \* requests of either side
    MaxStops        \* how often the agent goes, or the main channel

VARIABLES
    auto,       \* the property auto-clipboard of SpiceGtkSession
    main,       \* s->main # NULL
    connected,  \* c->agent_connected
    grabbed,    \* clip_grabbed: the client told the agent that it owns it
    byGuest,    \* clipboard_by_guest: the session put the guest's data there
    hasdata,    \* clip_hasdata: an application of the client has data
    targets,    \* nclip_targets > 0: the guest offers data
    local,      \* the owner of the selection: "app", "self" or "none"
    changes,    \* owner-change events that were not dispatched yet
    lookups,    \* requests for targets that were not answered yet
    reads,      \* requests of the guest that the desktop is answering
    waits,      \* one per clipboard_get on the stack: whether its loop quits
    agent,      \* who owns the clipboard of the guest: "guest", "client", "none"
    known,      \* no agent has gone since the main channel came
    toAgent, toClient, copies, guestCopies, pastes, stops

flags == <<grabbed, byGuest, hasdata, targets>>
guest == <<agent, guestCopies, auto>>
count == <<copies, pastes, stops>>
vars == <<main, connected, flags, local, changes, lookups, reads, waits,
          guest, known, toAgent, toClient, count>>

Has(s, m) == \E i \in DOMAIN s : s[i] = m
Quit(w) == [i \in DOMAIN w |-> TRUE]

\* The messages of agent_clipboard_*: nothing goes to an agent that is not there.
Queued(m) == IF main /\ connected THEN Append(toAgent, m) ELSE toAgent

Init ==
    /\ auto \in BOOLEAN /\ main = TRUE /\ connected = TRUE /\ known = TRUE
    /\ grabbed = FALSE /\ byGuest = FALSE /\ hasdata = FALSE /\ targets = FALSE
    /\ local = "none" /\ changes = <<>> /\ lookups = 0 /\ reads = 0
    /\ waits = <<>> /\ agent = "none" /\ toAgent = <<>> /\ toClient = <<>>
    /\ copies = 0 /\ guestCopies = 0 /\ pastes = 0 /\ stops = 0

----------------------------------------------------------------------------
\* The desktop of the client.

\* An application of the client takes the selection, or the owner goes.
AppCopies ==
    /\ copies < MaxCopies
    /\ CrossingGrabs \/ ~Has(toClient, "grab")
    /\ \E o \in {"app", "none"} :
         /\ o = "none" => local = "app"
         /\ local' = o
         /\ changes' = Append(changes, IF o = "app" THEN "new" ELSE "gone")
    /\ copies' = copies + 1
    /\ UNCHANGED <<main, connected, flags, lookups, reads, waits, guest, known,
                   toAgent, toClient, pastes, stops>>

\* gtk_clipboard_request_targets: nobody answers for a selection without owner.
LookedUp == IF local = "app" THEN lookups + 1 ELSE lookups

\* clipboard_owner_change: the grab the guest knows of is over, whoever owns
\* the selection now; a new owner that is not this session is looked at.
clipboard_owner_change ==
    /\ changes # <<>>
    /\ changes' = Tail(changes)
    /\ IF ~main
       THEN UNCHANGED <<flags, lookups, toAgent>>
       ELSE /\ grabbed' = FALSE
            /\ toAgent' = IF grabbed THEN Queued("release") ELSE toAgent
            /\ LET theirs == Head(changes) = "new" /\ local # "self"
               IN  /\ byGuest' = (byGuest /\ ~theirs)
                   /\ hasdata' = IF Head(changes) = "new"
                                 THEN hasdata \/ theirs ELSE FALSE
                   /\ lookups' = IF theirs /\ auto THEN LookedUp ELSE lookups
            /\ UNCHANGED targets
    /\ UNCHANGED <<main, connected, local, reads, waits, guest, known, toClient,
                   count>>

\* What the session forgets when it announces the clipboard of the client.
OfferedToGuest == /\ grabbed' = TRUE /\ targets' = FALSE

\* clipboard_get_targets: the answer to a lookup.  It may have failed, or name
\* nothing the protocol knows; it may be about an owner that is gone.
clipboard_get_targets ==
    /\ lookups > 0
    /\ lookups' = lookups - 1
    /\ \E some \in BOOLEAN :
         IF main /\ ~grabbed /\ some
         THEN /\ OfferedToGuest
              /\ toAgent' = Queued("grab")
         ELSE UNCHANGED <<grabbed, targets, toAgent>>
    /\ UNCHANGED <<main, connected, byGuest, hasdata, local, changes, reads,
                   waits, guest, known, toClient, count>>

\* The user copies to the guest by hand (spice_gtk_session_copy_to_guest).
CopyToGuest ==
    /\ ~auto /\ hasdata /\ ~grabbed /\ lookups = 0
    /\ CrossingGrabs \/ ~Has(toClient, "grab")
    /\ lookups' = LookedUp
    /\ UNCHANGED <<main, connected, flags, local, changes, reads, waits, guest,
                   known, toAgent, toClient, count>>

\* gtk_clipboard_set_with_owner: the session owns the selection, for the guest.
TakenForGuest ==
    /\ local' = "self"
    /\ changes' = Append(changes, "new")
    /\ byGuest' = TRUE /\ hasdata' = FALSE

\* spice_gtk_session_paste_from_guest.
PasteFromGuest ==
    /\ ~auto /\ targets /\ ~byGuest
    /\ CrossingGrabs \/ lookups = 0
    /\ TakenForGuest
    /\ UNCHANGED <<main, connected, grabbed, targets, lookups, reads, waits,
                   guest, known, toAgent, toClient, count>>

\* clipboard_get: an application pastes what this session owns.  The request
\* goes out and a loop runs, unless the agent is not there.
clipboard_get ==
    /\ local = "self" /\ pastes < MaxPastes /\ Len(waits) < 2
    /\ main /\ connected
    /\ toAgent' = Queued("request")
    /\ waits' = Append(waits, FALSE)
    /\ pastes' = pastes + 1
    /\ UNCHANGED <<main, connected, flags, local, changes, lookups, reads, guest,
                   known, toClient, copies, stops>>

\* The innermost loop returns; those below it have to wait for it.
LoopReturns ==
    /\ waits # <<>> /\ waits[Len(waits)]
    /\ waits' = SubSeq(waits, 1, Len(waits) - 1)
    /\ UNCHANGED <<main, connected, flags, local, changes, lookups, reads, guest,
                   known, toAgent, toClient, count>>

\* clipboard_received_cb, clipboard_received_text_cb: contents that are too
\* long, or exactly as long as the limit, may go without an answer.
Received ==
    /\ reads > 0
    /\ reads' = reads - 1
    /\ \E sent \in BOOLEAN : toAgent' = IF sent THEN Queued("data") ELSE toAgent
    /\ UNCHANGED <<main, connected, flags, local, changes, lookups, waits, guest,
                   known, toClient, count>>

----------------------------------------------------------------------------
\* What comes from the guest.  The agent announces what its applications do.

GuestCopies ==
    /\ connected /\ guestCopies < MaxGuestCopies
    /\ CrossingGrabs \/ /\ lookups = 0 /\ changes = <<>> /\ ~Has(toAgent, "grab")
    /\ \/ agent' = "guest" /\ toClient' = Append(toClient, "grab")
       \/ agent = "guest" /\ agent' = "none" /\ toClient' = Append(toClient, "release")
    /\ guestCopies' = guestCopies + 1
    /\ UNCHANGED <<auto, main, connected, flags, local, changes, lookups, reads, waits,
                   known, toAgent, count>>

GuestPastes ==
    /\ connected /\ agent = "client" /\ pastes < MaxPastes
    /\ toClient' = Append(toClient, "request")
    /\ pastes' = pastes + 1
    /\ UNCHANGED <<main, connected, flags, local, changes, lookups, reads, waits,
                   guest, known, toAgent, copies, stops>>

AgentHandles ==
    /\ connected /\ toAgent # <<>>
    /\ toAgent' = Tail(toAgent)
    /\ agent' = CASE Head(toAgent) = "grab" -> "client"
                  [] Head(toAgent) = "release" /\ agent = "client" -> "none"
                  [] OTHER -> agent
    /\ toClient' = IF Head(toAgent) = "request"
                   THEN Append(toClient, "data") ELSE toClient
    /\ UNCHANGED <<main, connected, flags, local, changes, lookups, reads, waits,
                   guestCopies, auto, known, count>>

Arrives(m) ==
    /\ main /\ connected /\ toClient # <<>> /\ Head(toClient) = m
    /\ toClient' = Tail(toClient)

\* clipboard_grab: receiving a grab implies that our own is released.
clipboard_grab ==
    /\ Arrives("grab")
    /\ targets' = TRUE /\ grabbed' = FALSE
    /\ IF auto THEN TakenForGuest ELSE UNCHANGED <<local, changes, byGuest, hasdata>>
    /\ UNCHANGED <<main, connected, lookups, reads, waits, guest, known, toAgent,
                   count>>

\* gtk_clipboard_clear, which does nothing when somebody else owns it.
Cleared ==
    /\ local' = IF byGuest /\ local = "self" THEN "none" ELSE local
    /\ changes' = IF byGuest /\ local = "self" THEN Append(changes, "gone") ELSE changes
    /\ byGuest' = FALSE

\* clipboard_release.
clipboard_release ==
    /\ Arrives("release")
    /\ targets' = FALSE
    /\ Cleared
    /\ UNCHANGED <<main, connected, grabbed, hasdata, lookups, reads, waits, guest,
                   known, toAgent, count>>

\* clipboard_request: refused when the client does not think it owns it.
clipboard_request ==
    /\ Arrives("request")
    /\ reads' = IF ~byGuest /\ grabbed THEN reads + 1 ELSE reads
    /\ UNCHANGED <<main, connected, flags, local, changes, lookups, waits, guest,
                   known, toAgent, count>>

\* clipboard_got_from_guest: every loop that runs takes the answer for its own.
clipboard_got_from_guest ==
    /\ Arrives("data")
    /\ waits' = Quit(waits)
    /\ UNCHANGED <<main, connected, flags, local, changes, lookups, reads, guest,
                   known, toAgent, count>>

----------------------------------------------------------------------------
\* The agent and the main channel come and go.

\* Mutant: a paste waits on although its agent has gone.
GoesOnWaiting == UNCHANGED waits

\* clipboard_agent_connected, on the notification of set_agent_connected.
StopsWaiting == waits' = Quit(waits)

AgentGone ==
    /\ connected' = FALSE
    /\ StopsWaiting
    /\ toAgent' = <<>> /\ toClient' = <<>> /\ agent' = "none"
    /\ stops' = stops + 1
    /\ UNCHANGED <<lookups, reads, guestCopies, auto, copies, pastes>>

\* The agent goes (agent_stopped): the session keeps what it believes.
AgentStops ==
    /\ main /\ connected /\ stops < MaxStops
    /\ AgentGone
    /\ known' = FALSE
    /\ UNCHANGED <<main, flags, local, changes>>

\* The main channel is reset and destroyed (channel_destroy).
channel_destroy ==
    /\ main /\ stops < MaxStops
    /\ AgentGone
    /\ main' = FALSE /\ grabbed' = FALSE /\ targets' = FALSE
    /\ Cleared
    /\ UNCHANGED <<hasdata, known>>

\* A new main channel (channel_new), and its agent (agent_start).
AgentStarts ==
    /\ ~connected
    /\ main' = TRUE /\ connected' = TRUE
    /\ known' = (known \/ ~main)
    /\ UNCHANGED <<flags, local, changes, lookups, reads, waits, guest, toAgent,
                   toClient, count>>

Next ==
    \/ AppCopies \/ clipboard_owner_change \/ clipboard_get_targets \/ CopyToGuest
    \/ PasteFromGuest \/ clipboard_get \/ LoopReturns \/ Received
    \/ GuestCopies \/ GuestPastes \/ AgentHandles
    \/ clipboard_grab \/ clipboard_release \/ clipboard_request
    \/ clipboard_got_from_guest \/ AgentStops \/ channel_destroy \/ AgentStarts

Spec == Init /\ [][Next]_vars

----------------------------------------------------------------------------
TypeOK ==
    /\ {auto, main, connected, grabbed, byGuest, hasdata, targets, known} \subseteq BOOLEAN
    /\ local \in {"app", "self", "none"} /\ agent \in {"guest", "client", "none"}
    /\ changes \in Seq({"new", "gone"}) /\ waits \in Seq(BOOLEAN)
    /\ lookups \in Nat /\ reads \in Nat

Settled == changes = <<>> /\ lookups = 0 /\ toAgent = <<>> /\ toClient = <<>>

\* When nothing is under way and the agent is the one that was told, both sides
\* agree on who owns the clipboard: the guest may ask the client for data only
\* if the client would answer, and the client offers the guest's data only while
\* the guest has it.  Four flags and two asynchronous conversations decide it.
SidesAgree ==
    Settled /\ main /\ connected /\ known =>
        /\ agent = "client" <=> grabbed
        /\ agent = "guest" <=> targets
        /\ byGuest => agent = "guest"

\* The session believes that it holds the selection for the guest only while it
\* does, or an event that tells it better is on its way.
HeldForGuest == byGuest => local = "self" \/ changes # <<>>

\* A paste in the client whose loop still runs is waiting for an answer that
\* comes: it is not left behind by an agent that went or an answer to another.
PasteIsAnswered ==
    (\E i \in DOMAIN waits : ~waits[i]) =>
        connected /\ (Has(toAgent, "request") \/ Has(toClient, "data"))

\* The session never tells the guest that the client owns the clipboard while it
\* holds the selection for the guest.
NeverBoth == ~(grabbed /\ byGuest)

\* A request of the guest finds a session that does not hold the selection for
\* the guest (clipboard_request asserts it).
RequestAsserted ==
    main /\ connected /\ toClient # <<>> /\ Head(toClient) = "request" => ~byGuest
=============================================================================
