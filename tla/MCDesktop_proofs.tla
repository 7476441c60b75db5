-------------------------- MODULE MCDesktop_proofs --------------------------
(***************************************************************************)
(* What is proved of the machines the user touches, for every value of the *)
(* constants.  The machines share no variable and one of them runs, so     *)
(* each invariant is shown of the steps of its own machine, and the steps  *)
(* of the others leave all that it names alone.                            *)
(***************************************************************************)
EXTENDS MCDesktop, FiniteSetTheorems, SequenceTheorems, TLAPS

-----------------------------------------------------------------------------
(* The main channel: layout and mouse mode *)

ModeMessages == (SUBSET MouseModes) \X MouseModes

ConfigTypes ==
  /\ requested \in MouseModes /\ main_mode \in MouseModes /\ serverMode \in MouseModes
  /\ supported \subseteq MouseModes /\ serverModes \subseteq MouseModes
  /\ requests \in Seq(MouseModes) /\ modes \in Seq(ModeMessages)
ConfigLayout == M!LayoutWillBeTold

\* The last message of the server says how it is, and the last request is the wish.
ConfigSaid ==
  /\ modes # <<>> => modes[Len(modes)] = <<serverModes, serverMode>>
  /\ modes = <<>> => supported = serverModes /\ main_mode = serverMode
  /\ requests # <<>> => requests[Len(requests)] = requested
ConfigInv == ConfigTypes /\ ConfigLayout /\ ConfigSaid /\ M!ModeFollowed

\* The last of a sequence, after one more and after one less
LEMMA LastOfAppend ==
  ASSUME NEW T, NEW s \in Seq(T), NEW x \in T
  PROVE  /\ Append(s, x) \in Seq(T) /\ Append(s, x) # <<>>
         /\ Append(s, x)[Len(Append(s, x))] = x
<1>1. PICK n \in Nat : n = Len(s)
      BY LenProperties
<1>2. PICK z : z = Append(s, x)
      OBVIOUS
<1>3. z \in Seq(T) /\ Len(z) = n + 1 /\ z[n + 1] = x
      BY <1>1, <1>2, AppendProperties
<1>4. z # <<>>
      BY <1>3, EmptySeq
<1> QED BY <1>2, <1>3, <1>4

LEMMA LastOfTail ==
  ASSUME NEW T, NEW s \in Seq(T), s # <<>>
  PROVE  /\ Head(s) \in T /\ Tail(s) \in Seq(T)
         /\ Tail(s) = <<>> => Head(s) = s[Len(s)]
         /\ Tail(s) # <<>> => Tail(s)[Len(Tail(s))] = s[Len(s)]
<1>1. PICK n \in Nat : n = Len(s) /\ n > 0
      BY LenProperties, EmptySeq
<1>2. PICK t : t = Tail(s)
      OBVIOUS
<1>3. /\ t \in Seq(T) /\ Len(t) = n - 1 /\ \A i \in 1 .. n - 1 : t[i] = s[i + 1]
      /\ Head(s) = s[1] /\ Head(s) \in T
      BY <1>1, <1>2, HeadTailProperties
<1>4. CASE n = 1
  <2>1. t = <<>>
        BY <1>3, <1>4, EmptySeq
  <2> QED BY <1>1, <1>2, <1>3, <1>4, <2>1
<1>5. CASE n # 1
  <2>1. n - 1 \in 1 .. n - 1 /\ (n - 1) + 1 = n
        BY <1>1, <1>5
  <2>2. t # <<>> /\ t[n - 1] = s[n]
        BY <1>3, <2>1, EmptySeq
  <2> QED BY <1>1, <1>2, <1>3, <2>2
<1> QED BY <1>4, <1>5

LEMMA InitConfigInv == M!Init => ConfigInv
<1> SUFFICES ASSUME M!Init PROVE ConfigInv
    OBVIOUS
<1>1. /\ requested \in MouseModes /\ main_mode \in MouseModes /\ serverMode = main_mode
      /\ supported = {main_mode} /\ serverModes = {main_mode}
      /\ requests = <<>> /\ modes = <<>> /\ main_agent = FALSE
      BY DEF M!Init
<1>2. ConfigTypes
      BY <1>1, EmptySeq DEF ConfigTypes
<1>3. ConfigLayout
      BY <1>1 DEF ConfigLayout, M!LayoutWillBeTold
<1>4. ConfigSaid
      BY <1>1 DEF ConfigSaid
<1>5. M!ModeFollowed
      BY <1>1 DEF M!ModeFollowed
<1> QED BY <1>2, <1>3, <1>4, <1>5 DEF ConfigInv

\* What the channel believes of the layout and of the agent
LEMMA LayoutKeeps ==
  ASSUME M!LayoutWillBeTold, [M!Next]_(M!vars)
  PROVE  M!LayoutWillBeTold'
<1> USE DEF M!LayoutWillBeTold, M!Tellable
<1>1. CASE M!UpdateDisplay
  <2>1. UNCHANGED <<main_agent, main_caps, sparse>>
        BY <1>1 DEF M!UpdateDisplay, M!Changed, M!there
  <2>2. timer' = TRUE \/ (timer' = timer /\ due' = (due /\ timer))
        BY <1>1 DEF M!UpdateDisplay, M!Changed, M!update_display_timer
  <2> QED BY <2>1, <2>2
<1>2. CASE M!SendConfig
      BY <1>2 DEF M!SendConfig
<1>3. CASE M!TimerFires
  <2>1. /\ due' = (due /\ ~(main_agent /\ M!Tellable))
        /\ UNCHANGED <<display, main_agent, main_caps, sparse>>
        BY <1>3 DEF M!TimerFires, M!there
  <2> QED BY <2>1
<1>4. CASE M!AgentStarts
      BY <1>4 DEF M!AgentStarts
<1>5. CASE M!AgentStops
      BY <1>5 DEF M!AgentStops
<1>6. CASE M!Announce
      BY <1>6 DEF M!Announce, M!update_display_timer
<1>7. CASE M!Reconnects
      BY <1>7 DEF M!Reconnects
<1>8. CASE \/ M!VolumeRead \/ M!RequestMouseMode \/ M!HandleMode \/ M!ServerHandles
           \/ M!ServerChanges \/ UNCHANGED M!vars
  <2>1. UNCHANGED <<display, timer, due, main_agent, main_caps, sparse>>
        BY <1>8 DEF M!VolumeRead, M!RequestMouseMode, M!HandleMode, M!ServerHandles,
                    M!ServerChanges, M!layout, M!there, M!vars
  <2> QED BY <2>1
<1> QED BY <1>1, <1>2, <1>3, <1>4, <1>5, <1>6, <1>7, <1>8 DEF M!Next

LEMMA ModesKeep ==
  ASSUME ConfigTypes, ConfigSaid, M!ModeFollowed, [M!Next]_(M!vars)
  PROVE  ConfigTypes' /\ ConfigSaid' /\ M!ModeFollowed'
<1> USE DEF M!ModeFollowed
<1>1. CASE \/ M!UpdateDisplay \/ M!SendConfig \/ M!TimerFires \/ M!AgentStarts
           \/ M!AgentStops \/ M!Announce \/ M!VolumeRead \/ UNCHANGED M!vars
  <2>1. UNCHANGED <<requested, main_mode, supported, serverMode, serverModes, requests, modes>>
        BY <1>1 DEF M!UpdateDisplay, M!Changed, M!SendConfig, M!TimerFires, M!AgentStarts,
                    M!AgentStops, M!Announce, M!VolumeRead, M!mouse, M!vars
  <2>2. ConfigTypes'
        BY <2>1 DEF ConfigTypes
  <2>3. ConfigSaid' /\ M!ModeFollowed'
        BY <2>1 DEF ConfigSaid
  <2> QED BY <2>2, <2>3
<1>2. CASE M!RequestMouseMode
  <2>1. PICK m \in MouseModes : requested' = m /\ requests' = Append(requests, m)
        BY <1>2 DEF M!RequestMouseMode, M!Request
  <2>2. UNCHANGED <<main_mode, supported, serverMode, serverModes, modes>>
        BY <1>2 DEF M!RequestMouseMode
  <2>3. requests' \in Seq(MouseModes) /\ requests' # <<>> /\ requests'[Len(requests')] = m
        BY <2>1, LastOfAppend DEF ConfigTypes
  <2>4. ConfigTypes'
        BY <2>1, <2>2, <2>3 DEF ConfigTypes
  <2>5. ConfigSaid'
        BY <2>1, <2>2, <2>3 DEF ConfigSaid
  <2> QED BY <2>3, <2>4, <2>5
<1>3. CASE M!HandleMode
  <2>1. PICK can, now : can = Head(modes)[1] /\ now = Head(modes)[2]
        OBVIOUS
  <2>2. /\ modes # <<>> /\ modes' = Tail(modes) /\ supported' = can /\ main_mode' = now
        /\ UNCHANGED <<serverMode, serverModes>>
        /\ \/ /\ requested # now /\ requested \in can
              /\ requested' = requested /\ requests' = Append(requests, requested)
           \/ ~(requested # now /\ requested \in can) /\ UNCHANGED <<requested, requests>>
        BY <1>3, <2>1 DEF M!HandleMode, M!set_mouse_mode, M!Request
  <2>3. /\ Head(modes) \in ModeMessages
        /\ Tail(modes) \in Seq(ModeMessages)
        /\ Tail(modes) = <<>> => Head(modes) = modes[Len(modes)]
        /\ Tail(modes) # <<>> => Tail(modes)[Len(Tail(modes))] = modes[Len(modes)]
        BY <2>2, LastOfTail DEF ConfigTypes
  <2>4. can \in SUBSET MouseModes /\ now \in MouseModes /\ Head(modes) = <<can, now>>
        BY <2>1, <2>3 DEF ModeMessages
  <2>5. /\ requests' \in Seq(MouseModes) /\ requested' = requested
        /\ requests' # <<>> => requests'[Len(requests')] = requested
        /\ requests' = <<>> => ~(requested # now /\ requested \in can)
    <3>1. requests \in Seq(MouseModes) /\ requested \in MouseModes
          BY DEF ConfigTypes
    <3>2. /\ Append(requests, requested) \in Seq(MouseModes) /\ Append(requests, requested) # <<>>
          /\ Append(requests, requested)[Len(Append(requests, requested))] = requested
          BY <3>1, LastOfAppend
    <3>3. CASE requested # now /\ requested \in can
          BY <2>2, <3>2, <3>3
    <3>4. CASE ~(requested # now /\ requested \in can)
          BY <2>2, <3>1, <3>4 DEF ConfigSaid
    <3> QED BY <3>3, <3>4
  <2>6. ConfigTypes'
        BY <2>2, <2>3, <2>4, <2>5 DEF ConfigTypes
  <2>7. ConfigSaid'
    <3>1. modes' # <<>> => modes'[Len(modes')] = <<serverModes, serverMode>>
          BY <2>2, <2>3 DEF ConfigSaid
    <3>2. modes' = <<>> => can = serverModes /\ now = serverMode
          BY <2>2, <2>3, <2>4 DEF ConfigSaid
    <3> QED BY <2>2, <2>5, <3>1, <3>2 DEF ConfigSaid
  <2>8. M!ModeFollowed'
        BY <2>2, <2>5
  <2> QED BY <2>6, <2>7, <2>8
<1>4. CASE M!ServerHandles
  <2>1. PICK r : r = Head(requests)
        OBVIOUS
  <2>2. /\ requests # <<>> /\ requests' = Tail(requests)
        /\ UNCHANGED <<requested, main_mode, supported, serverModes>>
        /\ \/ /\ r \in serverModes /\ r # serverMode /\ serverMode' = r
              /\ modes' = Append(modes, <<serverModes, r>>)
           \/ ~(r \in serverModes /\ r # serverMode) /\ UNCHANGED <<serverMode, modes>>
        BY <1>4, <2>1 DEF M!ServerHandles
  <2>3. /\ r \in MouseModes /\ Tail(requests) \in Seq(MouseModes)
        /\ Tail(requests) = <<>> => r = requested
        /\ Tail(requests) # <<>> => Tail(requests)[Len(Tail(requests))] = requested
        BY <2>1, <2>2, LastOfTail DEF ConfigTypes, ConfigSaid
  <2>4. CASE r \in serverModes /\ r # serverMode
    <3>1. /\ modes' \in Seq(ModeMessages) /\ modes' # <<>>
          /\ modes'[Len(modes')] = <<serverModes, r>>
      <4>1. <<serverModes, r>> \in ModeMessages
            BY <2>3 DEF ConfigTypes, ModeMessages
      <4>2. modes \in Seq(ModeMessages)
            BY DEF ConfigTypes
      <4>3. modes' = Append(modes, <<serverModes, r>>)
            BY <2>2, <2>4
      <4> QED BY <4>1, <4>2, <4>3, LastOfAppend
    <3>2. ConfigTypes'
          BY <2>2, <2>3, <2>4, <3>1 DEF ConfigTypes
    <3>3. ConfigSaid'
          BY <2>2, <2>3, <2>4, <3>1 DEF ConfigSaid
    <3> QED BY <3>1, <3>2, <3>3
  <2>5. CASE ~(r \in serverModes /\ r # serverMode)
    <3>1. serverMode' = serverMode /\ modes' = modes
          BY <2>2, <2>5
    <3>2. ConfigTypes'
          BY <2>2, <2>3, <3>1 DEF ConfigTypes
    <3>3. ConfigSaid'
          BY <2>2, <2>3, <3>1 DEF ConfigSaid
    <3>4. M!ModeFollowed'
          BY <2>2, <2>3, <2>5, <3>1 DEF ConfigSaid
    <3> QED BY <3>2, <3>3, <3>4
  <2> QED BY <2>4, <2>5
<1>5. CASE M!ServerChanges
  <2>1. /\ serverModes' \in SUBSET MouseModes /\ serverMode' \in serverModes'
        /\ modes' = Append(modes, <<serverModes', serverMode'>>)
        /\ UNCHANGED <<requested, main_mode, supported, requests>>
        BY <1>5 DEF M!ServerChanges
  <2>2. /\ modes' \in Seq(ModeMessages) /\ modes' # <<>>
        /\ modes'[Len(modes')] = <<serverModes', serverMode'>>
    <3>1. <<serverModes', serverMode'>> \in ModeMessages
          BY <2>1 DEF ModeMessages
    <3> QED BY <2>1, <3>1, LastOfAppend DEF ConfigTypes
  <2>3. ConfigTypes'
        BY <2>1, <2>2 DEF ConfigTypes
  <2>4. ConfigSaid'
        BY <2>1, <2>2 DEF ConfigSaid
  <2> QED BY <2>2, <2>3, <2>4
<1>6. CASE M!Reconnects
  <2>1. /\ requests' = <<>> /\ modes' = <<<<serverModes, serverMode>>>>
        /\ UNCHANGED <<requested, main_mode, supported, serverMode, serverModes>>
        BY <1>6 DEF M!Reconnects
  <2>2. /\ modes' \in Seq(ModeMessages) /\ modes' # <<>>
        /\ modes'[Len(modes')] = <<serverModes, serverMode>>
    <3>1. PICK x \in ModeMessages : x = <<serverModes, serverMode>>
          BY DEF ConfigTypes, ModeMessages
    <3>2. <<x>> \in Seq(ModeMessages) /\ Len(<<x>>) = 1 /\ <<x>>[1] = x
          OBVIOUS
    <3> QED BY <2>1, <3>1, <3>2, EmptySeq
  <2>3. ConfigTypes'
        BY <2>1, <2>2, EmptySeq DEF ConfigTypes
  <2>4. ConfigSaid'
        BY <2>1, <2>2 DEF ConfigSaid
  <2> QED BY <2>2, <2>3, <2>4
<1> QED BY <1>1, <1>2, <1>3, <1>4, <1>5, <1>6 DEF M!Next

LEMMA ConfigStep == [MCNext]_mcvars => [M!Next]_(M!vars)
<1> SUFFICES ASSUME [MCNext]_mcvars PROVE [M!Next]_(M!vars)
    OBVIOUS
<1>1. UNCHANGED configVars => UNCHANGED M!vars
      BY DEF configVars, M!vars, M!layout, M!volume, M!there, M!mouse
<1>2. CASE UNCHANGED configVars
      BY <1>1, <1>2
<1>3. CASE ~UNCHANGED configVars
  <2>1. MCNext
        BY <1>3 DEF mcvars
  <2>2. ASSUME NEW x \in {"inputs", "widget", "clipboard", "screen", "screen2", "scaling", "usb"},
               On(x)
        PROVE  FALSE
        BY <1>3, <2>2 DEF On
  <2> QED BY <2>1, <2>2 DEF MCNext, M!Next
<1> QED BY <1>2, <1>3

\* The layout of the displays and the mouse mode (update_display_timer,
\* timer_set_display, agent_start, main_agent_handle_msg, set_mouse_mode,
\* spice_main_channel_request_mouse_mode), for any displays, modes and number of events: a
\* layout that can be told has a timer that will tell it, and the wish of the application
\* survives requests and modes that cross and resets of the channel.
THEOREM ConfigSafeTheorem == MCSpec => []ConfigSafe
<1>1. MCInit => ConfigInv
      BY InitConfigInv DEF MCInit
<1>2. ConfigInv /\ [MCNext]_mcvars => ConfigInv'
      BY ConfigStep, LayoutKeeps, ModesKeep DEF ConfigInv, ConfigLayout
<1>3. ConfigInv => ConfigSafe
      BY DEF ConfigInv, ConfigLayout, ConfigSafe
<1> QED BY <1>1, <1>2, <1>3, PTL DEF MCSpec

-----------------------------------------------------------------------------
(* Clipboard *)

Words == {"grab", "release", "request", "data"}

\* After the messages of s their sender owns the clipboard, x = y saying if it did before.
Owns(s, x, y) ==
  \/ \E i \in DOMAIN s : s[i] = "grab" /\ (\A j \in DOMAIN s : j > i => s[j] # "release")
  \/ x = y /\ (\A j \in DOMAIN s : s[j] # "release")

LEMMA AfterAppend ==
  ASSUME NEW T, NEW s \in Seq(T), NEW m \in T
  PROVE  /\ Append(s, m) \in Seq(T)
         /\ \A v : C!Has(Append(s, m), v) <=> (C!Has(s, v) \/ m = v)
         /\ \A x, y : Owns(Append(s, m), x, y) <=>
                        (m = "grab" \/ (m # "release" /\ Owns(s, x, y)))
<1>1. PICK n \in Nat : n = Len(s)
      BY LenProperties
<1>2. PICK z : z = Append(s, m)
      OBVIOUS
<1>3. /\ z \in Seq(T) /\ Len(z) = n + 1 /\ z[n + 1] = m
      /\ \A i \in 1 .. n : z[i] = s[i]
      BY <1>1, <1>2, AppendProperties
<1>4. DOMAIN s = 1 .. n /\ DOMAIN z = 1 .. n + 1
      BY <1>1, <1>3, LenProperties
<1>5. \A v : C!Has(z, v) <=> (C!Has(s, v) \/ m = v)
  <2>1. ASSUME NEW v, C!Has(z, v) PROVE C!Has(s, v) \/ m = v
    <3>1. PICK i \in 1 .. n + 1 : z[i] = v
          BY <1>4, <2>1 DEF C!Has
    <3>2. CASE i = n + 1
          BY <1>3, <3>1, <3>2
    <3>3. CASE i # n + 1
      <4>1. i \in 1 .. n /\ s[i] = v
            BY <1>1, <1>3, <3>1, <3>3
      <4> QED BY <1>4, <4>1 DEF C!Has
    <3> QED BY <3>2, <3>3
  <2>2. ASSUME NEW v, C!Has(s, v) PROVE C!Has(z, v)
    <3>1. PICK i \in 1 .. n : s[i] = v
          BY <1>4, <2>2 DEF C!Has
    <3>2. i \in 1 .. n + 1 /\ z[i] = v
          BY <1>1, <1>3, <3>1
    <3> QED BY <1>4, <3>2 DEF C!Has
  <2>3. C!Has(z, m)
    <3>1. n + 1 \in 1 .. n + 1
          BY <1>1
    <3> QED BY <1>3, <1>4, <3>1 DEF C!Has
  <2> QED BY <2>1, <2>2, <2>3
<1>6. \A x, y : Owns(z, x, y) <=> (m = "grab" \/ (m # "release" /\ Owns(s, x, y)))
  <2> SUFFICES ASSUME NEW x, NEW y
               PROVE  Owns(z, x, y) <=> (m = "grab" \/ (m # "release" /\ Owns(s, x, y)))
      OBVIOUS
  <2>1. n + 1 \in 1 .. n + 1 /\ (\A i \in 1 .. n + 1 : i \in 1 .. n \/ i = n + 1)
        /\ (\A i \in 1 .. n : i \in 1 .. n + 1 /\ n + 1 > i /\ i # n + 1)
        /\ (\A j \in 1 .. n + 1 : ~(j > n + 1))
        BY <1>1
  <2>2. CASE m = "grab"
    <3>1. z[n + 1] = "grab" /\ (\A j \in 1 .. n + 1 : j > n + 1 => z[j] # "release")
          BY <1>3, <2>1, <2>2
    <3> QED BY <1>4, <2>1, <2>2, <3>1 DEF Owns
  <2>3. CASE m = "release"
    <3>1. ~Owns(z, x, y)
      <4>1. \A i \in 1 .. n + 1 : z[i] = "grab" => n + 1 > i
            BY <1>3, <2>1, <2>3
      <4>2. z[n + 1] = "release"
            BY <1>3, <2>3
      <4> QED BY <1>4, <2>1, <4>1, <4>2 DEF Owns
    <3> QED BY <2>3, <3>1
  <2>4. CASE m # "grab" /\ m # "release"
    <3>1. (\A j \in 1 .. n + 1 : z[j] # "release") <=> (\A j \in 1 .. n : s[j] # "release")
          BY <1>3, <2>1, <2>4
    <3>2. ASSUME NEW i \in 1 .. n
          PROVE  (\A j \in 1 .. n + 1 : j > i => z[j] # "release")
                   <=> (\A j \in 1 .. n : j > i => s[j] # "release")
          BY <1>3, <2>1, <2>4
    <3>3. (\E i \in 1 .. n + 1 : z[i] = "grab" /\ (\A j \in 1 .. n + 1 : j > i => z[j] # "release"))
            <=> (\E i \in 1 .. n : s[i] = "grab" /\ (\A j \in 1 .. n : j > i => s[j] # "release"))
      <4>1. ASSUME NEW i \in 1 .. n + 1, z[i] = "grab",
                   \A j \in 1 .. n + 1 : j > i => z[j] # "release"
            PROVE  \E k \in 1 .. n : s[k] = "grab" /\ (\A j \in 1 .. n : j > k => s[j] # "release")
        <5>1. i \in 1 .. n
              BY <1>3, <2>1, <2>4, <4>1
        <5>2. s[i] = "grab" /\ (\A j \in 1 .. n : j > i => s[j] # "release")
              BY <1>3, <3>2, <4>1, <5>1
        <5> QED BY <5>1, <5>2
      <4>2. ASSUME NEW i \in 1 .. n, s[i] = "grab",
                   \A j \in 1 .. n : j > i => s[j] # "release"
            PROVE  \E k \in 1 .. n + 1 :
                     z[k] = "grab" /\ (\A j \in 1 .. n + 1 : j > k => z[j] # "release")
        <5>1. i \in 1 .. n + 1 /\ z[i] = "grab"
              BY <1>3, <2>1, <4>2
        <5>2. \A j \in 1 .. n + 1 : j > i => z[j] # "release"
              BY <3>2, <4>2
        <5> QED BY <5>1, <5>2
      <4> QED BY <4>1, <4>2
    <3>4. Owns(z, x, y) <=> Owns(s, x, y)
          BY <1>4, <3>1, <3>3 DEF Owns
    <3> QED BY <2>4, <3>4
  <2> QED BY <2>2, <2>3, <2>4
<1> QED BY <1>2, <1>3, <1>5, <1>6

LEMMA AfterTail ==
  ASSUME NEW T, NEW s \in Seq(T), s # <<>>
  PROVE  /\ Tail(s) \in Seq(T) /\ Head(s) \in T
         /\ \A v : C!Has(s, v) <=> (C!Has(Tail(s), v) \/ Head(s) = v)
         /\ Head(s) = "grab" => \A x, y, v : Owns(s, x, y) <=> Owns(Tail(s), v, v)
         /\ Head(s) = "release" => \A x, y, u, v : u # v => (Owns(s, x, y) <=> Owns(Tail(s), u, v))
         /\ Head(s) \notin {"grab", "release"} =>
              \A x, y : Owns(s, x, y) <=> Owns(Tail(s), x, y)
<1>1. PICK n \in Nat : n = Len(s) /\ n > 0
      BY LenProperties, EmptySeq
<1>2. PICK t : t = Tail(s)
      OBVIOUS
<1>3. /\ t \in Seq(T) /\ Len(t) = n - 1 /\ (\A i \in 1 .. n - 1 : t[i] = s[i + 1])
      /\ Head(s) = s[1] /\ Head(s) \in T
      BY <1>1, <1>2, HeadTailProperties
<1>4. DOMAIN s = 1 .. n /\ DOMAIN t = 1 .. n - 1
      BY <1>1, <1>3, LenProperties
<1>5. /\ 1 \in 1 .. n
      /\ \A i \in 1 .. n : i # 1 => i - 1 \in 1 .. n - 1 /\ i > 1
      /\ \A i \in 1 .. n : i # 1 => t[i - 1] = s[i]
      /\ \A i \in 1 .. n - 1 : i + 1 \in 1 .. n /\ i + 1 # 1 /\ i + 1 > 1 /\ (i + 1) - 1 = i
      /\ \A i, j \in 1 .. n : i # 1 /\ j # 1 => (j > i <=> j - 1 > i - 1)
  <2>1. ASSUME NEW i \in 1 .. n, i # 1 PROVE t[i - 1] = s[i]
    <3>1. i - 1 \in 1 .. n - 1 /\ (i - 1) + 1 = i
          BY <1>1, <2>1
    <3> QED BY <1>3, <3>1
  <2> QED BY <1>1, <2>1
<1>6. \A v : C!Has(s, v) <=> (C!Has(t, v) \/ s[1] = v)
  <2>1. ASSUME NEW v, C!Has(s, v) PROVE C!Has(t, v) \/ s[1] = v
    <3>1. PICK i \in 1 .. n : s[i] = v
          BY <1>4, <2>1 DEF C!Has
    <3>2. i # 1 => i - 1 \in 1 .. n - 1 /\ t[i - 1] = v
          BY <1>5, <3>1
    <3> QED BY <1>4, <3>1, <3>2 DEF C!Has
  <2>2. ASSUME NEW v, C!Has(t, v) PROVE C!Has(s, v)
    <3>1. PICK i \in 1 .. n - 1 : t[i] = v
          BY <1>4, <2>2 DEF C!Has
    <3>2. i + 1 \in 1 .. n /\ s[i + 1] = v
          BY <1>3, <1>5, <3>1
    <3> QED BY <1>4, <3>2 DEF C!Has
  <2>3. C!Has(s, s[1])
        BY <1>4, <1>5 DEF C!Has
  <2> QED BY <2>1, <2>2, <2>3
<1>7. (\A j \in 1 .. n : s[j] # "release")
        <=> (s[1] # "release" /\ (\A j \in 1 .. n - 1 : t[j] # "release"))
  <2>1. ASSUME \A j \in 1 .. n : s[j] # "release"
        PROVE  s[1] # "release" /\ (\A j \in 1 .. n - 1 : t[j] # "release")
        BY <1>3, <1>5, <2>1, SMTT(20)
  <2>2. ASSUME s[1] # "release", \A j \in 1 .. n - 1 : t[j] # "release",
               NEW j \in 1 .. n
        PROVE  s[j] # "release"
        BY <1>5, <2>2
  <2> QED BY <2>1, <2>2
<1>8. (\E i \in 1 .. n : s[i] = "grab" /\ (\A j \in 1 .. n : j > i => s[j] # "release"))
        <=> \/ \E i \in 1 .. n - 1 : t[i] = "grab"
                 /\ (\A j \in 1 .. n - 1 : j > i => t[j] # "release")
            \/ s[1] = "grab" /\ (\A j \in 1 .. n - 1 : t[j] # "release")
  <2>1. ASSUME NEW i \in 1 .. n, s[i] = "grab", \A j \in 1 .. n : j > i => s[j] # "release"
        PROVE  \/ \E k \in 1 .. n - 1 : t[k] = "grab"
                    /\ (\A j \in 1 .. n - 1 : j > k => t[j] # "release")
               \/ s[1] = "grab" /\ (\A j \in 1 .. n - 1 : t[j] # "release")
    <3>1. CASE i = 1
      <4>1. \A j \in 1 .. n - 1 : t[j] # "release"
            BY <1>3, <1>5, <2>1, <3>1, ZenonT(30)
      <4> QED BY <2>1, <3>1, <4>1
    <3>2. CASE i # 1
      <4>1. i - 1 \in 1 .. n - 1 /\ t[i - 1] = "grab"
            BY <1>5, <2>1, <3>2
      <4>2. ASSUME NEW j \in 1 .. n - 1, j > i - 1 PROVE t[j] # "release"
        <5>1. j + 1 \in 1 .. n /\ j + 1 > i /\ t[j] = s[j + 1]
              BY <1>3, <1>5, <4>2
        <5> QED BY <2>1, <5>1
      <4> QED BY <4>1, <4>2
    <3> QED BY <3>1, <3>2
  <2>2. ASSUME NEW i \in 1 .. n - 1, t[i] = "grab",
               \A j \in 1 .. n - 1 : j > i => t[j] # "release"
        PROVE  \E k \in 1 .. n : s[k] = "grab" /\ (\A j \in 1 .. n : j > k => s[j] # "release")
    <3>1. i + 1 \in 1 .. n /\ s[i + 1] = "grab"
          BY <1>3, <1>5, <2>2
    <3>2. ASSUME NEW j \in 1 .. n, j > i + 1 PROVE s[j] # "release"
      <4>1. j # 1 /\ j - 1 > i
            BY <3>2
      <4> QED BY <1>5, <2>2, <4>1
    <3> QED BY <3>1, <3>2
  <2>3. ASSUME s[1] = "grab", \A j \in 1 .. n - 1 : t[j] # "release"
        PROVE  \E k \in 1 .. n : s[k] = "grab" /\ (\A j \in 1 .. n : j > k => s[j] # "release")
    <3>1. \A j \in 1 .. n : j > 1 => s[j] # "release"
          BY <1>5, <2>3
    <3> QED BY <1>5, <2>3, <3>1
  <2> QED BY <2>1, <2>2, <2>3
<1>9. ASSUME NEW x, NEW y
      PROVE  /\ Owns(s, x, y) <=>
                  \/ \E i \in 1 .. n - 1 : t[i] = "grab"
                       /\ (\A j \in 1 .. n - 1 : j > i => t[j] # "release")
                  \/ s[1] = "grab" /\ (\A j \in 1 .. n - 1 : t[j] # "release")
                  \/ x = y /\ s[1] # "release" /\ (\A j \in 1 .. n - 1 : t[j] # "release")
             /\ Owns(t, x, y) <=>
                  \/ \E i \in 1 .. n - 1 : t[i] = "grab"
                       /\ (\A j \in 1 .. n - 1 : j > i => t[j] # "release")
                  \/ x = y /\ (\A j \in 1 .. n - 1 : t[j] # "release")
      BY <1>4, <1>7, <1>8 DEF Owns
<1>10. s[1] = "grab" => \A x, y, v : Owns(s, x, y) <=> Owns(t, v, v)
       BY <1>9
<1>11. s[1] = "release" => \A x, y, u, v : u # v => (Owns(s, x, y) <=> Owns(t, u, v))
       BY <1>9
<1>12. s[1] \notin {"grab", "release"} => \A x, y : Owns(s, x, y) <=> Owns(t, x, y)
       BY <1>9
<1> QED BY <1>2, <1>3, <1>6, <1>10, <1>11, <1>12

LEMMA Unowned ==
  ASSUME NEW T, NEW s \in Seq(T)
  PROVE  /\ \A x, y : ~C!Has(s, "grab") /\ x # y => ~Owns(s, x, y)
         /\ \A x, y : s = <<>> => (Owns(s, x, y) <=> x = y)
         /\ \A v : s = <<>> => ~C!Has(s, v)
<1>1. DOMAIN s = 1 .. Len(s) /\ Len(s) \in Nat
      BY LenProperties
<1>2. ASSUME s = <<>> PROVE DOMAIN s = {}
      BY <1>2
<1> QED BY <1>2 DEF Owns, C!Has

ClipTypes ==
  /\ main \in BOOLEAN /\ connected \in BOOLEAN /\ known \in BOOLEAN /\ auto \in BOOLEAN
  /\ grabbed \in BOOLEAN /\ byGuest \in BOOLEAN /\ hasdata \in BOOLEAN /\ targets \in BOOLEAN
  /\ local \in {"app", "self", "none"} /\ agent \in {"guest", "client", "none"}
  /\ lookups \in Nat /\ changes \in Seq({"new", "gone"})
  /\ toAgent \in Seq(Words) /\ clip_toClient \in Seq(Words)

\* Nothing is under way, and nobody owns anything, where nobody is.
ClipLinks ==
  /\ ~main => ~connected /\ ~byGuest /\ ~grabbed /\ ~targets
  /\ ~connected => toAgent = <<>> /\ clip_toClient = <<>> /\ agent = "none"
  /\ main /\ ~connected => ~known

\* A session that holds the selection for the guest has its offer, has made none of its own
\* and asks nobody for another; it holds it, or an event will tell it that it does not.
ClipFlags ==
  /\ ~(targets /\ grabbed)
  /\ byGuest => targets /\ lookups = 0 /\ ~hasdata
  /\ byGuest => local = "self" \/ C!Has(changes, "new")

\* While the guest's grab is on its way the client makes none, nor can it begin to.
ClipCross ==
  /\ C!Has(clip_toClient, "grab") =>
       /\ lookups = 0 /\ ~C!Has(toAgent, "grab") /\ agent # "client"
       /\ changes = <<>> \/ local # "app"
  /\ C!Has(toAgent, "grab") => ~targets

\* Who owns the clipboard of the guest, as far as the client knows.
Offered == IF targets THEN "guest" ELSE "none"

\* What each side believes is what the other owned, but for the messages on their way.
ClipAgree ==
  main /\ connected /\ known =>
    /\ ~C!Has(clip_toClient, "grab") => (grabbed <=> Owns(toAgent, agent, "client"))
    /\ ~C!Has(toAgent, "grab") => (agent = "guest" <=> Owns(clip_toClient, Offered, "guest"))

ClipInv == ClipTypes /\ ClipLinks /\ ClipFlags /\ ClipCross /\ ClipAgree

LEMMA InitClipInv == C!Init => ClipInv
<1> SUFFICES ASSUME C!Init PROVE ClipInv
    OBVIOUS
<1>1. /\ main = TRUE /\ connected = TRUE /\ known = TRUE /\ auto \in BOOLEAN
      /\ grabbed = FALSE /\ byGuest = FALSE /\ hasdata = FALSE /\ targets = FALSE
      /\ local = "none" /\ agent = "none" /\ lookups = 0 /\ changes = <<>>
      /\ toAgent = <<>> /\ clip_toClient = <<>>
      BY DEF C!Init
<1>2. toAgent \in Seq(Words) /\ clip_toClient \in Seq(Words) /\ changes \in Seq({"new", "gone"})
      BY <1>1, EmptySeq
<1>3. /\ ~C!Has(toAgent, "grab") /\ ~C!Has(clip_toClient, "grab")
      /\ ~Owns(toAgent, agent, "client") /\ ~Owns(clip_toClient, Offered, "guest")
      BY <1>1, <1>2, Unowned DEF Offered
<1> QED BY <1>1, <1>2, <1>3 DEF ClipInv, ClipTypes, ClipLinks, ClipFlags, ClipCross, ClipAgree

\* What the desktop of the client does
LEMMA AppCopiesKeeps ==
  ASSUME CrossingGrabs = FALSE, ClipInv, C!AppCopies PROVE ClipInv'
<1>1. ClipTypes /\ ClipLinks /\ ClipFlags /\ ClipCross /\ ClipAgree
      BY DEF ClipInv
<1>2. /\ ~C!Has(clip_toClient, "grab")
      /\ \/ local' = "app" /\ changes' = Append(changes, "new")
         \/ local = "app" /\ local' = "none" /\ changes' = Append(changes, "gone")
      /\ UNCHANGED <<auto, main, connected, known, grabbed, byGuest, hasdata, targets, agent,
                     lookups, toAgent, clip_toClient>>
      BY DEF C!AppCopies, C!flags, C!guest
<1>3. /\ changes' \in Seq({"new", "gone"})
      /\ C!Has(changes', "new") <=> (C!Has(changes, "new") \/ local' = "app")
  <2>1. PICK m \in {"new", "gone"} : changes' = Append(changes, m) /\ (m = "new" <=> local' = "app")
        BY <1>2
  <2>2. changes \in Seq({"new", "gone"})
        BY <1>1 DEF ClipTypes
  <2> QED BY <2>1, <2>2, AfterAppend
<1>4. ClipTypes'
      BY <1>1, <1>2, <1>3 DEF ClipTypes
<1>5. ClipLinks' /\ ClipFlags' /\ ClipCross' /\ ClipAgree'
      BY <1>1, <1>2, <1>3 DEF ClipLinks, ClipFlags, ClipCross, ClipAgree, Offered
<1> QED BY <1>4, <1>5 DEF ClipInv

\* A message to the agent, when the agent is there
LEMMA QueuedIs ==
  ASSUME ClipTypes, ClipLinks, NEW m \in Words
  PROVE  /\ C!Queued(m) \in Seq(Words)
         /\ ~connected => C!Queued(m) = toAgent
         /\ connected => /\ \A v : C!Has(C!Queued(m), v) <=> (C!Has(toAgent, v) \/ m = v)
                         /\ \A x, y : Owns(C!Queued(m), x, y) <=>
                              (m = "grab" \/ (m # "release" /\ Owns(toAgent, x, y)))
<1>1. toAgent \in Seq(Words) /\ connected \in BOOLEAN /\ (connected => main)
      BY DEF ClipTypes, ClipLinks
<1>2. CASE connected
  <2>1. C!Queued(m) = Append(toAgent, m)
        BY <1>1, <1>2 DEF C!Queued
  <2> QED BY <1>1, <1>2, <2>1, AfterAppend
<1>3. CASE ~connected
  <2>1. C!Queued(m) = toAgent
        BY <1>1, <1>3 DEF C!Queued
  <2> QED BY <1>1, <1>3, <2>1
<1> QED BY <1>2, <1>3

LEMMA OwnerChangeKeeps ==
  ASSUME ClipInv, C!clipboard_owner_change PROVE ClipInv'
<1>1. ClipTypes /\ ClipLinks /\ ClipFlags /\ ClipCross /\ ClipAgree
      BY DEF ClipInv
<1>2. PICK h : h = Head(changes)
      OBVIOUS
<1>3. /\ changes # <<>> /\ changes' = Tail(changes)
      /\ UNCHANGED <<auto, main, connected, known, targets, local, agent, clip_toClient>>
      BY DEF C!clipboard_owner_change, C!guest, C!flags
<1>4. /\ changes' \in Seq({"new", "gone"})
      /\ C!Has(changes, "new") <=> (C!Has(changes', "new") \/ h = "new")
      BY <1>1, <1>2, <1>3, AfterTail DEF ClipTypes
<1>5. CASE ~main
  <2>1. UNCHANGED <<grabbed, byGuest, hasdata, lookups, toAgent>>
        BY <1>5 DEF C!clipboard_owner_change, C!flags
  <2>2. ClipTypes'
        BY <1>1, <1>3, <1>4, <2>1 DEF ClipTypes
  <2>3. ClipLinks' /\ ClipFlags' /\ ClipCross' /\ ClipAgree'
        BY <1>1, <1>3, <1>5, <2>1, <2>2 DEF ClipLinks, ClipFlags, ClipCross, ClipAgree, Offered
  <2> QED BY <2>2, <2>3 DEF ClipInv
<1>6. CASE main
  <2>1. PICK theirs \in BOOLEAN : theirs <=> (h = "new" /\ local # "self")
        OBVIOUS
  <2>2. /\ grabbed' = FALSE /\ toAgent' = IF grabbed THEN C!Queued("release") ELSE toAgent
        /\ byGuest' = (byGuest /\ ~theirs)
        /\ hasdata' = IF h = "new" THEN hasdata \/ theirs ELSE FALSE
        /\ lookups' = IF theirs /\ auto /\ local = "app" THEN lookups + 1 ELSE lookups
        BY <1>2, <1>6, <2>1 DEF C!clipboard_owner_change, C!LookedUp
  <2>3. /\ toAgent' \in Seq(Words)
        /\ ~connected => toAgent' = toAgent
        /\ C!Has(toAgent', "grab") <=> C!Has(toAgent, "grab")
        /\ connected => (Owns(toAgent', agent, "client") <=>
                           (~grabbed /\ Owns(toAgent, agent, "client")))
    <3>1. CASE grabbed
          BY <1>1, <2>2, <3>1, QueuedIs DEF Words, ClipLinks
    <3>2. CASE ~grabbed
          BY <1>1, <2>2, <3>2 DEF ClipTypes
    <3> QED BY <3>1, <3>2
  <2>4. /\ lookups' \in Nat /\ (lookups' = lookups \/ (theirs /\ local = "app"))
        /\ grabbed' \in BOOLEAN /\ byGuest' \in BOOLEAN /\ hasdata' \in BOOLEAN
    <3>1. /\ lookups \in Nat /\ byGuest \in BOOLEAN /\ hasdata \in BOOLEAN
          BY <1>1 DEF ClipTypes
    <3>2. lookups' \in Nat /\ (lookups' = lookups \/ (theirs /\ local = "app"))
          BY <2>2, <3>1
    <3>3. byGuest' \in BOOLEAN /\ hasdata' \in BOOLEAN
          BY ONLY <2>1, <2>2, <3>1
    <3> QED BY <2>2, <3>2, <3>3
  <2>5. ClipTypes'
        BY <1>1, <1>3, <1>4, <2>3, <2>4 DEF ClipTypes
  <2>6. ClipLinks'
        BY <1>1, <1>3, <1>6, <2>2, <2>3 DEF ClipLinks
  <2>7. ClipFlags'
        BY <1>1, <1>3, <1>4, <1>6, <2>1, <2>2, <2>4 DEF ClipFlags, ClipTypes
  <2>8. ClipCross'
        BY <1>1, <1>3, <1>4, <1>6, <2>1, <2>2, <2>3, <2>4 DEF ClipCross, ClipTypes
  <2>9. ClipAgree'
        BY <1>1, <1>3, <1>6, <2>2, <2>3 DEF ClipAgree, Offered, ClipTypes
  <2> QED BY <2>5, <2>6, <2>7, <2>8, <2>9 DEF ClipInv
<1> QED BY <1>1, <1>5, <1>6 DEF ClipTypes

LEMMA GetTargetsKeeps ==
  ASSUME ClipInv, C!clipboard_get_targets PROVE ClipInv'
<1>1. ClipTypes /\ ClipLinks /\ ClipFlags /\ ClipCross /\ ClipAgree
      BY DEF ClipInv
<1>2. /\ lookups > 0 /\ lookups' = lookups - 1
      /\ UNCHANGED <<auto, main, connected, known, byGuest, hasdata, local, changes, agent,
                     clip_toClient>>
      /\ \/ /\ main /\ ~grabbed /\ grabbed' = TRUE /\ targets' = FALSE
            /\ toAgent' = C!Queued("grab")
         \/ UNCHANGED <<grabbed, targets, toAgent>>
      BY DEF C!clipboard_get_targets, C!OfferedToGuest, C!guest
<1>3. lookups' \in Nat /\ ~byGuest /\ ~C!Has(clip_toClient, "grab")
      BY <1>1, <1>2 DEF ClipTypes, ClipFlags, ClipCross
<1>4. CASE /\ main /\ ~grabbed /\ grabbed' = TRUE /\ targets' = FALSE
           /\ toAgent' = C!Queued("grab")
  <2>1. /\ toAgent' \in Seq(Words) /\ (~connected => toAgent' = toAgent)
        /\ connected => C!Has(toAgent', "grab") /\ Owns(toAgent', agent, "client")
        BY <1>1, <1>4, QueuedIs DEF Words
  <2>2. ClipTypes'
        BY <1>1, <1>2, <1>3, <1>4, <2>1 DEF ClipTypes
  <2>3. ClipLinks' /\ ClipFlags' /\ ClipCross' /\ ClipAgree'
        BY <1>1, <1>2, <1>3, <1>4, <2>1 DEF ClipLinks, ClipFlags, ClipCross, ClipAgree, Offered
  <2> QED BY <2>2, <2>3 DEF ClipInv
<1>5. CASE UNCHANGED <<grabbed, targets, toAgent>>
  <2>1. ClipTypes'
        BY <1>1, <1>2, <1>3, <1>5 DEF ClipTypes
  <2>2. ClipLinks' /\ ClipFlags' /\ ClipCross' /\ ClipAgree'
        BY <1>1, <1>2, <1>3, <1>5 DEF ClipLinks, ClipFlags, ClipCross, ClipAgree, Offered
  <2> QED BY <2>1, <2>2 DEF ClipInv
<1> QED BY <1>2, <1>4, <1>5

LEMMA ByHandKeeps ==
  ASSUME CrossingGrabs = FALSE, ClipInv, C!CopyToGuest \/ C!PasteFromGuest PROVE ClipInv'
<1>1. ClipTypes /\ ClipLinks /\ ClipFlags /\ ClipCross /\ ClipAgree
      BY DEF ClipInv
<1>2. CASE C!CopyToGuest
  <2>1. /\ hasdata /\ lookups = 0 /\ ~C!Has(clip_toClient, "grab")
        /\ lookups' = 0 \/ lookups' = 1
        /\ UNCHANGED <<auto, main, connected, known, grabbed, byGuest, hasdata, targets, local,
                       changes, agent, toAgent, clip_toClient>>
        BY <1>2 DEF C!CopyToGuest, C!LookedUp, C!flags, C!guest
  <2>2. ClipTypes'
        BY <1>1, <2>1 DEF ClipTypes
  <2>3. ClipLinks' /\ ClipFlags' /\ ClipCross' /\ ClipAgree'
        BY <1>1, <2>1 DEF ClipLinks, ClipFlags, ClipCross, ClipAgree, Offered
  <2> QED BY <2>2, <2>3 DEF ClipInv
<1>3. CASE C!PasteFromGuest
  <2>1. /\ targets /\ lookups = 0 /\ local' = "self" /\ changes' = Append(changes, "new")
        /\ byGuest' = TRUE /\ hasdata' = FALSE
        /\ UNCHANGED <<auto, main, connected, known, grabbed, targets, lookups, agent,
                       toAgent, clip_toClient>>
        BY <1>3 DEF C!PasteFromGuest, C!TakenForGuest, C!guest
  <2>2. changes' \in Seq({"new", "gone"})
        BY <1>1, <2>1, AfterAppend DEF ClipTypes
  <2>3. ClipTypes'
        BY <1>1, <2>1, <2>2 DEF ClipTypes
  <2>4. ClipLinks' /\ ClipFlags' /\ ClipCross' /\ ClipAgree'
        BY <1>1, <2>1 DEF ClipLinks, ClipFlags, ClipCross, ClipAgree, Offered, ClipTypes
  <2> QED BY <2>3, <2>4 DEF ClipInv
<1> QED BY <1>2, <1>3

\* A request, data or the end of a loop: the queues grow or nothing that matters changes.
LEMMA AskingKeeps ==
  ASSUME ClipInv, \/ C!clipboard_get \/ C!LoopReturns \/ C!Received \/ C!GuestPastes
                  \/ C!clipboard_request \/ C!clipboard_got_from_guest \/ UNCHANGED C!vars
  PROVE  ClipInv'
<1>1. ClipTypes /\ ClipLinks /\ ClipFlags /\ ClipCross /\ ClipAgree
      BY DEF ClipInv
<1>2. /\ UNCHANGED <<auto, main, connected, known, grabbed, byGuest, hasdata, targets, local,
                     changes, lookups, agent>>
      /\ \/ toAgent' = C!Queued("request") /\ clip_toClient' = clip_toClient
         \/ toAgent' = C!Queued("data") /\ clip_toClient' = clip_toClient
         \/ toAgent' = toAgent /\ clip_toClient' = Append(clip_toClient, "request") /\ connected
         \/ /\ toAgent' = toAgent /\ clip_toClient # <<>> /\ clip_toClient' = Tail(clip_toClient)
            /\ Head(clip_toClient) \in {"request", "data"} /\ connected
         \/ UNCHANGED <<toAgent, clip_toClient>>
      BY DEF C!clipboard_get, C!LoopReturns, C!Received, C!GuestPastes, C!clipboard_request,
             C!clipboard_got_from_guest, C!Arrives, C!vars, C!flags, C!guest
<1>3. /\ toAgent' \in Seq(Words) /\ (~connected => toAgent' = toAgent)
      /\ C!Has(toAgent', "grab") <=> C!Has(toAgent, "grab")
      /\ Owns(toAgent', agent, "client") <=> Owns(toAgent, agent, "client")
  <2>1. CASE toAgent' = toAgent
        BY <1>1, <2>1 DEF ClipTypes
  <2>2. ASSUME NEW m \in {"request", "data"}, toAgent' = C!Queued(m)
        PROVE  /\ toAgent' \in Seq(Words) /\ (~connected => toAgent' = toAgent)
               /\ C!Has(toAgent', "grab") <=> C!Has(toAgent, "grab")
               /\ Owns(toAgent', agent, "client") <=> Owns(toAgent, agent, "client")
    <3>1. CASE connected
          BY <1>1, <2>2, <3>1, QueuedIs DEF Words
    <3>2. CASE ~connected
          BY <1>1, <2>2, <3>2, QueuedIs DEF Words, ClipTypes
    <3> QED BY <3>1, <3>2
  <2> QED BY <1>2, <2>1, <2>2
<1>4. /\ clip_toClient' \in Seq(Words) /\ (~connected => clip_toClient' = clip_toClient)
      /\ C!Has(clip_toClient', "grab") <=> C!Has(clip_toClient, "grab")
      /\ Owns(clip_toClient', Offered, "guest") <=> Owns(clip_toClient, Offered, "guest")
  <2>1. CASE clip_toClient' = clip_toClient
        BY <1>1, <2>1 DEF ClipTypes
  <2>2. CASE clip_toClient' = Append(clip_toClient, "request") /\ connected
    <3>1. clip_toClient \in Seq(Words) /\ "request" \in Words
          BY <1>1 DEF ClipTypes, Words
    <3> QED BY <2>2, <3>1, AfterAppend
  <2>3. CASE /\ clip_toClient # <<>> /\ clip_toClient' = Tail(clip_toClient)
             /\ Head(clip_toClient) \in {"request", "data"} /\ connected
        BY <1>1, <2>3, AfterTail DEF ClipTypes
  <2> QED BY <1>2, <2>1, <2>2, <2>3
<1>5. ClipTypes'
      BY <1>1, <1>2, <1>3, <1>4 DEF ClipTypes
<1>6. ClipLinks' /\ ClipFlags' /\ ClipCross' /\ ClipAgree'
      BY <1>1, <1>2, <1>3, <1>4 DEF ClipLinks, ClipFlags, ClipCross, ClipAgree, Offered
<1> QED BY <1>5, <1>6 DEF ClipInv

\* What the guest and its agent do
LEMMA GuestCopiesKeeps ==
  ASSUME CrossingGrabs = FALSE, ClipInv, C!GuestCopies PROVE ClipInv'
<1>1. ClipTypes /\ ClipLinks /\ ClipFlags /\ ClipCross /\ ClipAgree
      BY DEF ClipInv
<1>2. /\ connected /\ lookups = 0 /\ changes = <<>> /\ ~C!Has(toAgent, "grab")
      /\ \/ agent' = "guest" /\ clip_toClient' = Append(clip_toClient, "grab")
         \/ /\ agent = "guest" /\ agent' = "none"
            /\ clip_toClient' = Append(clip_toClient, "release")
      /\ UNCHANGED <<auto, main, connected, known, grabbed, byGuest, hasdata, targets, local,
                     changes, lookups, toAgent>>
      BY DEF C!GuestCopies, C!flags
<1>3. clip_toClient \in Seq(Words) /\ toAgent \in Seq(Words)
      BY <1>1 DEF ClipTypes
<1>4. CASE agent' = "guest" /\ clip_toClient' = Append(clip_toClient, "grab")
  <2>1. "grab" \in Words
        BY DEF Words
  <2>2. /\ clip_toClient' \in Seq(Words) /\ C!Has(clip_toClient', "grab")
        /\ Owns(clip_toClient', Offered, "guest")
        BY <1>3, <1>4, <2>1, AfterAppend
  <2>3. ClipTypes'
        BY <1>1, <1>2, <1>4, <2>2 DEF ClipTypes
  <2>4. ClipLinks' /\ ClipFlags' /\ ClipCross' /\ ClipAgree'
        BY <1>1, <1>2, <1>4, <2>2 DEF ClipLinks, ClipFlags, ClipCross, ClipAgree, Offered
  <2> QED BY <2>3, <2>4 DEF ClipInv
<1>5. CASE /\ agent = "guest" /\ agent' = "none"
           /\ clip_toClient' = Append(clip_toClient, "release")
  <2>1. "release" \in Words
        BY DEF Words
  <2>2. /\ clip_toClient' \in Seq(Words) /\ ~Owns(clip_toClient', Offered, "guest")
        /\ C!Has(clip_toClient', "grab") <=> C!Has(clip_toClient, "grab")
        BY <1>3, <1>5, <2>1, AfterAppend
  <2>3. Owns(toAgent, agent', "client") <=> Owns(toAgent, agent, "client")
        BY <1>2, <1>3, <1>5, Unowned
  <2>4. ClipTypes'
        BY <1>1, <1>2, <1>5, <2>2 DEF ClipTypes
  <2>5. ClipLinks' /\ ClipFlags' /\ ClipCross'
        BY <1>1, <1>2, <1>5, <2>2 DEF ClipLinks, ClipFlags, ClipCross
  <2>6. ClipAgree'
        BY <1>1, <1>2, <1>5, <2>2, <2>3 DEF ClipAgree, Offered
  <2> QED BY <2>4, <2>5, <2>6 DEF ClipInv
<1> QED BY <1>2, <1>4, <1>5

LEMMA AgentHandlesKeeps ==
  ASSUME ClipInv, C!AgentHandles PROVE ClipInv'
<1>1. ClipTypes /\ ClipLinks /\ ClipFlags /\ ClipCross /\ ClipAgree
      BY DEF ClipInv
<1>2. PICK h : h = Head(toAgent)
      OBVIOUS
<1>3. /\ connected /\ toAgent # <<>> /\ toAgent' = Tail(toAgent)
      /\ UNCHANGED <<auto, main, connected, known, grabbed, byGuest, hasdata, targets, local,
                     changes, lookups>>
      BY DEF C!AgentHandles, C!flags
<1>4. /\ toAgent' \in Seq(Words) /\ h \in Words
      /\ C!Has(toAgent, "grab") <=> (C!Has(toAgent', "grab") \/ h = "grab")
      BY <1>1, <1>2, <1>3, AfterTail DEF ClipTypes
<1>5. toAgent \in Seq(Words) /\ clip_toClient \in Seq(Words) /\ "data" \in Words
      BY <1>1 DEF ClipTypes, Words
<1>6. /\ clip_toClient' \in Seq(Words)
      /\ C!Has(clip_toClient', "grab") <=> C!Has(clip_toClient, "grab")
      /\ Owns(clip_toClient', Offered, "guest") <=> Owns(clip_toClient, Offered, "guest")
  <2>1. CASE h = "request"
    <3>1. clip_toClient' = Append(clip_toClient, "data")
          BY <1>2, <2>1 DEF C!AgentHandles
    <3> QED BY <1>5, <3>1, AfterAppend
  <2>2. CASE h # "request"
    <3>1. clip_toClient' = clip_toClient
          BY <1>2, <2>2 DEF C!AgentHandles
    <3> QED BY <1>5, <3>1
  <2> QED BY <2>1, <2>2
<1>7. /\ agent' \in {"guest", "client", "none"}
      /\ Owns(toAgent', agent', "client") <=> Owns(toAgent, agent, "client")
      /\ h = "grab" => agent' = "client"
      /\ h # "grab" => (agent' = "guest" <=> agent = "guest") /\ (agent # "client" => agent' = agent)
  <2>1. CASE h = "grab"
    <3>1. agent' = "client"
          BY <1>2, <2>1 DEF C!AgentHandles
    <3>2. Owns(toAgent, agent, "client") <=> Owns(toAgent', "client", "client")
          BY <1>2, <1>3, <1>5, <2>1, AfterTail
    <3> QED BY <2>1, <3>1, <3>2
  <2>2. CASE h = "release"
    <3>1. agent' = IF agent = "client" THEN "none" ELSE agent
          BY <1>2, <2>2 DEF C!AgentHandles
    <3>2. agent' # "client" /\ agent' \in {"guest", "client", "none"}
          BY <1>1, <3>1 DEF ClipTypes
    <3>3. Owns(toAgent, agent, "client") <=> Owns(toAgent', agent', "client")
          BY <1>2, <1>3, <1>5, <2>2, <3>2, AfterTail
    <3> QED BY <2>2, <3>1, <3>2, <3>3
  <2>3. CASE h \notin {"grab", "release"}
    <3>1. agent' = agent
          BY <1>2, <2>3 DEF C!AgentHandles
    <3>2. Owns(toAgent, agent, "client") <=> Owns(toAgent', agent, "client")
          BY <1>2, <1>3, <1>5, <2>3, AfterTail
    <3> QED BY <1>1, <2>3, <3>1, <3>2 DEF ClipTypes
  <2> QED BY <2>1, <2>2, <2>3
<1>8. C!Has(toAgent, "grab") => ~Owns(clip_toClient, Offered, "guest")
      BY <1>1, <1>5, Unowned DEF ClipCross, Offered
<1>9. ClipTypes'
      BY <1>1, <1>3, <1>4, <1>6, <1>7 DEF ClipTypes
<1>10. ClipLinks' /\ ClipFlags'
       BY <1>1, <1>3 DEF ClipLinks, ClipFlags
<1>11. ClipCross'
       BY <1>1, <1>3, <1>4, <1>6, <1>7 DEF ClipCross
<1>12. ClipAgree'
  <2>1. Offered' = Offered
        BY <1>3 DEF Offered
  <2>2. ~C!Has(clip_toClient', "grab") /\ main /\ connected /\ known
          => (grabbed <=> Owns(toAgent', agent', "client"))
        BY <1>1, <1>6, <1>7 DEF ClipAgree
  <2>3. ~C!Has(toAgent', "grab") /\ main /\ connected /\ known
          => (agent' = "guest" <=> Owns(clip_toClient', Offered, "guest"))
        BY <1>1, <1>4, <1>6, <1>7, <1>8 DEF ClipAgree
  <2> QED BY <1>3, <2>1, <2>2, <2>3 DEF ClipAgree
<1> QED BY <1>9, <1>10, <1>11, <1>12 DEF ClipInv

LEMMA GuestGrabsKeeps ==
  ASSUME ClipInv, C!clipboard_grab PROVE ClipInv'
<1>1. ClipTypes /\ ClipLinks /\ ClipFlags /\ ClipCross /\ ClipAgree
      BY DEF ClipInv
<1>2. /\ main /\ connected /\ clip_toClient # <<>> /\ Head(clip_toClient) = "grab"
      /\ clip_toClient' = Tail(clip_toClient) /\ targets' = TRUE /\ grabbed' = FALSE
      /\ \/ /\ local' = "self" /\ changes' = Append(changes, "new")
            /\ byGuest' = TRUE /\ hasdata' = FALSE
         \/ UNCHANGED <<local, changes, byGuest, hasdata>>
      /\ UNCHANGED <<auto, main, connected, known, lookups, agent, toAgent>>
      BY DEF C!clipboard_grab, C!Arrives, C!TakenForGuest, C!guest
<1>3. clip_toClient \in Seq(Words) /\ toAgent \in Seq(Words) /\ changes \in Seq({"new", "gone"})
      BY <1>1 DEF ClipTypes
<1>4. /\ clip_toClient' \in Seq(Words) /\ C!Has(clip_toClient, "grab")
      /\ C!Has(clip_toClient', "grab") => C!Has(clip_toClient, "grab")
      /\ Owns(clip_toClient, Offered, "guest") <=> Owns(clip_toClient', "guest", "guest")
      BY <1>2, <1>3, AfterTail
<1>5. /\ lookups = 0 /\ ~C!Has(toAgent, "grab") /\ agent # "client"
      /\ changes = <<>> \/ local # "app"
      BY <1>1, <1>4 DEF ClipCross
<1>6. ~Owns(toAgent, agent, "client")
      BY <1>3, <1>5, Unowned
<1>7. changes' \in Seq({"new", "gone"}) /\ (local' = "self" \/ changes' = changes)
  <2>1. "new" \in {"new", "gone"}
        OBVIOUS
  <2>2. Append(changes, "new") \in Seq({"new", "gone"})
        BY <1>3, <2>1, AfterAppend
  <2> QED BY <1>2, <1>3, <2>2
<1>8. byGuest' => local' = "self" \/ C!Has(changes', "new")
  <2>1. "new" \in {"new", "gone"}
        OBVIOUS
  <2> QED BY <1>1, <1>2 DEF ClipFlags
<1>9. ClipTypes'
      BY <1>1, <1>2, <1>4, <1>7 DEF ClipTypes
<1>10. ClipLinks'
       BY <1>1, <1>2 DEF ClipLinks
<1>11. ClipFlags'
       BY <1>1, <1>2, <1>5, <1>8 DEF ClipFlags
<1>12. ClipCross'
       BY <1>1, <1>2, <1>5 DEF ClipCross
<1>13. ClipAgree'
  <2>1. Offered' = "guest"
        BY <1>2 DEF Offered
  <2> QED BY <1>1, <1>2, <1>4, <1>5, <1>6, <2>1 DEF ClipAgree
<1> QED BY <1>9, <1>10, <1>11, <1>12, <1>13 DEF ClipInv

LEMMA GuestReleasesKeeps ==
  ASSUME ClipInv, C!clipboard_release PROVE ClipInv'
<1>1. ClipTypes /\ ClipLinks /\ ClipFlags /\ ClipCross /\ ClipAgree
      BY DEF ClipInv
<1>2. /\ main /\ connected /\ clip_toClient # <<>> /\ Head(clip_toClient) = "release"
      /\ clip_toClient' = Tail(clip_toClient) /\ targets' = FALSE /\ byGuest' = FALSE
      /\ \/ local' = "none" /\ changes' = Append(changes, "gone")
         \/ UNCHANGED <<local, changes>>
      /\ UNCHANGED <<auto, main, connected, known, grabbed, hasdata, lookups, agent, toAgent>>
      BY DEF C!clipboard_release, C!Arrives, C!Cleared, C!guest
<1>3. clip_toClient \in Seq(Words) /\ changes \in Seq({"new", "gone"}) /\ "none" # "guest"
      BY <1>1 DEF ClipTypes
<1>4. /\ clip_toClient' \in Seq(Words)
      /\ C!Has(clip_toClient', "grab") <=> C!Has(clip_toClient, "grab")
      /\ Owns(clip_toClient, Offered, "guest") <=> Owns(clip_toClient', "none", "guest")
      BY <1>2, <1>3, AfterTail
<1>5. changes' \in Seq({"new", "gone"})
  <2>1. "gone" \in {"new", "gone"}
        OBVIOUS
  <2>2. Append(changes, "gone") \in Seq({"new", "gone"})
        BY <1>3, <2>1, AfterAppend
  <2> QED BY <1>2, <1>3, <2>2
<1>6. ClipTypes'
      BY <1>1, <1>2, <1>4, <1>5 DEF ClipTypes
<1>7. ClipLinks' /\ ClipFlags'
      BY <1>1, <1>2 DEF ClipLinks, ClipFlags
<1>8. ClipCross'
      BY <1>1, <1>2, <1>4 DEF ClipCross
<1>9. ClipAgree'
  <2>1. Offered' = "none"
        BY <1>2 DEF Offered
  <2> QED BY <1>1, <1>2, <1>4, <2>1 DEF ClipAgree
<1> QED BY <1>6, <1>7, <1>8, <1>9 DEF ClipInv

\* The agent and the main channel come and go
LEMMA ComingsKeep ==
  ASSUME ClipInv, C!AgentStops \/ C!channel_destroy \/ C!AgentStarts PROVE ClipInv'
<1>1. ClipTypes /\ ClipLinks /\ ClipFlags /\ ClipCross /\ ClipAgree
      BY DEF ClipInv
<1>2. <<>> \in Seq(Words)
      BY EmptySeq
<1>3. CASE C!AgentStops
  <2>1. /\ connected' = FALSE /\ known' = FALSE /\ agent' = "none" /\ main
        /\ toAgent' = <<>> /\ clip_toClient' = <<>>
        /\ UNCHANGED <<auto, main, grabbed, byGuest, hasdata, targets, local, changes, lookups>>
        BY <1>3 DEF C!AgentStops, C!AgentGone, C!flags
  <2>2. ~C!Has(toAgent', "grab") /\ ~C!Has(clip_toClient', "grab")
        BY <1>2, <2>1, Unowned
  <2>3. ClipTypes'
        BY <1>1, <1>2, <2>1 DEF ClipTypes
  <2>4. ClipLinks' /\ ClipFlags' /\ ClipCross' /\ ClipAgree'
        BY <1>1, <2>1, <2>2 DEF ClipLinks, ClipFlags, ClipCross, ClipAgree
  <2> QED BY <2>3, <2>4 DEF ClipInv
<1>4. CASE C!channel_destroy
  <2>1. /\ connected' = FALSE /\ main' = FALSE /\ agent' = "none"
        /\ grabbed' = FALSE /\ targets' = FALSE /\ byGuest' = FALSE
        /\ toAgent' = <<>> /\ clip_toClient' = <<>>
        /\ \/ local' = "none" /\ changes' = Append(changes, "gone")
           \/ UNCHANGED <<local, changes>>
        /\ UNCHANGED <<auto, known, hasdata, lookups>>
        BY <1>4 DEF C!channel_destroy, C!AgentGone, C!Cleared
  <2>2. ~C!Has(toAgent', "grab") /\ ~C!Has(clip_toClient', "grab")
        BY <1>2, <2>1, Unowned
  <2>3. changes' \in Seq({"new", "gone"})
    <3>1. "gone" \in {"new", "gone"} /\ changes \in Seq({"new", "gone"})
          BY <1>1 DEF ClipTypes
    <3>2. Append(changes, "gone") \in Seq({"new", "gone"})
          BY <3>1, AfterAppend
    <3> QED BY <2>1, <3>1, <3>2
  <2>4. ClipTypes'
        BY <1>1, <1>2, <2>1, <2>3 DEF ClipTypes
  <2>5. ClipLinks' /\ ClipFlags' /\ ClipCross' /\ ClipAgree'
        BY <1>1, <2>1, <2>2 DEF ClipLinks, ClipFlags, ClipCross, ClipAgree
  <2> QED BY <2>4, <2>5 DEF ClipInv
<1>5. CASE C!AgentStarts
  <2>1. /\ ~connected /\ main' = TRUE /\ connected' = TRUE /\ known' = (known \/ ~main)
        /\ UNCHANGED <<auto, grabbed, byGuest, hasdata, targets, local, changes, lookups, agent,
                       toAgent, clip_toClient>>
        BY <1>5 DEF C!AgentStarts, C!flags, C!guest
  <2>2. toAgent = <<>> /\ clip_toClient = <<>> /\ agent = "none" /\ toAgent \in Seq(Words)
        BY <1>1, <2>1 DEF ClipLinks, ClipTypes
  <2>3. /\ ~C!Has(toAgent, "grab") /\ ~C!Has(clip_toClient, "grab")
        /\ ~Owns(toAgent, agent, "client") /\ (~targets => ~Owns(clip_toClient, Offered, "guest"))
        BY <1>2, <2>2, Unowned DEF Offered
  <2>4. known' => ~main /\ ~grabbed /\ ~targets
        BY <1>1, <2>1 DEF ClipLinks
  <2>5. known' \in BOOLEAN
        BY ONLY <2>1, <1>1 DEF ClipTypes
  <2>6. ClipTypes'
        BY <1>1, <2>1, <2>5 DEF ClipTypes
  <2>7. ClipLinks' /\ ClipFlags' /\ ClipCross'
        BY <1>1, <2>1, <2>2 DEF ClipLinks, ClipFlags, ClipCross
  <2>8. ClipAgree'
    <3>1. Offered' = Offered
          BY <2>1 DEF Offered
    <3> QED BY <2>1, <2>2, <2>3, <2>4, <3>1 DEF ClipAgree
  <2> QED BY <2>6, <2>7, <2>8 DEF ClipInv
<1> QED BY <1>3, <1>4, <1>5

LEMMA ClipKeeps == CrossingGrabs = FALSE /\ ClipInv /\ [C!Next]_(C!vars) => ClipInv'
<1> SUFFICES ASSUME CrossingGrabs = FALSE, ClipInv, [C!Next]_(C!vars) PROVE ClipInv'
    OBVIOUS
<1>1. CASE C!AppCopies
      BY <1>1, AppCopiesKeeps
<1>2. CASE C!clipboard_owner_change
      BY <1>2, OwnerChangeKeeps
<1>3. CASE C!clipboard_get_targets
      BY <1>3, GetTargetsKeeps
<1>4. CASE C!CopyToGuest \/ C!PasteFromGuest
      BY <1>4, ByHandKeeps
<1>5. CASE \/ C!clipboard_get \/ C!LoopReturns \/ C!Received \/ C!GuestPastes
           \/ C!clipboard_request \/ C!clipboard_got_from_guest \/ UNCHANGED C!vars
      BY <1>5, AskingKeeps
<1>6. CASE C!GuestCopies
      BY <1>6, GuestCopiesKeeps
<1>7. CASE C!AgentHandles
      BY <1>7, AgentHandlesKeeps
<1>8. CASE C!clipboard_grab
      BY <1>8, GuestGrabsKeeps
<1>9. CASE C!clipboard_release
      BY <1>9, GuestReleasesKeeps
<1>10. CASE C!AgentStops \/ C!channel_destroy \/ C!AgentStarts
       BY <1>10, ComingsKeep
<1> QED BY <1>1, <1>2, <1>3, <1>4, <1>5, <1>6, <1>7, <1>8, <1>9, <1>10 DEF C!Next

\* A paste that waits, and the loops of several
LEMMA QuitAll ==
  ASSUME NEW z \in Seq(BOOLEAN)
  PROVE  C!Quit(z) \in Seq(BOOLEAN) /\ (\A i \in DOMAIN C!Quit(z) : C!Quit(z)[i])
<1>1. DOMAIN z = 1 .. Len(z) /\ Len(z) \in Nat
      BY LenProperties
<1>2. C!Quit(z) = [i \in 1 .. Len(z) |-> TRUE]
      BY <1>1 DEF C!Quit
<1>3. C!Quit(z) \in [1 .. Len(z) -> BOOLEAN] /\ (\A i \in DOMAIN C!Quit(z) : C!Quit(z)[i])
      BY <1>2
<1> QED BY <1>1, <1>3, SeqDef

LEMMA PasteKeeps ==
  ASSUME ClipInv, waits \in Seq(BOOLEAN), C!PasteIsAnswered, [C!Next]_(C!vars)
  PROVE  waits' \in Seq(BOOLEAN) /\ C!PasteIsAnswered'
<1>1. ClipTypes /\ ClipLinks
      BY DEF ClipInv
<1>2. toAgent \in Seq(Words) /\ clip_toClient \in Seq(Words)
      BY <1>1 DEF ClipTypes
<1>3. CASE C!AgentStops \/ C!channel_destroy \/ C!clipboard_got_from_guest
  <2>1. waits' = C!Quit(waits)
        BY <1>3 DEF C!AgentStops, C!channel_destroy, C!AgentGone, C!StopsWaiting,
                    C!clipboard_got_from_guest
  <2> QED BY <2>1, QuitAll DEF C!PasteIsAnswered
<1>4. CASE C!clipboard_get
  <2>1. waits' = Append(waits, FALSE) /\ toAgent' = C!Queued("request") /\ connected /\ connected'
        BY <1>4 DEF C!clipboard_get
  <2>2. C!Has(toAgent', "request")
        BY <1>1, <2>1, QueuedIs DEF Words
  <2>3. waits' \in Seq(BOOLEAN)
        BY <2>1, AppendProperties
  <2> QED BY <2>1, <2>2, <2>3 DEF C!PasteIsAnswered
<1>5. CASE C!LoopReturns
  <2>1. PICK n \in Nat : n = Len(waits) /\ n > 0
        BY <1>5, LenProperties, EmptySeq DEF C!LoopReturns
  <2>2. waits' = SubSeq(waits, 1, n - 1) /\ UNCHANGED <<connected, toAgent, clip_toClient>>
        BY <1>5, <2>1 DEF C!LoopReturns
  <2>3. /\ SubSeq(waits, 1, n - 1) \in Seq(BOOLEAN)
        /\ Len(SubSeq(waits, 1, n - 1)) = n - 1
        /\ \A i \in 1 .. n - 1 : SubSeq(waits, 1, n - 1)[i] = waits[i]
        BY <2>1, SubSeqProperties
  <2>4. DOMAIN waits = 1 .. n /\ DOMAIN waits' = 1 .. n - 1
        BY <2>1, <2>2, <2>3, LenProperties
  <2>5. \A i \in 1 .. n - 1 : i \in 1 .. n
        BY <2>1
  <2>6. (\E i \in DOMAIN waits' : ~waits'[i]) => \E i \in DOMAIN waits : ~waits[i]
        BY <2>2, <2>3, <2>4, <2>5
  <2> QED BY <2>2, <2>3, <2>6 DEF C!PasteIsAnswered
<1>6. CASE C!AgentHandles
  <2>1. /\ UNCHANGED <<waits, connected>> /\ toAgent # <<>> /\ toAgent' = Tail(toAgent)
        /\ clip_toClient' = IF Head(toAgent) = "request"
                            THEN Append(clip_toClient, "data") ELSE clip_toClient
        BY <1>6 DEF C!AgentHandles
  <2>2. C!Has(toAgent, "request") => C!Has(toAgent', "request") \/ Head(toAgent) = "request"
        BY <1>2, <2>1, AfterTail
  <2>3. C!Has(clip_toClient, "data") \/ Head(toAgent) = "request" => C!Has(clip_toClient', "data")
    <3>1. "data" \in Words
          BY DEF Words
    <3> QED BY <1>2, <2>1, <3>1, AfterAppend
  <2> QED BY <2>1, <2>2, <2>3 DEF C!PasteIsAnswered
<1>7. CASE C!clipboard_grab \/ C!clipboard_release \/ C!clipboard_request
  <2>1. /\ UNCHANGED <<waits, connected, toAgent>> /\ clip_toClient # <<>>
        /\ Head(clip_toClient) # "data" /\ clip_toClient' = Tail(clip_toClient)
        BY <1>7 DEF C!clipboard_grab, C!clipboard_release, C!clipboard_request, C!Arrives
  <2>2. C!Has(clip_toClient, "data") => C!Has(clip_toClient', "data")
        BY <1>2, <2>1, AfterTail
  <2> QED BY <2>1, <2>2 DEF C!PasteIsAnswered
<1>8. CASE C!GuestCopies \/ C!GuestPastes
  <2>1. PICK m \in Words : /\ UNCHANGED <<waits, connected, toAgent>>
                           /\ clip_toClient' = Append(clip_toClient, m)
        BY <1>8 DEF C!GuestCopies, C!GuestPastes, Words
  <2>2. C!Has(clip_toClient, "data") => C!Has(clip_toClient', "data")
        BY <1>2, <2>1, AfterAppend
  <2> QED BY <2>1, <2>2 DEF C!PasteIsAnswered
<1>9. CASE C!clipboard_owner_change \/ C!clipboard_get_targets \/ C!Received
  <2>1. /\ UNCHANGED <<waits, connected, clip_toClient>>
        /\ toAgent' = toAgent \/ \E m \in Words : toAgent' = C!Queued(m)
    <3>1. {"grab", "release", "data"} \subseteq Words
          BY DEF Words
    <3>2. CASE C!clipboard_owner_change
          BY <3>1, <3>2 DEF C!clipboard_owner_change
    <3>3. CASE C!clipboard_get_targets
          BY <3>1, <3>3 DEF C!clipboard_get_targets
    <3>4. CASE C!Received
          BY <3>1, <3>4 DEF C!Received
    <3> QED BY <1>9, <3>2, <3>3, <3>4
  <2>2. connected /\ C!Has(toAgent, "request") => C!Has(toAgent', "request")
        BY <1>1, <2>1, QueuedIs
  <2> QED BY <2>1, <2>2 DEF C!PasteIsAnswered
<1>10. CASE C!AppCopies \/ C!CopyToGuest \/ C!PasteFromGuest \/ UNCHANGED C!vars
  <2>1. UNCHANGED <<waits, connected, toAgent, clip_toClient>>
        BY <1>10 DEF C!AppCopies, C!CopyToGuest, C!PasteFromGuest, C!vars
  <2> QED BY <2>1 DEF C!PasteIsAnswered
<1>11. CASE C!AgentStarts
  <2>1. UNCHANGED <<waits, toAgent, clip_toClient>> /\ connected'
        BY <1>11 DEF C!AgentStarts
  <2> QED BY <2>1 DEF C!PasteIsAnswered
<1> QED BY <1>3, <1>4, <1>5, <1>6, <1>7, <1>8, <1>9, <1>10, <1>11 DEF C!Next

LEMMA ClipboardStep == [MCNext]_mcvars => [C!Next]_(C!vars)
<1> SUFFICES ASSUME [MCNext]_mcvars PROVE [C!Next]_(C!vars)
    OBVIOUS
<1>1. UNCHANGED clipboardVars => UNCHANGED C!vars
      BY DEF clipboardVars, C!vars, C!flags, C!guest, C!count
<1>2. CASE UNCHANGED clipboardVars
      BY <1>1, <1>2
<1>3. CASE ~UNCHANGED clipboardVars
  <2>1. MCNext
        BY <1>3 DEF mcvars
  <2>2. ASSUME NEW x \in {"inputs", "widget", "config", "screen", "screen2", "scaling", "usb"},
               On(x)
        PROVE  FALSE
        BY <1>3, <2>2 DEF On
  <2> QED BY <2>1, <2>2 DEF MCNext, C!Next
<1> QED BY <1>2, <1>3

\* What the session believes when nothing is on its way
LEMMA ClipInvSafe ==
  ASSUME ClipInv, C!PasteIsAnswered
  PROVE  C!SidesAgree /\ C!NeverBoth /\ C!HeldForGuest /\ C!PasteIsAnswered
<1>1. ClipTypes /\ ClipLinks /\ ClipFlags /\ ClipCross /\ ClipAgree
      BY DEF ClipInv
<1>2. ASSUME C!Settled, main, connected, known
      PROVE  /\ agent = "client" <=> grabbed
             /\ agent = "guest" <=> targets
             /\ byGuest => agent = "guest"
  <2>1. toAgent = <<>> /\ clip_toClient = <<>> /\ toAgent \in Seq(Words)
        BY <1>1, <1>2 DEF C!Settled, ClipTypes
  <2>2. /\ ~C!Has(toAgent, "grab") /\ ~C!Has(clip_toClient, "grab")
        /\ Owns(toAgent, agent, "client") <=> agent = "client"
        /\ Owns(clip_toClient, Offered, "guest") <=> Offered = "guest"
        BY <2>1, Unowned
  <2>3. (grabbed <=> agent = "client") /\ (agent = "guest" <=> targets)
        BY <1>1, <1>2, <2>2 DEF ClipAgree, Offered
  <2> QED BY <1>1, <2>3 DEF ClipFlags
<1>3. C!SidesAgree
      BY <1>2 DEF C!SidesAgree
<1>4. C!NeverBoth
      BY <1>1 DEF ClipFlags, C!NeverBoth
<1>5. C!Has(changes, "new") => changes # <<>>
  <2>1. changes \in Seq({"new", "gone"})
        BY <1>1 DEF ClipTypes
  <2> QED BY <2>1, Unowned
<1>6. C!HeldForGuest
      BY <1>1, <1>5 DEF ClipFlags, C!HeldForGuest
<1> QED BY <1>3, <1>4, <1>6

\* The clipboard (clipboard_owner_change, clipboard_get_targets, clipboard_get,
\* clipboard_grab, clipboard_release, clipboard_request of spice-gtk-session.c), for any
\* number of copies, pastes, agents and main channels, when the two sides do not take the
\* clipboard at the same moment (the run clipboard_request_assert shows why): with nothing
\* under way both agree who owns it, the session never announces the client's while it
\* holds the guest's, knows when it holds it no more, and a paste is answered.
THEOREM ClipboardSafeTheorem == CrossingGrabs = FALSE /\ MCSpec => []ClipboardSafe
<1> DEFINE Inv == ClipInv /\ waits \in Seq(BOOLEAN) /\ C!PasteIsAnswered
<1>1. MCInit => Inv
  <2>1. C!Init => waits = <<>> /\ waits \in Seq(BOOLEAN) /\ C!PasteIsAnswered
        BY EmptySeq DEF C!Init, C!PasteIsAnswered
  <2> QED BY <2>1, InitClipInv DEF MCInit
<1>2. CrossingGrabs = FALSE /\ Inv /\ [MCNext]_mcvars => Inv'
      BY ClipboardStep, ClipKeeps, PasteKeeps
<1>3. Inv => ClipboardSafe
      BY ClipInvSafe DEF ClipboardSafe
<1>4. CrossingGrabs = FALSE => (MCInit /\ [][MCNext]_mcvars => []ClipboardSafe)
  <2> SUFFICES ASSUME CrossingGrabs = FALSE
               PROVE  MCInit /\ [][MCNext]_mcvars => []ClipboardSafe
      OBVIOUS
  <2>1. Inv /\ [MCNext]_mcvars => Inv'
        BY <1>2
  <2> QED BY <1>1, <1>3, <2>1, PTL
<1> QED BY <1>4 DEF MCSpec


-----------------------------------------------------------------------------
(* The display widget: where the area is drawn *)

LEMMA DivFacts ==
  ASSUME NEW n \in Int, NEW m \in Nat, m > 0
  PROVE  n \div m \in Int /\ m * (n \div m) <= n /\ n < m * (n \div m) + m
OBVIOUS

LEMMA DivIs ==
  ASSUME NEW n \in Int, NEW m \in Nat, m > 0, NEW q \in Int, m * q <= n, n < m * q + m
  PROVE  n \div m = q
OBVIOUS

\* a * f1 / f2, rounded, is not more than span when the fraction is not
LEMMA RoundedFits ==
  ASSUME NEW a \in Nat, NEW span \in Nat, NEW f1 \in Nat, NEW f2 \in Nat, f2 > 0,
         f1 * a <= span * f2, NEW s, s = (2 * a * f1 + f2) \div (2 * f2)
  PROVE  s \in Nat /\ s <= span
<1>1. PICK n \in Nat : n = 2 * a * f1 + f2
      OBVIOUS
<1>2. PICK m \in Nat : m = 2 * f2 /\ m > 0
      OBVIOUS
<1>3. s \in Int /\ m * s <= n /\ n < m * s + m
      BY <1>1, <1>2, DivFacts
<1>4. n <= m * span + f2
  <2>1. 2 * a * f1 = 2 * (f1 * a) /\ m * span = 2 * (span * f2)
        BY <1>2
  <2> QED BY <1>1, <2>1
<1>5. s < span + 1
  <2>1. m * s < m * (span + 1)
        BY <1>2, <1>3, <1>4
  <2> QED BY <1>2, <1>3, <2>1
<1>6. s >= 0
  <2>1. m * (s + 1) > 0
        BY <1>2, <1>3
  <2> QED BY <1>2, <1>3, <2>1
<1> QED BY <1>3, <1>5, <1>6

\* A picture is in the middle, or at the edge when it is larger.
LEMMA InTheMiddle ==
  ASSUME NEW span \in Nat, NEW s \in Nat, s <= span, NEW o, o = IF span > s THEN (span - s) \div 2 ELSE 0
  PROVE  o \in Nat /\ o + s <= span
OBVIOUS

ScalingTypes == Z!TypeOK

LEMMA ScalingPlain ==
  ASSUME ScalingTypes
  PROVE  \A i \in {1, 2} : area[i] \in Nat \ {0} /\ window[i] \in Nat \ {0}
<1>1. Sizes \subseteq Nat \ {0} /\ Heights \subseteq Nat \ {0}
      BY DesktopAssumption DEF Z!ScalingAssumption
<1> QED BY <1>1 DEF ScalingTypes, Z!TypeOK, Z!Rectangles

LEMMA RatioFacts ==
  ASSUME ScalingTypes
  PROVE  /\ Z!Ratio[1] \in Nat \ {0} /\ Z!Ratio[2] \in Nat \ {0}
         /\ \A i \in {1, 2} : Z!Ratio[1] * area[i] <= window[i] * Z!Ratio[2]
<1>1. PICK w1 \in Nat \ {0} : w1 = window[1]
      BY ScalingPlain
<1>2. PICK w2 \in Nat \ {0} : w2 = window[2]
      BY ScalingPlain
<1>3. PICK a1 \in Nat \ {0} : a1 = area[1]
      BY ScalingPlain
<1>4. PICK a2 \in Nat \ {0} : a2 = area[2]
      BY ScalingPlain
<1>5. Z!Ratio = IF w1 * a2 <= w2 * a1 THEN <<w1, a1>> ELSE <<w2, a2>>
      BY <1>1, <1>2, <1>3, <1>4 DEF Z!Ratio
<1>6. w1 * a2 <= w2 * a1 \/ w2 * a1 <= w1 * a2
      OBVIOUS
<1>7. CASE w1 * a2 <= w2 * a1
  <2>1. Z!Ratio[1] = w1 /\ Z!Ratio[2] = a1
        BY <1>5, <1>7
  <2> QED BY <1>1, <1>2, <1>3, <1>4, <1>7, <2>1
<1>8. CASE ~(w1 * a2 <= w2 * a1)
  <2>1. Z!Ratio[1] = w2 /\ Z!Ratio[2] = a2
        BY <1>5, <1>8
  <2> QED BY <1>1, <1>2, <1>3, <1>4, <1>6, <1>8, <2>1
<1> QED BY <1>7, <1>8

LEMMA FactorFacts ==
  ASSUME ScalingTypes
  PROVE  /\ Z!Factor[1] \in Nat \ {0} /\ Z!Factor[2] \in Nat \ {0}
         /\ \A i \in {1, 2} :
              /\ scaling => Z!Factor[1] * area[i] <= window[i] * Z!Factor[2]
              /\ scaling /\ only_downscale => Z!Factor[1] * area[i] <= area[i] * Z!Factor[2]
<1>1. PICK r1 \in Nat \ {0} : r1 = Z!Ratio[1]
      BY RatioFacts
<1>2. PICK r2 \in Nat \ {0} : r2 = Z!Ratio[2]
      BY RatioFacts
<1>3. CASE ~scaling \/ (only_downscale /\ Z!Grows)
  <2>1. Z!Factor[1] = 1 /\ Z!Factor[2] = 1
        BY <1>3 DEF Z!Factor
  <2>2. ASSUME scaling, NEW i \in {1, 2} PROVE area[i] <= window[i]
    <3>1. r1 >= r2
          BY <1>1, <1>2, <1>3, <2>2 DEF Z!Grows
    <3>2. PICK a \in Nat \ {0} : a = area[i]
          BY ScalingPlain
    <3>3. PICK span \in Nat \ {0} : span = window[i]
          BY ScalingPlain
    <3>4. r1 * a <= span * r2
          BY <1>1, <1>2, <3>2, <3>3, RatioFacts
    <3>5. r2 * a <= r1 * a
          BY <3>1
    <3>6. r2 * a <= r2 * span
          BY <3>4, <3>5
    <3>7. a <= span
          BY <3>6
    <3> QED BY <3>2, <3>3, <3>7
  <2> QED BY <2>1, <2>2, ScalingPlain
<1>4. CASE scaling /\ ~(only_downscale /\ Z!Grows)
  <2>1. Z!Factor = Z!Ratio
        BY <1>4 DEF Z!Factor
  <2>2. ASSUME only_downscale, NEW i \in {1, 2}
        PROVE  r1 * area[i] <= area[i] * r2
    <3>1. r1 <= r2
          BY <1>1, <1>2, <1>4, <2>2 DEF Z!Grows
    <3>2. PICK a \in Nat \ {0} : a = area[i]
          BY ScalingPlain
    <3>3. r1 * a <= a * r2
          BY <3>1
    <3> QED BY <3>2, <3>3
  <2> QED BY <1>1, <1>2, <2>1, <2>2, RatioFacts
<1> QED BY <1>3, <1>4

\* Both hold of any window and any area.
LEMMA ScalingSafe == ASSUME ScalingTypes PROVE Z!Fits /\ Z!PointerReaches
<1>1. PICK f1 \in Nat \ {0} : f1 = Z!Factor[1]
      BY FactorFacts
<1>2. PICK f2 \in Nat \ {0} : f2 = Z!Factor[2]
      BY FactorFacts
<1>3. ASSUME NEW i \in {1, 2}
      PROVE  /\ scaling => Z!Shown(i) \in Nat /\ Z!Shown(i) <= window[i]
                           /\ Z!Offset(i) + Z!Shown(i) <= window[i]
             /\ scaling /\ only_downscale => Z!Shown(i) <= area[i]
  <2>1. PICK a \in Nat \ {0} : a = area[i]
        BY ScalingPlain
  <2>2. PICK span \in Nat \ {0} : span = window[i]
        BY ScalingPlain
  <2>3. PICK s : s = Z!Shown(i) /\ s = (2 * a * f1 + f2) \div (2 * f2)
        BY <1>1, <1>2, <2>1 DEF Z!Shown
  <2>4. /\ scaling => f1 * a <= span * f2
        /\ scaling /\ only_downscale => f1 * a <= a * f2
        BY <1>1, <1>2, <2>1, <2>2, FactorFacts
  <2>5. scaling => s \in Nat /\ s <= span
        BY <2>3, <2>4, RoundedFits
  <2>6. scaling /\ only_downscale => s <= a
        BY <2>3, <2>4, RoundedFits
  <2>7. PICK o : o = Z!Offset(i) /\ o = IF span > s THEN (span - s) \div 2 ELSE 0
        BY <2>2, <2>3 DEF Z!Offset
  <2>8. scaling => o + s <= span
        BY <2>5, <2>7, InTheMiddle
  <2> QED BY <2>1, <2>2, <2>3, <2>5, <2>6, <2>7, <2>8
<1>4. Z!Fits
      BY <1>3 DEF Z!Fits
<1>5. Z!PointerReaches
  <2> SUFFICES ASSUME Z!Shown(1) > 1 PROVE
        /\ Z!Input(1, Z!Offset(1)) = 0
        /\ Z!Input(1, Z!Offset(1) + Z!Shown(1) - 1) = area[1] - 1
        /\ \A p \in 0 .. Z!Shown(1) - 1 : Z!Input(1, Z!Offset(1) + p) \in 0 .. area[1] - 1
      BY DEF Z!PointerReaches
  <2>1. PICK a \in Nat \ {0} : a = area[1]
        BY ScalingPlain
  <2>2. PICK span \in Nat \ {0} : span = window[1]
        BY ScalingPlain
  <2>3. PICK s \in Int : s = Z!Shown(1)
    <3>1. (2 * a * f1 + f2) \div (2 * f2) \in Int
          OBVIOUS
    <3> QED BY <1>1, <1>2, <2>1, <3>1 DEF Z!Shown
  <2>4. PICK m \in Nat : m = s - 1 /\ m > 0
        BY <2>3
  <2>5. PICK o \in Int : o = Z!Offset(1)
    <3>1. (span - s) \div 2 \in Int
          OBVIOUS
    <3> QED BY <2>2, <2>3, <3>1 DEF Z!Offset
  <2>6. PICK b \in Nat : b = a - 1
        OBVIOUS
  <2>7. \A x \in Int : Z!Input(1, o + x) = (x * b) \div m
    <3> TAKE x \in Int
    <3>1. Z!InputScale[1] = b /\ Z!InputScale[2] = m
          BY <2>1, <2>3, <2>4, <2>6 DEF Z!InputScale
    <3>2. (o + x) - o = x
          OBVIOUS
    <3> QED BY <2>5, <3>1, <3>2 DEF Z!Input
  <2>8. \A x \in 0 .. m : (x * b) \div m \in 0 .. b
    <3> TAKE x \in 0 .. m
    <3>1. PICK n \in Nat : n = x * b
          OBVIOUS
    <3>2. PICK q \in Int : q = n \div m /\ m * q <= n /\ n < m * q + m
          BY <2>4, DivFacts
    <3>3. n <= m * b
          BY <3>1
    <3>4. m * q <= m * b /\ m * (q + 1) > 0
          BY <3>2, <3>3
    <3>5. q <= b /\ q + 1 > 0
          BY <2>4, <3>4
    <3> QED BY <3>1, <3>2, <3>5
  <2>9. (0 * b) \div m = 0 /\ (m * b) \div m = b
    <3>1. (0 * b) \div m = 0
          BY <2>4, DivIs
    <3>2. PICK n \in Nat : n = m * b
          OBVIOUS
    <3>3. n \div m = b
          BY <2>4, <3>2, DivIs
    <3> QED BY <3>1, <3>2, <3>3
  <2>10. o + 0 = o /\ o + s - 1 = o + m /\ m \in Int /\ 0 \in Int
         BY <2>4
  <2>11. Z!Input(1, o) = 0 /\ Z!Input(1, o + s - 1) = b
         BY <2>7, <2>9, <2>10
  <2>12. \A p \in 0 .. s - 1 : Z!Input(1, o + p) \in 0 .. b
         BY <2>4, <2>7, <2>8
  <2> QED BY <2>1, <2>3, <2>5, <2>6, <2>11, <2>12
<1> QED BY <1>4, <1>5

-----------------------------------------------------------------------------
(* The display widget: the picture *)

Painted == [whole : BOOLEAN, cap : BOOLEAN, width : Nat, deep : BOOLEAN, origin : Int,
            data : Int, convert : BOOLEAN, surface : Int, copy : SUBSET Nat,
            area : SUBSET Nat, mark : BOOLEAN, monitor_ready : BOOLEAN, ready : BOOLEAN,
            enabled : BOOLEAN, context_ready : BOOLEAN, gl_realized : BOOLEAN,
            texture : Int, call_draw_done : BOOLEAN, faulty : BOOLEAN]
Monitors == {m \in SUBSET Nat : IsFiniteSet(m)}
Primaries == [image : 0 .. MaxImages, width : Nat, deep : BOOLEAN, marked : BOOLEAN,
              mine : Monitors, alone : BOOLEAN, scanout : Int, swidth : Nat]

\* The widget e draws from what the channel h has, or from its own copy of an area of it.
Picture(h, e) ==
  /\ e \in Painted /\ ~e.faulty
  /\ e.convert =>
       /\ h.image # S!None /\ e.deep /\ ~e.enabled /\ e.data = S!Copy /\ e.surface = S!Copy
       /\ e.area \in {e.copy, {}} /\ e.copy \subseteq S!Columns(e.width)
  /\ ~e.convert => e.data \in {S!None, h.image} /\ e.surface \in {S!NoSurface, S!None, h.image}

\* ... and shows the primary of the channel it is attached to.
ScreenInv ==
  /\ screen_c \in Primaries /\ images \in 0 .. MaxImages
  /\ attached \in BOOLEAN /\ built \in BOOLEAN /\ realized \in BOOLEAN
  /\ screen_c.image = S!None => screen_c.width = 0
  /\ Picture(screen_c, screen_d)
  /\ ~built => ~attached /\ ~realized
  /\ attached => screen_d.width = screen_c.width /\ screen_d.origin = screen_c.image
  /\ ~attached => /\ screen_d.width = 0 /\ screen_d.origin = S!None /\ screen_d.data = S!None
                  /\ screen_d.surface \in {S!NoSurface, S!None} /\ ~screen_d.monitor_ready
                  /\ ~screen_d.convert /\ (built => screen_c = S!NoChannel)

\* The part of the primary that is the monitor of the widget e, as the channel h says
Wanted(h) == IF h.alone THEN S!Columns(S!Cardinality(h.mine)) ELSE h.mine
Placed(h, e) ==
  /\ e.monitor_ready => e.area \subseteq S!Columns(e.width)
  /\ ~e.whole /\ e.cap => (e.monitor_ready <=> Wanted(h) \intersect S!Columns(e.width) # {})
  /\ ~e.whole /\ e.monitor_ready /\ h.mine # {} =>
       e.area = Wanted(h) \intersect S!Columns(e.width)

\* With the canvas there is no scanout, and the widget is ready when it has its area.
Canvas ==
  /\ screen_c.scanout = S!None /\ ~screen_d.enabled /\ draws = 0 /\ ~screen_d.call_draw_done
  /\ screen_d.ready <=> screen_d.monitor_ready /\ screen_d.mark
  /\ attached => Placed(screen_c, screen_d)

\* With GL the primaries have 32 bits, and the server waits for what is remembered.
Scanouts ==
  /\ ~screen_c.deep /\ ~screen_d.deep /\ channels \in Nat \ {0} /\ G!DrawRemembered

CanvasInv == ScreenInv /\ Canvas
ScanoutInv == ScreenInv /\ Scanouts

\* What drawing the picture leaves alone
Kept(e, f) ==
  /\ f.whole = e.whole /\ f.cap = e.cap /\ f.width = e.width /\ f.deep = e.deep
  /\ f.origin = e.origin /\ f.mark = e.mark /\ f.enabled = e.enabled
  /\ f.call_draw_done = e.call_draw_done
Fitting(h, e) ==
  /\ h \in Primaries /\ e.width = h.width /\ e.origin = h.image
  /\ h.image = S!None => h.width = 0
  /\ e.enabled => ~e.deep

LEMMA NotCopied ==
  ASSUME NEW h \in Primaries
  PROVE  S!Copy \in Nat /\ h.image # S!Copy /\ S!None # S!Copy /\ S!NoSurface # S!Copy
BY DesktopAssumption DEF S!ScreenAssumption, S!Copy, S!None, S!NoSurface, Primaries

LEMMA ImageDestroyed ==
  ASSUME NEW h, NEW e, Picture(h, e), NEW f, f = S!image_destroy(e)
  PROVE  /\ Picture(h, f) /\ Kept(e, f)
         /\ f.area = e.area /\ f.monitor_ready = e.monitor_ready /\ f.ready = e.ready
         /\ f.surface = S!NoSurface /\ ~f.convert /\ f.data \in {S!None, e.data}
<1>1. PICK v \in Int : v = S!Freed(e)
      BY DEF Picture, Painted, S!Freed, S!None
<1>2. PICK b \in BOOLEAN : b = (e.faulty \/ (e.convert /\ e.data # S!Copy))
      OBVIOUS
<1>3. f = [e EXCEPT !.surface = S!NoSurface, !.data = v, !.convert = FALSE, !.faulty = b]
      BY <1>1, <1>2 DEF S!image_destroy
<1>4. e \in Painted /\ S!NoSurface \in Int /\ ~b
  <2>1. e \in Painted /\ ~e.faulty /\ ~(e.convert /\ e.data # S!Copy)
        BY DEF Picture
  <2>2. ~b
        BY <1>2, <2>1, Zenon
  <2> QED BY <2>1, <2>2 DEF S!NoSurface
<1>5. /\ f \in Painted /\ f.surface = S!NoSurface /\ f.data = v /\ ~f.convert /\ ~f.faulty
      /\ f.area = e.area /\ f.monitor_ready = e.monitor_ready /\ f.ready = e.ready
      /\ Kept(e, f)
      BY <1>3, <1>4, ZenonT(30) DEF Painted, Kept
<1>6. v \in {S!None, e.data} /\ v \in {S!None, h.image}
      BY <1>1 DEF Picture, S!Freed
<1> QED BY <1>5, <1>6 DEF Picture

LEMMA ImageCreated ==
  ASSUME NEW h \in Primaries, NEW e, Picture(h, e), NEW f, f = S!update_image(h, e),
         e.deep => /\ Fitting(h, e) /\ e.area \subseteq S!Columns(e.width) /\ h.image # S!None
                   /\ ~e.enabled /\ e.surface = S!NoSurface
  PROVE  /\ Picture(h, f) /\ Kept(e, f)
         /\ f.area = e.area /\ f.monitor_ready = e.monitor_ready /\ f.ready = e.ready
         /\ ~e.deep => ~f.convert /\ f.data = e.data /\ f.surface \in {e.surface, e.data}
<1>1. PICK m : m = S!image_create(e)
      OBVIOUS
<1>2. f = S!do_color_convert(h, m, m.area)
      BY <1>1 DEF S!update_image
<1>3. CASE e.surface # S!NoSurface
  <2>1. m = e /\ ~e.deep
        BY <1>1, <1>3 DEF S!image_create
  <2>2. ~e.convert
        BY <2>1 DEF Picture
  <2>3. f = e
        BY <1>2, <2>1, <2>2 DEF S!do_color_convert
  <2> QED BY <2>1, <2>2, <2>3 DEF Kept
<1>4. CASE e.surface = S!NoSurface /\ ~e.deep
  <2>1. m = [e EXCEPT !.convert = FALSE, !.surface = e.data]
        BY <1>1, <1>4 DEF S!image_create
  <2>2. ~m.convert /\ ~e.convert
        BY <1>4, <2>1 DEF Picture, Painted
  <2>3. f = m
        BY <1>2, <2>2 DEF S!do_color_convert
  <2> QED BY <1>4, <2>1, <2>2, <2>3 DEF Picture, Painted, Kept
<1>5. CASE e.surface = S!NoSurface /\ e.deep
  <2>1. m = [e EXCEPT !.convert = TRUE, !.data = S!Copy, !.copy = e.area, !.surface = S!Copy]
        BY <1>1, <1>5 DEF S!image_create
  <2>2. /\ m \in Painted /\ m.convert /\ m.data = S!Copy /\ m.copy = e.area
        /\ m.surface = S!Copy /\ m.area = e.area /\ ~m.faulty /\ Kept(e, m)
        /\ m.monitor_ready = e.monitor_ready /\ m.ready = e.ready
    <3>1. S!Copy \in Int
          BY NotCopied
    <3> QED BY <2>1, <3>1 DEF Picture, Painted, Kept
  <2>3. /\ m.origin = h.image /\ S!Live(h, m.area)
        BY <1>5, <2>2 DEF Fitting, Kept, S!Live
  <2>4. f = [m EXCEPT !.faulty = FALSE]
        BY <1>2, <2>2, <2>3 DEF S!do_color_convert
  <2>5. f = m
        BY <2>2, <2>4 DEF Painted
  <2> QED BY <1>5, <2>2, <2>5 DEF Picture, Kept
<1> QED BY <1>3, <1>4, <1>5

LEMMA ReadySet ==
  ASSUME NEW h, NEW e, Picture(h, e), NEW f, f = S!set_monitor_ready(e, TRUE)
  PROVE  /\ Picture(h, f) /\ Kept(e, f) /\ f.area = e.area /\ f.monitor_ready
         /\ f.ready <=> e.enabled \/ e.mark
         /\ f.data = e.data /\ f.surface = e.surface /\ f.convert = e.convert
<1>1. PICK g : g = [e EXCEPT !.monitor_ready = TRUE]
      OBVIOUS
<1>2. /\ g \in Painted /\ g.monitor_ready = TRUE /\ g.enabled = e.enabled /\ g.mark = e.mark
      /\ Picture(h, g) /\ Kept(e, g) /\ g.area = e.area
      /\ g.data = e.data /\ g.surface = e.surface /\ g.convert = e.convert
      BY <1>1 DEF Picture, Painted, Kept
<1>3. f = [g EXCEPT !.ready = g.monitor_ready /\ (g.enabled \/ g.mark)]
      BY <1>1 DEF S!set_monitor_ready, S!update_ready
<1>4. f.ready <=> e.enabled \/ e.mark
      BY <1>2, <1>3 DEF Painted
<1>5. /\ f \in Painted /\ f.monitor_ready = g.monitor_ready /\ f.area = g.area
      /\ f.data = g.data /\ f.surface = g.surface /\ f.convert = g.convert
      /\ f.copy = g.copy /\ f.faulty = g.faulty /\ Kept(g, f)
      BY <1>2, <1>3, ZenonT(30) DEF Painted, Kept
<1>6. Picture(h, f)
      BY <1>2, <1>5 DEF Picture, Kept
<1>7. Kept(e, f)
      BY <1>2, <1>5 DEF Kept
<1> QED BY <1>2, <1>4, <1>5, <1>6, <1>7

LEMMA ReadyUnset ==
  ASSUME NEW h, NEW e, Picture(h, e), NEW f, f = S!set_monitor_ready(e, FALSE)
  PROVE  /\ Picture(h, f) /\ Kept(e, f) /\ ~f.monitor_ready /\ ~f.ready
         /\ f.data = e.data /\ f.surface = e.surface /\ f.convert = e.convert
<1>1. PICK g : g = [e EXCEPT !.monitor_ready = FALSE]
      OBVIOUS
<1>2. /\ g \in Painted /\ g.monitor_ready = FALSE /\ g.enabled = e.enabled /\ g.mark = e.mark
      /\ Picture(h, g) /\ Kept(e, g) /\ g.area = e.area
      /\ g.data = e.data /\ g.surface = e.surface /\ g.convert = e.convert
      BY <1>1 DEF Picture, Painted, Kept
<1>3. f = [g EXCEPT !.ready = g.monitor_ready /\ (g.enabled \/ g.mark)]
      BY <1>1 DEF S!set_monitor_ready, S!update_ready
<1>4. ~f.ready
      BY <1>2, <1>3 DEF Painted
<1>5. /\ f \in Painted /\ f.monitor_ready = g.monitor_ready /\ f.area = g.area
      /\ f.data = g.data /\ f.surface = g.surface /\ f.convert = g.convert
      /\ f.copy = g.copy /\ f.faulty = g.faulty /\ Kept(g, f)
      BY <1>2, <1>3 DEF Painted, Kept
<1>6. Picture(h, f)
      BY <1>2, <1>5 DEF Picture, Kept
<1>7. Kept(e, f)
      BY <1>2, <1>5 DEF Kept
<1> QED BY <1>2, <1>4, <1>5, <1>6, <1>7

LEMMA ReadyArea ==
  ASSUME NEW e \in Painted, NEW on \in BOOLEAN
  PROVE  S!set_monitor_ready(e, on).area = e.area
<1>1. PICK g : g = [e EXCEPT !.monitor_ready = on]
      OBVIOUS
<1>2. g \in Painted /\ g.area = e.area
      BY <1>1 DEF Painted
<1>3. PICK b \in BOOLEAN : b = (g.monitor_ready /\ (g.enabled \/ g.mark))
      OBVIOUS
<1>4. S!set_monitor_ready(e, on) = [g EXCEPT !.ready = b]
      BY <1>1, <1>3 DEF S!set_monitor_ready, S!update_ready
<1> QED BY <1>2, <1>4 DEF Painted

LEMMA AreaSet ==
  ASSUME NEW h, NEW e, Picture(h, e), Fitting(h, e), realized \in BOOLEAN,
         NEW cols, cols \subseteq Nat, NEW f, f = S!update_area(h, e, cols)
  PROVE  /\ Picture(h, f) /\ Kept(e, f)
         /\ ~e.enabled => /\ f.area = cols \intersect S!Columns(e.width)
                          /\ f.monitor_ready <=> f.area # {}
                          /\ f.ready <=> f.monitor_ready /\ (e.enabled \/ e.mark)
<1>1. CASE e.enabled /\ h.scanout = S!None
  <2>1. f = [e EXCEPT !.area = cols]
        BY <1>1 DEF S!update_area
  <2>2. ~e.convert
        BY <1>1 DEF Picture
  <2> QED BY <1>1, <2>1, <2>2 DEF Picture, Painted, Kept
<1>2. CASE ~(e.enabled /\ h.scanout = S!None)
  <2>1. PICK p : p = [e EXCEPT !.area = S!AreaOf(h, e, cols)]
        OBVIOUS
  <2>2. f = IF p.area = {} THEN S!set_monitor_ready(p, FALSE)
            ELSE S!set_monitor_ready(IF e.enabled THEN p ELSE S!Refreshed(h, p), TRUE)
        BY <1>2, <2>1 DEF S!update_area
  <2>3. S!AreaOf(h, e, cols) \subseteq Nat
        BY DEF S!AreaOf
  <2>4. /\ p \in Painted /\ p.area = S!AreaOf(h, e, cols) /\ Kept(e, p) /\ ~p.faulty
        /\ p.data = e.data /\ p.surface = e.surface /\ p.convert = e.convert /\ p.copy = e.copy
        /\ ~e.enabled => p.area = cols \intersect S!Columns(e.width)
        BY <2>1, <2>3 DEF Picture, Painted, Kept, S!AreaOf
  <2>5. CASE p.area = {}
    <3>1. Picture(h, p)
          BY <2>4, <2>5 DEF Picture, Kept
    <3>2. f = S!set_monitor_ready(p, FALSE)
          BY <2>2, <2>5
    <3>3. Picture(h, f) /\ Kept(p, f) /\ f.area = p.area /\ ~f.monitor_ready /\ ~f.ready
    <4>1. Picture(h, f)
          BY <3>1, <3>2, ReadyUnset
    <4>2. Kept(p, f)
          BY <3>1, <3>2, ReadyUnset
    <4>3. f.area = p.area
          BY <2>4, <3>2, ReadyArea
    <4>4. ~f.monitor_ready
          BY <3>1, <3>2, ReadyUnset
    <4>5. ~f.ready
          BY <3>1, <3>2, ReadyUnset
    <4> QED BY <4>1, <4>2, <4>3, <4>4, <4>5
    <3> QED BY <2>4, <2>5, <3>3 DEF Kept
  <2>6. CASE p.area # {} /\ e.enabled
    <3>1. Picture(h, p)
          BY <2>4, <2>6 DEF Picture, Kept
    <3>2. f = S!set_monitor_ready(p, TRUE)
          BY <2>2, <2>6
    <3>3. /\ Picture(h, f) /\ Kept(p, f) /\ f.area = p.area /\ f.monitor_ready
          /\ f.ready <=> (p.enabled \/ p.mark)
          BY <3>1, <3>2, ReadySet, ZenonT(30)
    <3> QED BY <2>4, <2>6, <3>3 DEF Kept
  <2>7. CASE p.area # {} /\ ~e.enabled
    <3>1. PICK g : g = S!image_destroy(p)
          OBVIOUS
    <3>2. PICK r : r = S!Refreshed(h, p)
          OBVIOUS
    <3>3. PICK q : q = [e EXCEPT !.area = {}]
          OBVIOUS
    <3>4. /\ g \in Painted /\ Kept(p, g) /\ g.area = p.area /\ g.surface = S!NoSurface
          /\ ~g.convert /\ ~g.faulty
          /\ g.data \in {S!None, h.image}
      <4>1. PICK v \in Int : v = S!Freed(p)
            BY <2>4 DEF Painted, S!Freed, S!None
      <4>2. PICK b \in BOOLEAN : b = (p.faulty \/ (p.convert /\ p.data # S!Copy))
            OBVIOUS
      <4>3. g = [p EXCEPT !.surface = S!NoSurface, !.data = v, !.convert = FALSE, !.faulty = b]
            BY <3>1, <4>1, <4>2 DEF S!image_destroy
      <4>4. S!NoSurface \in Int /\ ~b
        <5>1. ~p.faulty /\ ~(p.convert /\ p.data # S!Copy)
              BY <2>4 DEF Picture
        <5>2. ~b
              BY <4>2, <5>1, Zenon
        <5> QED BY <5>2 DEF S!NoSurface
      <4>5. v \in {S!None, h.image}
            BY <2>4, <4>1 DEF Picture, S!Freed
      <4> QED BY <2>4, <4>3, <4>4, <4>5 DEF Painted, Kept
    <3>5. Picture(h, g)
          BY <3>4 DEF Picture
    <3>6. r = IF realized THEN S!update_image(h, g) ELSE g
          BY <3>1, <3>2 DEF S!Refreshed
    <3>7. h.image # S!None
      <4>1. CASE h.image = S!None
        <5>1. e.width = 0
              BY <4>1 DEF Fitting
        <5> QED BY <2>4, <2>7, <5>1 DEF S!Columns
      <4> QED BY <4>1
    <3>8. /\ Fitting(h, g) /\ g.area \subseteq S!Columns(g.width) /\ ~g.enabled /\ h \in Primaries
          BY <2>4, <2>7, <3>4 DEF Fitting, Kept
    <3>9. Picture(h, r) /\ Kept(g, r) /\ r.area = g.area
          BY <3>4, <3>5, <3>6, <3>7, <3>8, ImageCreated DEF Kept
    <3>10. f = S!set_monitor_ready(r, TRUE)
          BY <2>2, <2>7, <3>2
    <3>11. /\ Picture(h, f) /\ Kept(r, f) /\ f.area = r.area /\ f.monitor_ready
           /\ f.ready <=> (r.enabled \/ r.mark)
      <4>1. /\ Picture(h, f) /\ Kept(r, f) /\ f.monitor_ready
            /\ f.ready <=> (r.enabled \/ r.mark)
            BY <3>9, <3>10, ReadySet, ZenonT(30)
      <4>2. f.area = r.area
            BY <3>9, <3>10, ReadyArea DEF Picture
      <4> QED BY <4>1, <4>2
    <3>12. Kept(e, f)
           BY <2>4, <3>4, <3>9, <3>11 DEF Kept
    <3> QED BY <2>4, <2>7, <3>4, <3>9, <3>11, <3>12 DEF Kept
  <2> QED BY <2>5, <2>6, <2>7
<1> QED BY <1>1, <1>2

LEMMA WantedIsPart ==
  ASSUME NEW h \in Primaries
  PROVE  /\ Wanted(h) \subseteq Nat /\ h.mine \subseteq Nat
         /\ h.mine = {} => Wanted(h) = {}
<1>1. h.mine \subseteq Nat /\ IsFiniteSet(h.mine)
      BY DEF Primaries, Monitors
<1>3. Cardinality(h.mine) \in Nat /\ (h.mine = {} => Cardinality(h.mine) = 0)
      BY <1>1, FS_CardinalityType, FS_EmptySet
<1>4. S!Cardinality(h.mine) = Cardinality(h.mine)
      BY DEF S!Cardinality, Cardinality, S!IsFiniteSet, IsFiniteSet
<1> QED BY <1>1, <1>3, <1>4 DEF Wanted, S!Columns

LEMMA WholeShown ==
  ASSUME NEW h, NEW e, Picture(h, e), Fitting(h, e), realized \in BOOLEAN,
         NEW f, f = S!Whole(h, e)
  PROVE  /\ Picture(h, f) /\ Kept(e, f) /\ f.monitor_ready
         /\ f.ready <=> (e.enabled \/ e.mark)
         /\ ~e.enabled => f.area \subseteq S!Columns(e.width)
<1>1. PICK g : g = S!update_area(h, e, S!Columns(e.width))
      OBVIOUS
<1>2. S!Columns(e.width) \subseteq Nat
      BY DEF S!Columns
<1>3. /\ Picture(h, g) /\ Kept(e, g)
      /\ ~e.enabled => g.area \subseteq S!Columns(e.width)
      BY <1>1, <1>2, AreaSet
<1>4. f = S!set_monitor_ready(g, TRUE)
      BY <1>1 DEF S!Whole
<1>5. /\ Picture(h, f) /\ Kept(g, f) /\ f.monitor_ready
      /\ f.ready <=> (g.enabled \/ g.mark)
      BY <1>3, <1>4, ReadySet
<1>6. f.area = g.area
      BY <1>3, <1>4, ReadySet, ZenonT(30)
<1>7. Kept(e, f)
      BY <1>3, <1>5 DEF Kept
<1> QED BY <1>3, <1>5, <1>6, <1>7 DEF Kept

LEMMA MonitorShown ==
  ASSUME NEW h, NEW e, Picture(h, e), Fitting(h, e), realized \in BOOLEAN,
         NEW f, f = S!update_monitor_area(h, e)
  PROVE  /\ Picture(h, f) /\ Kept(e, f)
         /\ ~e.enabled => Placed(h, f) /\ (f.ready <=> f.monitor_ready /\ f.mark)
<1>1. /\ Wanted(h) \subseteq Nat /\ (h.mine = {} => Wanted(h) = {})
      /\ h.mine \subseteq Nat
  <2>1. h \in Primaries
        BY DEF Fitting
  <2> QED BY <2>1, WantedIsPart
<1>2. CASE e.whole
  <2>1. f = S!Whole(h, e)
        BY <1>2 DEF S!update_monitor_area
  <2>2. /\ Picture(h, f) /\ Kept(e, f) /\ f.monitor_ready
        /\ f.ready <=> (e.enabled \/ e.mark)
        /\ ~e.enabled => f.area \subseteq S!Columns(e.width)
        BY <2>1, WholeShown
  <2> QED BY <1>2, <2>2 DEF Kept, Placed
<1>3. CASE ~e.whole /\ h.mine = {} /\ e.cap
  <2>1. f = S!set_monitor_ready(e, FALSE)
        BY <1>3 DEF S!update_monitor_area, S!Missing, S!Waits
  <2>2. Picture(h, f) /\ Kept(e, f) /\ ~f.monitor_ready /\ ~f.ready
        BY <2>1, ReadyUnset
  <2>3. Placed(h, f)
        BY <1>1, <1>3, <2>2 DEF Placed
  <2> QED BY <2>2, <2>3
<1>4. CASE ~e.whole /\ h.mine = {} /\ ~e.cap
  <2>1. PICK g : g = S!set_monitor_ready(e, FALSE)
        OBVIOUS
  <2>2. Picture(h, g) /\ Kept(e, g)
        BY <2>1, ReadyUnset
  <2>3. f = S!Whole(h, g)
        BY <1>4, <2>1 DEF S!update_monitor_area, S!Missing, S!Waits
  <2>4. Fitting(h, g)
        BY <2>2 DEF Fitting, Kept
  <2>5. /\ Picture(h, f) /\ Kept(g, f) /\ f.monitor_ready
        /\ f.ready <=> (g.enabled \/ g.mark)
        /\ ~g.enabled => f.area \subseteq S!Columns(g.width)
        BY <2>2, <2>3, <2>4, WholeShown
  <2>6. Kept(e, f)
        BY <2>2, <2>5 DEF Kept
  <2> QED BY <1>4, <2>2, <2>5, <2>6 DEF Kept, Placed
<1>5. CASE ~e.whole /\ h.mine # {}
  <2>1. PICK cols : /\ f = S!update_area(h, e, cols) /\ cols \subseteq Nat
                    /\ ~e.enabled => cols = Wanted(h)
    <3>1. CASE h.alone /\ ~e.enabled
      <4>1. f = S!update_area(h, e, Wanted(h))
            BY <1>5, <3>1 DEF S!update_monitor_area, Wanted
      <4> QED BY <1>1, <4>1
    <3>2. CASE ~(h.alone /\ ~e.enabled)
      <4>1. f = S!update_area(h, e, h.mine)
            BY <1>5, <3>2 DEF S!update_monitor_area
      <4>2. ~e.enabled => h.mine = Wanted(h)
            BY <3>2 DEF Wanted
      <4> QED BY <1>1, <4>1, <4>2
    <3> QED BY <3>1, <3>2
  <2>2. /\ Picture(h, f) /\ Kept(e, f)
        /\ ~e.enabled => /\ f.area = cols \intersect S!Columns(e.width)
                         /\ f.monitor_ready <=> f.area # {}
                         /\ f.ready <=> f.monitor_ready /\ (e.enabled \/ e.mark)
        BY <2>1, AreaSet
  <2>3. ~e.enabled => f.area = Wanted(h) \intersect S!Columns(f.width)
        BY <2>1, <2>2 DEF Kept
  <2>4. ~e.enabled => Placed(h, f)
        BY <2>2, <2>3 DEF Placed
  <2>5. ~e.enabled => (f.ready <=> f.monitor_ready /\ f.mark)
        BY <2>2 DEF Kept
  <2> QED BY <2>2, <2>4, <2>5
<1> QED BY <1>2, <1>3, <1>4, <1>5

\* A primary that comes where there is none
LEMMA PrimaryShown ==
  ASSUME NEW h \in Primaries, NEW e \in Painted, ~e.faulty, ~e.convert,
         e.surface \in {S!NoSurface, S!None, h.image},
         h.image = S!None => h.width = 0, e.enabled => ~h.deep,
         realized \in BOOLEAN, NEW f, f = S!primary_create(h, e)
  PROVE  /\ Picture(h, f) /\ f.width = h.width /\ f.origin = h.image /\ f.deep = h.deep
         /\ f.enabled = e.enabled /\ f.call_draw_done = e.call_draw_done
         /\ ~e.enabled => Placed(h, f) /\ (f.ready <=> f.monitor_ready /\ f.mark)
<1>1. PICK g : g = [e EXCEPT !.width = h.width, !.deep = h.deep,
                             !.origin = h.image, !.data = h.image]
      OBVIOUS
<1>2. h.width \in Nat /\ h.deep \in BOOLEAN /\ h.image \in Int
      BY DEF Primaries
<1>3. /\ g \in Painted /\ g.width = h.width /\ g.deep = h.deep /\ g.origin = h.image
      /\ g.data = h.image /\ g.enabled = e.enabled /\ g.call_draw_done = e.call_draw_done
      /\ ~g.convert /\ ~g.faulty /\ g.surface = e.surface
      BY <1>1, <1>2 DEF Painted
<1>4. Picture(h, g) /\ Fitting(h, g)
      BY <1>3 DEF Picture, Fitting
<1>5. f = S!update_monitor_area(h, g)
      BY <1>1 DEF S!primary_create
<1>6. /\ Picture(h, f) /\ Kept(g, f)
      /\ ~g.enabled => Placed(h, f) /\ (f.ready <=> f.monitor_ready /\ f.mark)
      BY <1>4, <1>5, MonitorShown
<1> QED BY <1>3, <1>6 DEF Kept

\* ... and one that goes
LEMMA PrimaryGone ==
  ASSUME NEW h, NEW e, Picture(h, e), NEW f, f = S!primary_destroy(e)
  PROVE  /\ f \in Painted /\ ~f.faulty /\ ~f.convert /\ f.data = S!None
         /\ f.surface = S!NoSurface /\ f.width = 0 /\ f.origin = S!None
         /\ ~f.monitor_ready /\ ~f.ready /\ f.deep = e.deep /\ f.whole = e.whole
         /\ f.enabled = e.enabled /\ f.call_draw_done = e.call_draw_done
<1>1. PICK g : g = S!image_destroy(e)
      OBVIOUS
<1>2. Picture(h, g) /\ Kept(e, g) /\ g.surface = S!NoSurface /\ ~g.convert
      BY <1>1, ImageDestroyed
<1>3. PICK k : k = [g EXCEPT !.width = 0, !.data = S!None, !.origin = S!None]
      OBVIOUS
<1>4. /\ k \in Painted /\ k.width = 0 /\ k.data = S!None /\ k.origin = S!None
      /\ ~k.faulty /\ ~k.convert /\ k.surface = S!NoSurface /\ k.deep = g.deep
      /\ k.whole = g.whole /\ k.enabled = g.enabled /\ k.call_draw_done = g.call_draw_done
  <2>1. g \in Painted /\ ~g.faulty /\ S!None = 0
        BY <1>2 DEF Picture, S!None
  <2>2. k \in Painted
    <3>1. PICK x \in Int, y \in Nat : x = S!None /\ y = 0
          BY <2>1
    <3>2. k = [g EXCEPT !.width = y, !.data = x, !.origin = x]
          BY <1>3, <3>1
    <3> QED BY <2>1, <3>2 DEF Painted
  <2>3. /\ k.width = 0 /\ k.data = S!None /\ k.origin = S!None
        /\ k.faulty = g.faulty /\ k.convert = g.convert /\ k.surface = g.surface
        /\ k.deep = g.deep
        /\ k.whole = g.whole /\ k.enabled = g.enabled /\ k.call_draw_done = g.call_draw_done
        BY <1>3, <2>1 DEF Painted
  <2> QED BY <1>2, <2>1, <2>2, <2>3
<1>5. Picture(h, k)
      BY <1>4 DEF Picture
<1>6. f = S!set_monitor_ready(k, FALSE)
      BY <1>1, <1>3 DEF S!primary_destroy, S!Cleared, S!Emptied
<1>7. /\ Picture(h, f) /\ Kept(k, f) /\ ~f.monitor_ready /\ ~f.ready
      BY <1>5, <1>6, ReadyUnset
<1>8. f.data = k.data /\ f.surface = k.surface /\ f.convert = k.convert
      BY <1>5, <1>6, ReadyUnset, ZenonT(30)
<1> QED BY <1>2, <1>4, <1>7, <1>8 DEF Kept, Picture

LEMMA MarkedArea ==
  ASSUME NEW e \in Painted, NEW on \in BOOLEAN
  PROVE  S!mark(e, on).area = e.area
<1>1. PICK g : g = [e EXCEPT !.mark = on]
      OBVIOUS
<1>2. g \in Painted /\ g.area = e.area
      BY <1>1 DEF Painted
<1>3. PICK b \in BOOLEAN : b = (g.monitor_ready /\ (g.enabled \/ g.mark))
      OBVIOUS
<1>4. S!mark(e, on) = [g EXCEPT !.ready = b]
      BY <1>1, <1>3 DEF S!mark, S!update_ready
<1> QED BY <1>2, <1>4 DEF Painted

LEMMA Marked ==
  ASSUME NEW h, NEW e, Picture(h, e), NEW on \in BOOLEAN, NEW f, f = S!mark(e, on)
  PROVE  /\ Picture(h, f) /\ f.mark = on
         /\ f.ready <=> f.monitor_ready /\ (e.enabled \/ on)
         /\ f.whole = e.whole /\ f.cap = e.cap /\ f.width = e.width /\ f.deep = e.deep
         /\ f.origin = e.origin /\ f.enabled = e.enabled /\ f.data = e.data
         /\ f.convert = e.convert /\ f.surface = e.surface
         /\ f.monitor_ready = e.monitor_ready /\ f.call_draw_done = e.call_draw_done
<1>1. PICK g : g = [e EXCEPT !.mark = on]
      OBVIOUS
<1>2. /\ g \in Painted /\ g.mark = on /\ g.whole = e.whole /\ g.cap = e.cap /\ g.width = e.width
      /\ g.deep = e.deep /\ g.origin = e.origin /\ g.enabled = e.enabled /\ g.data = e.data
      /\ g.convert = e.convert /\ g.surface = e.surface /\ g.area = e.area /\ g.copy = e.copy
      /\ g.monitor_ready = e.monitor_ready /\ g.call_draw_done = e.call_draw_done
      /\ g.faulty = e.faulty
      BY <1>1 DEF Picture, Painted
<1>3. f = [g EXCEPT !.ready = g.monitor_ready /\ (g.enabled \/ g.mark)]
      BY <1>1 DEF S!mark, S!update_ready
<1>4. f.ready <=> g.monitor_ready /\ (g.enabled \/ g.mark)
      BY <1>2, <1>3 DEF Painted
<1>5. /\ f \in Painted /\ f.mark = g.mark /\ f.whole = g.whole /\ f.cap = g.cap
      /\ f.width = g.width /\ f.deep = g.deep /\ f.origin = g.origin /\ f.enabled = g.enabled
      /\ f.data = g.data /\ f.convert = g.convert /\ f.surface = g.surface /\ f.area = g.area
      /\ f.copy = g.copy /\ f.monitor_ready = g.monitor_ready
      /\ f.call_draw_done = g.call_draw_done /\ f.faulty = g.faulty
      BY <1>2, <1>3 DEF Painted
<1>6. f.ready <=> f.monitor_ready /\ (e.enabled \/ on)
      BY <1>2, <1>4, <1>5
<1>7. Picture(h, f)
      BY <1>2, <1>5 DEF Picture
<1> QED BY <1>2, <1>5, <1>6, <1>7

\* The second screen has the operators of the first one.
LEMMA SameConstants == /\ G!None = S!None /\ G!Copy = S!Copy /\ G!NoSurface = S!NoSurface
                       /\ G!NoChannel = S!NoChannel /\ \A n : G!Columns(n) = S!Columns(n)
                       /\ \A s : G!Cardinality(s) = S!Cardinality(s)
<1>1. \A s : G!Cardinality(s) = S!Cardinality(s)
      BY DEF G!Cardinality, S!Cardinality, G!IsFiniteSet, S!IsFiniteSet
<1> QED BY <1>1 DEF G!None, S!None, G!Copy, S!Copy, G!NoSurface, S!NoSurface, G!Columns,
                    S!Columns, G!NoChannel, S!NoChannel

LEMMA SameImages ==
  ASSUME NEW h, NEW e
  PROVE  /\ G!image_destroy(e) = S!image_destroy(e)
         /\ G!image_create(e) = S!image_create(e)
         /\ \A cols : G!do_color_convert(h, e, cols) = S!do_color_convert(h, e, cols)
         /\ G!update_image(h, e) = S!update_image(h, e)
<1>1. G!image_destroy(e) = S!image_destroy(e)
      BY SameConstants DEF G!image_destroy, S!image_destroy, G!Freed, S!Freed
<1>2. \A k : G!image_create(k) = S!image_create(k)
      BY SameConstants DEF G!image_create, S!image_create
<1>3. \A k, cols : G!do_color_convert(h, k, cols) = S!do_color_convert(h, k, cols)
  <2> TAKE k, cols
  <2>1. G!Live(h, cols) <=> S!Live(h, cols)
        BY SameConstants DEF G!Live, S!Live
  <2> QED BY <2>1, Zenon DEF G!do_color_convert, S!do_color_convert
<1>4. G!update_image(h, e) = S!update_image(h, e)
      BY <1>2, <1>3 DEF G!update_image, S!update_image
<1> QED BY <1>1, <1>2, <1>3, <1>4

LEMMA SameReady ==
  ASSUME NEW e, NEW on
  PROVE  /\ G!set_monitor_ready(e, on) = S!set_monitor_ready(e, on)
         /\ G!mark(e, on) = S!mark(e, on)
BY DEF G!set_monitor_ready, S!set_monitor_ready, G!update_ready, S!update_ready,
       G!mark, S!mark

LEMMA SameArea ==
  ASSUME NEW h, NEW e, NEW cols
  PROVE  G!update_area(h, e, cols) = S!update_area(h, e, cols)
<1>1. G!AreaOf(h, e, cols) = S!AreaOf(h, e, cols)
      BY SameConstants DEF G!AreaOf, S!AreaOf
<1>2. \A k : G!Refreshed(h, k) = S!Refreshed(h, k)
      BY SameImages DEF G!Refreshed, S!Refreshed
<1>3. \A k, on : G!set_monitor_ready(k, on) = S!set_monitor_ready(k, on)
      BY SameReady
<1> QED BY <1>1, <1>2, <1>3, SameConstants DEF G!update_area, S!update_area

LEMMA SameMonitor ==
  ASSUME NEW h, NEW e
  PROVE  /\ G!update_monitor_area(h, e) = S!update_monitor_area(h, e)
         /\ G!primary_create(h, e) = S!primary_create(h, e)
         /\ G!primary_destroy(e) = S!primary_destroy(e)
<1>1. \A k, cols : G!update_area(h, k, cols) = S!update_area(h, k, cols)
      BY SameArea
<1>2. \A k, on : G!set_monitor_ready(k, on) = S!set_monitor_ready(k, on)
      BY SameReady
<1>3. \A k : G!Whole(h, k) = S!Whole(h, k) /\ G!Missing(k) = S!Missing(k)
      BY <1>1, <1>2, SameConstants DEF G!Whole, S!Whole, G!Missing, S!Missing, G!Waits, S!Waits
<1>4. \A k : G!update_monitor_area(h, k) = S!update_monitor_area(h, k)
      BY <1>1, <1>3, SameConstants DEF G!update_monitor_area, S!update_monitor_area
<1>5. G!primary_create(h, e) = S!primary_create(h, e)
      BY <1>4 DEF G!primary_create, S!primary_create
<1>6. G!primary_destroy(e) = S!primary_destroy(e)
      BY <1>2, SameImages, SameConstants
      DEF G!primary_destroy, S!primary_destroy, G!Cleared, S!Cleared, G!Emptied, S!Emptied
<1> QED BY <1>4, <1>5, <1>6

\* What showing or hiding the GL area leaves alone
KeptGl(e, f) ==
  /\ f.whole = e.whole /\ f.cap = e.cap /\ f.width = e.width /\ f.deep = e.deep
  /\ f.origin = e.origin /\ f.mark = e.mark /\ f.call_draw_done = e.call_draw_done
Flat(h, e) == /\ h \in Primaries /\ e.width = h.width /\ e.origin = h.image
              /\ h.image = S!None => h.width = 0
              /\ ~e.deep

LEMMA EglStarts ==
  ASSUME NEW h, NEW e, Picture(h, e), Flat(h, e), realized \in BOOLEAN,
         NEW f, f = G!spice_egl_init(h, e)
  PROVE  Picture(h, f) /\ KeptGl(e, f)
<1>1. PICK m : m = [e EXCEPT !.gl_realized = TRUE, !.context_ready = TRUE]
      OBVIOUS
<1>2. /\ Picture(h, m) /\ KeptGl(e, m) /\ ~e.convert
      BY <1>1 DEF Picture, Painted, KeptGl, Flat
<1>3. CASE h.scanout = S!None
  <2>1. f = m
        BY <1>1, <1>3, SameConstants DEF G!spice_egl_init
  <2> QED BY <1>2, <2>1
<1>4. CASE h.scanout # S!None
  <2>1. PICK k : k = [m EXCEPT !.enabled = TRUE, !.texture = h.scanout]
        OBVIOUS
  <2>2. f = S!update_monitor_area(h, k)
        BY <1>1, <1>4, <2>1, SameConstants, SameMonitor DEF G!spice_egl_init
  <2>3. h.scanout \in Int
        BY DEF Flat, Primaries
  <2>4. m \in Painted /\ ~m.convert
        BY <1>1, <1>2 DEF Picture, Painted
  <2>5. /\ k \in Painted /\ KeptGl(m, k) /\ ~k.convert /\ k.data = m.data
        /\ k.surface = m.surface /\ k.faulty = m.faulty
        BY <2>1, <2>3, <2>4 DEF Painted, KeptGl
  <2>6. Picture(h, k)
        BY <1>2, <2>4, <2>5 DEF Picture
  <2>7. Fitting(h, k)
        BY <1>2, <2>5 DEF Fitting, Flat, KeptGl
  <2>8. Picture(h, f) /\ Kept(k, f)
        BY <2>2, <2>6, <2>7, MonitorShown
  <2> QED BY <1>2, <2>5, <2>8 DEF Kept, KeptGl
<1> QED BY <1>3, <1>4

LEMMA EnablingSets ==
  ASSUME NEW h, NEW e, Picture(h, e), ~e.deep, NEW on \in BOOLEAN,
         NEW f, f = [e EXCEPT !.enabled = on]
  PROVE  Picture(h, f) /\ KeptGl(e, f) /\ f.enabled = on /\ f.context_ready = e.context_ready
BY DEF Picture, Painted, KeptGl

LEMMA Enabled ==
  ASSUME NEW h, NEW e, Picture(h, e), Flat(h, e), realized \in BOOLEAN, NEW on \in BOOLEAN,
         NEW f, f = G!set_egl_enabled(h, e, on)
  PROVE  Picture(h, f) /\ KeptGl(e, f)
<1>1. CASE e.enabled = on
  <2>1. f = e
        BY <1>1 DEF G!set_egl_enabled
  <2> QED BY <2>1 DEF KeptGl
<1>2. CASE e.enabled # on /\ on /\ realized /\ ~e.gl_realized
  <2>1. PICK g : g = G!spice_egl_init(h, e)
        OBVIOUS
  <2>2. f = [g EXCEPT !.enabled = TRUE]
        BY <1>2, <2>1 DEF G!set_egl_enabled
  <2>3. Picture(h, g) /\ KeptGl(e, g)
        BY <2>1, EglStarts
  <2>4. ~g.deep
        BY <2>3 DEF KeptGl, Flat
  <2>5. Picture(h, f) /\ KeptGl(g, f)
        BY <2>2, <2>3, <2>4, EnablingSets
  <2> QED BY <2>3, <2>5 DEF KeptGl
<1>3. CASE e.enabled # on /\ ~(on /\ realized /\ ~e.gl_realized)
  <2>1. f = [e EXCEPT !.enabled = on]
        BY <1>3 DEF G!set_egl_enabled
  <2> QED BY <2>1, EnablingSets DEF Flat
<1> QED BY <1>1, <1>2, <1>3

LEMMA ScanoutShown ==
  ASSUME NEW h, NEW e, Picture(h, e), Flat(h, e), realized \in BOOLEAN,
         NEW f, f = G!gl_scanout(h, e)
  PROVE  Picture(h, f) /\ KeptGl(e, f)
<1>1. PICK g : g = G!set_egl_enabled(h, e, TRUE)
      OBVIOUS
<1>2. Picture(h, g) /\ KeptGl(e, g)
      BY <1>1, Enabled
<1>3. f = IF g.context_ready /\ h.scanout # G!None THEN [g EXCEPT !.texture = h.scanout] ELSE g
      BY <1>1 DEF G!gl_scanout
<1>4. h.scanout \in Int
      BY DEF Flat, Primaries
<1> QED BY <1>2, <1>3, <1>4 DEF Picture, Painted, KeptGl

LEMMA DrawShown ==
  ASSUME NEW h, NEW e, Picture(h, e), Flat(h, e), realized \in BOOLEAN,
         NEW f, f = G!gl_draw(h, e)
  PROVE  /\ Picture(h, f) /\ f.width = e.width /\ f.origin = e.origin /\ f.deep = e.deep
         /\ f.whole = e.whole
         /\ f.context_ready => f.call_draw_done
         /\ ~f.context_ready => f.call_draw_done = e.call_draw_done
<1>1. PICK g : g = G!set_egl_enabled(h, e, TRUE)
      OBVIOUS
<1>2. Picture(h, g) /\ KeptGl(e, g)
      BY <1>1, Enabled
<1>3. f = IF g.context_ready THEN [g EXCEPT !.call_draw_done = TRUE] ELSE g
      BY <1>1 DEF G!gl_draw, G!Drawn, G!QueuesRender
<1>4. CASE g.context_ready
  <2>1. g \in Painted
        BY <1>2 DEF Picture
  <2>2. f = [g EXCEPT !.call_draw_done = TRUE]
        BY <1>3, <1>4
  <2>3. /\ f \in Painted /\ f.call_draw_done /\ f.context_ready /\ f.faulty = g.faulty
        /\ f.data = g.data /\ f.surface = g.surface /\ f.convert = g.convert
        /\ f.copy = g.copy /\ f.area = g.area /\ f.width = g.width /\ f.deep = g.deep
        /\ f.enabled = g.enabled /\ f.origin = g.origin /\ f.whole = g.whole
        BY <1>4, <2>1, <2>2 DEF Painted
  <2>4. Picture(h, f)
        BY <1>2, <2>3 DEF Picture
  <2> QED BY <1>2, <2>3, <2>4 DEF KeptGl
<1>5. CASE ~g.context_ready
  <2>1. f = g
        BY <1>3, <1>5
  <2> QED BY <1>2, <1>5, <2>1 DEF KeptGl
<1> QED BY <1>4, <1>5

\* A message of the channel: a widget that is attached to it is told.
LEMMA TellKeeps ==
  ASSUME ScreenInv, attached \/ ~built, UNCHANGED <<attached, built, realized>>,
         images' \in 0 .. MaxImages, NEW h \in Primaries, screen_c' = h,
         h.image = S!None => h.width = 0, NEW f,
         attached => Picture(h, f) /\ f.width = h.width /\ f.origin = h.image,
         screen_d' = IF attached THEN f ELSE screen_d
  PROVE  ScreenInv'
<1>1. CASE attached
  <2>1. screen_d' = f /\ attached' /\ built'
        BY <1>1 DEF ScreenInv
  <2> QED BY <1>1, <2>1 DEF ScreenInv
<1>2. CASE ~attached
  <2>1. screen_d' = screen_d /\ ~attached' /\ ~built'
        BY <1>2 DEF ScreenInv
  <2>2. Picture(h, screen_d)
        BY <1>2 DEF ScreenInv, Picture
  <2> QED BY <1>2, <2>1, <2>2 DEF ScreenInv
<1> QED BY <1>1, <1>2 DEF ScreenInv

LEMMA TellCanvas ==
  ASSUME ScreenInv, Canvas, UNCHANGED attached, draws' = 0,
         NEW h, screen_c' = h, h.scanout = S!None, NEW f,
         attached => /\ Placed(h, f) /\ (f.ready <=> f.monitor_ready /\ f.mark)
                     /\ ~f.enabled /\ ~f.call_draw_done,
         screen_d' = IF attached THEN f ELSE screen_d
  PROVE  Canvas'
<1>1. CASE attached
  <2>1. screen_d' = f
        BY <1>1
  <2> QED BY <1>1, <2>1 DEF Canvas
<1>2. CASE ~attached
  <2>1. screen_d' = screen_d /\ ~attached'
        BY <1>2
  <2> QED BY <1>2, <2>1 DEF Canvas
<1> QED BY <1>1, <1>2 DEF ScreenInv

LEMMA TellScanouts ==
  ASSUME ScreenInv, Scanouts, UNCHANGED <<attached, draws, channels>>,
         NEW h, screen_c' = h, ~h.deep, NEW f,
         attached => ~f.deep /\ f.call_draw_done = screen_d.call_draw_done,
         screen_d' = IF attached THEN f ELSE screen_d
  PROVE  Scanouts'
<1>1. CASE attached
  <2>1. screen_d' = f
        BY <1>1
  <2> QED BY <1>1, <2>1 DEF Scanouts, G!DrawRemembered
<1>2. CASE ~attached
  <2>1. screen_d' = screen_d
        BY <1>2
  <2> QED BY <1>2, <2>1 DEF Scanouts, G!DrawRemembered
<1> QED BY <1>1, <1>2 DEF ScreenInv

LEMMA PrimaryCreateKeeps ==
  ASSUME ScreenInv, NEW wide \in Nat, NEW deep \in BOOLEAN,
         Canvas \/ (Scanouts /\ ~deep),
         S!PrimaryCreate(wide, deep) \/ G!PrimaryCreate(wide, deep)
  PROVE  ScreenInv' /\ (Canvas => Canvas') /\ (Scanouts /\ ~deep => Scanouts')
<1>1. PICK h : h = [screen_c EXCEPT !.image = images', !.width = wide, !.deep = deep]
      OBVIOUS
<1>2. PICK f : f = S!primary_create(h, screen_d)
      OBVIOUS
<1>3. /\ screen_c.image = S!None /\ images < MaxImages /\ images' = images + 1
      /\ screen_c' = h /\ UNCHANGED <<attached, built, realized, shows, channels, draws>>
      /\ (attached \/ ~built) /\ screen_d' = IF attached THEN f ELSE screen_d
  <2>1. CASE S!PrimaryCreate(wide, deep)
        BY <1>1, <1>2, <2>1 DEF S!PrimaryCreate, S!Message, S!Told
  <2>2. CASE G!PrimaryCreate(wide, deep)
        BY <1>1, <1>2, <2>2, SameConstants, SameMonitor DEF G!PrimaryCreate, G!Message, G!Told
  <2> QED BY <2>1, <2>2
<1>4. images' \in 1 .. MaxImages /\ screen_c \in Primaries /\ realized \in BOOLEAN
      BY <1>3, DesktopAssumption DEF ScreenInv, S!ScreenAssumption
<1>5. /\ h \in Primaries /\ h.image = images' /\ h.width = wide /\ h.deep = deep
      /\ h.scanout = screen_c.scanout /\ h.mine = screen_c.mine /\ h.alone = screen_c.alone
  <2>1. PICK i \in 0 .. MaxImages : i = images'
        BY <1>4
  <2>2. h = [screen_c EXCEPT !.image = i, !.width = wide, !.deep = deep]
        BY <1>1, <2>1
  <2> QED BY <1>4, <2>1, <2>2 DEF Primaries
<1>6. h.image # S!None /\ screen_d \in Painted /\ ~screen_d.faulty /\ ~screen_d.convert
      BY <1>3, <1>4, <1>5 DEF ScreenInv, Picture, S!None
<1>7. screen_d.surface \in {S!NoSurface, S!None, h.image} /\ (screen_d.enabled => ~h.deep)
      BY <1>3, <1>5, <1>6 DEF ScreenInv, Picture, Canvas
<1>8. /\ Picture(h, f) /\ f.width = h.width /\ f.origin = h.image /\ f.deep = h.deep
      /\ f.enabled = screen_d.enabled /\ f.call_draw_done = screen_d.call_draw_done
      /\ ~screen_d.enabled => Placed(h, f) /\ (f.ready <=> f.monitor_ready /\ f.mark)
      BY <1>2, <1>4, <1>5, <1>6, <1>7, PrimaryShown
<1>9. ScreenInv'
      BY <1>3, <1>4, <1>5, <1>6, <1>8, TellKeeps
<1>10. Canvas => Canvas'
  <2> HAVE Canvas
  <2>1. draws' = 0 /\ h.scanout = S!None /\ ~f.enabled /\ ~f.call_draw_done
        BY <1>3, <1>5, <1>8 DEF Canvas
  <2>2. Placed(h, f) /\ (f.ready <=> f.monitor_ready /\ f.mark)
        BY <1>8 DEF Canvas
  <2> QED BY <1>3, <2>1, <2>2, TellCanvas
<1>11. Scanouts /\ ~deep => Scanouts'
  <2> HAVE Scanouts /\ ~deep
  <2>1. ~h.deep /\ ~f.deep
        BY <1>5, <1>8
  <2> QED BY <1>3, <1>8, <2>1, TellScanouts
<1> QED BY <1>9, <1>10, <1>11

LEMMA PrimaryDestroyKeeps ==
  ASSUME ScreenInv, S!PrimaryDestroy \/ G!PrimaryDestroy
  PROVE  ScreenInv' /\ (Canvas => Canvas') /\ (Scanouts => Scanouts')
<1>1. PICK h : h = [screen_c EXCEPT !.image = S!None, !.width = 0]
      OBVIOUS
<1>2. PICK f : f = S!primary_destroy(screen_d)
      OBVIOUS
<1>3. /\ screen_c' = h
      /\ UNCHANGED <<attached, built, realized, shows, channels, draws, images>>
      /\ (attached \/ ~built) /\ screen_d' = IF attached THEN f ELSE screen_d
  <2>1. CASE S!PrimaryDestroy
        BY <1>1, <1>2, <2>1 DEF S!PrimaryDestroy, S!Message, S!Told
  <2>2. CASE G!PrimaryDestroy
        BY <1>1, <1>2, <2>2, SameConstants, SameMonitor DEF G!PrimaryDestroy, G!Message, G!Told
  <2> QED BY <2>1, <2>2
<1>4. images' \in 0 .. MaxImages /\ screen_c \in Primaries /\ S!None \in 0 .. MaxImages
      BY <1>3, DesktopAssumption DEF ScreenInv, S!ScreenAssumption, S!None
<1>5. /\ h \in Primaries /\ h.image = S!None /\ h.width = 0 /\ h.deep = screen_c.deep
      /\ h.scanout = screen_c.scanout /\ h.mine = screen_c.mine /\ h.alone = screen_c.alone
  <2>1. PICK x \in 0 .. MaxImages, y \in Nat : x = S!None /\ y = 0
        BY <1>4
  <2>2. h = [screen_c EXCEPT !.image = x, !.width = y]
        BY <1>1, <2>1
  <2> QED BY <1>4, <2>1, <2>2 DEF Primaries
<1>6. /\ f \in Painted /\ ~f.faulty /\ ~f.convert /\ f.data = S!None
      /\ f.surface = S!NoSurface /\ f.width = 0 /\ f.origin = S!None
      /\ ~f.monitor_ready /\ ~f.ready /\ f.deep = screen_d.deep /\ f.whole = screen_d.whole
      /\ f.enabled = screen_d.enabled /\ f.call_draw_done = screen_d.call_draw_done
      BY <1>2, PrimaryGone DEF ScreenInv
<1>7. Picture(h, f)
      BY <1>6 DEF Picture
<1>8. ScreenInv'
      BY <1>3, <1>4, <1>5, <1>6, <1>7, TellKeeps
<1>9. Canvas => Canvas'
  <2> HAVE Canvas
  <2>1. draws' = 0 /\ h.scanout = S!None /\ ~f.enabled /\ ~f.call_draw_done
        BY <1>3, <1>5, <1>6 DEF Canvas
  <2>2. Placed(h, f)
        BY <1>6 DEF Placed, S!Columns
  <2>3. f.ready <=> f.monitor_ready /\ f.mark
        BY <1>6
  <2> QED BY <1>3, <2>1, <2>2, <2>3, TellCanvas
<1>10. Scanouts => Scanouts'
  <2> HAVE Scanouts
  <2>1. ~h.deep /\ ~f.deep
        BY <1>5, <1>6 DEF Scanouts
  <2> QED BY <1>3, <1>6, <2>1, TellScanouts
<1> QED BY <1>8, <1>9, <1>10

LEMMA MarkKeeps ==
  ASSUME ScreenInv, NEW on \in BOOLEAN, S!Mark(on) \/ G!Mark(on)
  PROVE  ScreenInv' /\ (Canvas => Canvas') /\ (Scanouts => Scanouts')
<1>1. PICK h : h = [screen_c EXCEPT !.marked = on]
      OBVIOUS
<1>2. PICK f : f = S!mark(screen_d, on)
      OBVIOUS
<1>3. /\ screen_c' = h
      /\ UNCHANGED <<attached, built, realized, shows, channels, draws, images>>
      /\ (attached \/ ~built) /\ screen_d' = IF attached THEN f ELSE screen_d
  <2>1. CASE S!Mark(on)
        BY <1>1, <1>2, <2>1 DEF S!Mark, S!Message, S!Told
  <2>2. CASE G!Mark(on)
        BY <1>1, <1>2, <2>2, SameReady DEF G!Mark, G!Message, G!Told
  <2> QED BY <2>1, <2>2
<1>4. screen_c \in Primaries /\ images' \in 0 .. MaxImages
      BY <1>3 DEF ScreenInv
<1>5. /\ h \in Primaries /\ h.image = screen_c.image /\ h.width = screen_c.width
      /\ h.deep = screen_c.deep
      /\ h.scanout = screen_c.scanout /\ h.mine = screen_c.mine /\ h.alone = screen_c.alone
      BY <1>1, <1>4 DEF Primaries
<1>6. Picture(screen_c, screen_d)
      BY DEF ScreenInv
<1>7. Picture(screen_c, f)
      BY <1>2, <1>6, Marked
<1>8. /\ f.whole = screen_d.whole /\ f.cap = screen_d.cap /\ f.width = screen_d.width
      /\ f.deep = screen_d.deep /\ f.origin = screen_d.origin /\ f.enabled = screen_d.enabled
      /\ f.monitor_ready = screen_d.monitor_ready
      /\ f.call_draw_done = screen_d.call_draw_done
      BY <1>2, <1>6, Marked
<1>9. Picture(h, f)
      BY <1>5, <1>7 DEF Picture
<1>10. ScreenInv'
  <2>1. h.image = S!None => h.width = 0
        BY <1>5 DEF ScreenInv
  <2>2. attached => f.width = h.width /\ f.origin = h.image
        BY <1>5, <1>8 DEF ScreenInv
  <2> QED BY <1>3, <1>4, <1>5, <1>9, <2>1, <2>2, TellKeeps
<1>11. Canvas => Canvas'
  <2> HAVE Canvas
  <2>1. draws' = 0 /\ h.scanout = S!None /\ ~f.enabled /\ ~f.call_draw_done
        BY <1>3, <1>5, <1>8 DEF Canvas
  <2>2. f.area = screen_d.area
        BY <1>2, <1>6, MarkedArea DEF Picture
  <2>3. attached => Placed(h, f)
        BY <1>5, <1>8, <2>2 DEF Placed, Wanted, Canvas
  <2>4. f.ready <=> f.monitor_ready /\ (screen_d.enabled \/ on)
        BY <1>2, <1>6, Marked
  <2>5. f.mark = on
        BY <1>2, <1>6, Marked
  <2>6. f.ready <=> f.monitor_ready /\ f.mark
        BY <1>8, <2>1, <2>4, <2>5
  <2> QED BY <1>3, <2>1, <2>3, <2>6, TellCanvas
<1>12. Scanouts => Scanouts'
  <2> HAVE Scanouts
  <2>1. ~h.deep /\ ~f.deep
        BY <1>5, <1>8 DEF Scanouts
  <2> QED BY <1>3, <1>8, <2>1, TellScanouts
<1> QED BY <1>10, <1>11, <1>12

LEMMA MonitorsConfigKeeps ==
  ASSUME ScreenInv, NEW mine \in Monitors, NEW alone \in BOOLEAN, Canvas \/ Scanouts,
         S!MonitorsConfig(mine, alone) \/ G!MonitorsConfig(mine, alone)
  PROVE  ScreenInv' /\ (Canvas => Canvas') /\ (Scanouts => Scanouts')
<1>1. PICK h : h = [screen_c EXCEPT !.mine = mine, !.alone = alone]
      OBVIOUS
<1>2. PICK f : f = S!update_monitor_area(h, screen_d)
      OBVIOUS
<1>3. /\ screen_c' = h
      /\ UNCHANGED <<attached, built, realized, shows, channels, draws, images>>
      /\ (attached \/ ~built) /\ screen_d' = IF attached THEN f ELSE screen_d
  <2>1. CASE S!MonitorsConfig(mine, alone)
        BY <1>1, <1>2, <2>1 DEF S!MonitorsConfig, S!Message, S!Told
  <2>2. CASE G!MonitorsConfig(mine, alone)
        BY <1>1, <1>2, <2>2, SameMonitor DEF G!MonitorsConfig, G!Message, G!Told
  <2> QED BY <2>1, <2>2
<1>4. /\ screen_c \in Primaries /\ images' \in 0 .. MaxImages /\ realized \in BOOLEAN
      /\ Picture(screen_c, screen_d)
      BY <1>3 DEF ScreenInv
<1>5. /\ h \in Primaries /\ h.image = screen_c.image /\ h.width = screen_c.width
      /\ h.deep = screen_c.deep /\ h.scanout = screen_c.scanout
      BY <1>1, <1>4 DEF Primaries
<1>6. h.image = S!None => h.width = 0
      BY <1>5 DEF ScreenInv
<1>7. Picture(h, screen_d)
      BY <1>4, <1>5 DEF Picture
<1>8. attached => Fitting(h, screen_d)
      BY <1>5, <1>6 DEF ScreenInv, Fitting, Canvas, Scanouts
<1>9. attached => Picture(h, f) /\ Kept(screen_d, f)
      BY <1>2, <1>4, <1>7, <1>8, MonitorShown
<1>10. ScreenInv'
  <2>1. attached => f.width = h.width /\ f.origin = h.image
        BY <1>5, <1>9 DEF ScreenInv, Kept
  <2> QED BY <1>3, <1>4, <1>5, <1>6, <1>9, <2>1, TellKeeps
<1>11. Canvas => Canvas'
  <2> HAVE Canvas
  <2>1. draws' = 0 /\ h.scanout = S!None
        BY <1>3, <1>5 DEF Canvas
  <2>2. attached => Placed(h, f) /\ (f.ready <=> f.monitor_ready /\ f.mark)
        BY <1>2, <1>4, <1>7, <1>8, MonitorShown DEF Canvas
  <2>3. attached => ~f.enabled /\ ~f.call_draw_done
        BY <1>9 DEF Kept, Canvas
  <2> QED BY <1>3, <2>1, <2>2, <2>3, TellCanvas
<1>12. Scanouts => Scanouts'
  <2> HAVE Scanouts
  <2>1. ~h.deep /\ (attached => ~f.deep /\ f.call_draw_done = screen_d.call_draw_done)
        BY <1>5, <1>9 DEF Scanouts, Kept
  <2> QED BY <1>3, <2>1, TellScanouts
<1> QED BY <1>10, <1>11, <1>12

\* Drawing over what the canvas shows
LEMMA Converted ==
  ASSUME ScreenInv, attached, screen_c.image # S!None, NEW cols,
         NEW f, f = S!do_color_convert(screen_c, screen_d, cols \intersect screen_d.area)
  PROVE  f = screen_d
<1>1. CASE ~screen_d.convert
      BY <1>1 DEF S!do_color_convert
<1>2. CASE screen_d.convert
  <2>1. /\ screen_d \in Painted /\ ~screen_d.faulty /\ screen_d.area \in {screen_d.copy, {}}
        /\ screen_d.copy \subseteq S!Columns(screen_c.width)
        /\ screen_d.origin = screen_c.image
        BY <1>2 DEF ScreenInv, Picture
  <2>2. PICK b \in BOOLEAN :
          b = (screen_d.faulty \/
                (cols \intersect screen_d.area # {} /\
                  ~(/\ screen_d.origin = screen_c.image
                    /\ S!Live(screen_c, cols \intersect screen_d.area)
                    /\ screen_d.copy = screen_d.area
                    /\ cols \intersect screen_d.area \subseteq screen_d.copy)))
        OBVIOUS
  <2>3. f = [screen_d EXCEPT !.faulty = b]
        BY <1>2, <2>2 DEF S!do_color_convert
  <2>4. cols \intersect screen_d.area # {} =>
          /\ S!Live(screen_c, cols \intersect screen_d.area) /\ screen_d.copy = screen_d.area
          /\ cols \intersect screen_d.area \subseteq screen_d.copy
        BY <2>1 DEF S!Live
  <2>5. b = FALSE /\ screen_d.faulty = FALSE
    <3>1. ~b
          BY <2>1, <2>2, <2>4, Zenon
    <3> QED BY <2>1, <3>1 DEF Painted
  <2> QED BY <2>1, <2>3, <2>5 DEF Painted
<1> QED BY <1>1, <1>2

LEMMA InvalidateCanvas ==
  ASSUME ScreenInv, Canvas, NEW cols, S!Invalidate(cols)
  PROVE  ScreenInv' /\ Canvas'
<1>1. PICK s : s = S!set_egl_enabled(screen_c, screen_d, FALSE)
      OBVIOUS
<1>2. s = screen_d
      BY <1>1 DEF S!set_egl_enabled, Canvas, ScreenInv, Picture, Painted
<1>3. PICK f : f = IF realized
                   THEN S!do_color_convert(screen_c, screen_d, cols \intersect screen_d.area)
                   ELSE screen_d
      OBVIOUS
<1>4. /\ screen_c' = screen_c /\ screen_c.image # S!None
      /\ UNCHANGED <<attached, built, realized, shows, channels, draws, images>>
      /\ screen_d' = IF attached THEN f ELSE screen_d
      BY <1>1, <1>2, <1>3 DEF S!Invalidate, S!Message, S!Told
<1>5. attached => f = screen_d
      BY <1>3, <1>4, Converted
<1>6. screen_d' = screen_d
      BY <1>4, <1>5
<1> QED BY <1>4, <1>6 DEF ScreenInv, Canvas

LEMMA InvalidateScanouts ==
  ASSUME ScreenInv, Scanouts, NEW cols, G!Invalidate(cols)
  PROVE  ScreenInv' /\ Scanouts'
<1>1. PICK s : s = G!set_egl_enabled(screen_c, screen_d, FALSE)
      OBVIOUS
<1>2. PICK f : f = IF realized
                   THEN G!do_color_convert(screen_c, s, cols \intersect screen_d.area) ELSE s
      OBVIOUS
<1>3. /\ screen_c' = screen_c
      /\ UNCHANGED <<attached, built, realized, shows, channels, draws, images>>
      /\ (attached \/ ~built) /\ screen_d' = IF attached THEN f ELSE screen_d
      BY <1>1, <1>2 DEF G!Invalidate, G!Message, G!Told
<1>4. /\ screen_c \in Primaries /\ images' \in 0 .. MaxImages /\ realized \in BOOLEAN
      /\ Picture(screen_c, screen_d) /\ (screen_c.image = S!None => screen_c.width = 0)
      BY <1>3 DEF ScreenInv
<1>5. attached => Flat(screen_c, screen_d)
      BY DEF ScreenInv, Flat, Scanouts
<1>6. attached => Picture(screen_c, s) /\ KeptGl(screen_d, s)
      BY <1>1, <1>4, <1>5, Enabled
<1>7. attached => f = s
  <2> HAVE attached
  <2>1. ~s.convert
        BY <1>5, <1>6 DEF Picture, KeptGl, Flat
  <2> QED BY <1>2, <2>1 DEF G!do_color_convert
<1>8. attached => /\ f.width = screen_c.width /\ f.origin = screen_c.image /\ ~f.deep
                  /\ f.call_draw_done = screen_d.call_draw_done /\ Picture(screen_c, f)
      BY <1>5, <1>6, <1>7 DEF Flat, KeptGl
<1>9. ScreenInv'
      BY <1>3, <1>4, <1>8, TellKeeps
<1>10. Scanouts'
  <2>1. ~screen_c.deep
        BY DEF Scanouts
  <2> QED BY <1>3, <1>8, <2>1, TellScanouts
<1> QED BY <1>9, <1>10

LEMMA GlScanoutKeeps ==
  ASSUME ScreenInv, Scanouts, NEW wide \in Nat, G!GlScanout(wide)
  PROVE  ScreenInv' /\ Scanouts'
<1>1. images' \in 1 .. MaxImages /\ MaxImages \in Nat
      BY DesktopAssumption DEF G!GlScanout, ScreenInv, S!ScreenAssumption
<1>2. PICK i \in 0 .. MaxImages : i = IF wide = 0 THEN G!None ELSE images'
      BY <1>1 DEF G!None
<1>3. PICK h : h = [screen_c EXCEPT !.scanout = i, !.swidth = wide]
      OBVIOUS
<1>4. PICK f : f = G!gl_scanout(h, screen_d)
      OBVIOUS
<1>5. /\ screen_c' = h /\ UNCHANGED <<attached, built, realized, shows, channels, draws>>
      /\ (attached \/ ~built) /\ screen_d' = IF attached THEN f ELSE screen_d
      BY <1>2, <1>3, <1>4 DEF G!GlScanout, G!Message, G!Told
<1>6. screen_c \in Primaries /\ realized \in BOOLEAN /\ Picture(screen_c, screen_d)
      BY DEF ScreenInv
<1>7. /\ h \in Primaries /\ h.image = screen_c.image /\ h.width = screen_c.width
      /\ h.deep = screen_c.deep
  <2>1. i \in Int
        BY <1>1
  <2> QED BY <1>3, <1>6, <2>1 DEF Primaries
<1>8. Picture(h, screen_d)
      BY <1>6, <1>7 DEF Picture
<1>9. h.image = S!None => h.width = 0
      BY <1>7 DEF ScreenInv
<1>10. attached => Flat(h, screen_d)
      BY <1>7, <1>9 DEF ScreenInv, Flat, Scanouts
<1>11. attached => Picture(h, f) /\ KeptGl(screen_d, f)
      BY <1>4, <1>6, <1>8, <1>10, ScanoutShown
<1>12. attached => /\ f.width = h.width /\ f.origin = h.image /\ ~f.deep
                   /\ f.call_draw_done = screen_d.call_draw_done /\ Picture(h, f)
      BY <1>10, <1>11 DEF Flat, KeptGl
<1>13. ScreenInv'
      BY <1>1, <1>5, <1>7, <1>9, <1>12, TellKeeps
<1>14. Scanouts'
  <2>1. ~h.deep
        BY <1>7 DEF Scanouts
  <2> QED BY <1>5, <1>12, <2>1, TellScanouts
<1> QED BY <1>13, <1>14

LEMMA GlDrawKeeps ==
  ASSUME ScreenInv, Scanouts, G!GlDraw
  PROVE  ScreenInv' /\ Scanouts'
<1>1. PICK f : f = G!gl_draw(screen_c, screen_d)
      OBVIOUS
<1>2. /\ screen_c' = screen_c /\ attached /\ draws = 0 /\ screen_d' = f
      /\ UNCHANGED <<attached, built, realized, shows, channels, images>>
      /\ draws' = IF f.context_ready THEN 1 ELSE 0
      BY <1>1 DEF G!GlDraw, G!Message, G!Told
<1>3. /\ realized \in BOOLEAN /\ Picture(screen_c, screen_d) /\ Flat(screen_c, screen_d)
      BY <1>2 DEF ScreenInv, Flat, Scanouts
<1>4. /\ Picture(screen_c, f) /\ f.width = screen_d.width /\ f.origin = screen_d.origin
      /\ f.deep = screen_d.deep
      /\ f.context_ready => f.call_draw_done
      /\ ~f.context_ready => f.call_draw_done = screen_d.call_draw_done
      BY <1>1, <1>3, DrawShown
<1>5. ScreenInv'
      BY <1>2, <1>4 DEF ScreenInv
<1>6. Scanouts'
      BY <1>2, <1>4 DEF Scanouts, G!DrawRemembered
<1> QED BY <1>5, <1>6

LEMMA ChannelNewKeeps ==
  ASSUME ScreenInv, Canvas \/ Scanouts, S!ChannelNew \/ G!ChannelNew
  PROVE  ScreenInv' /\ (Canvas => Canvas') /\ (Scanouts => Scanouts')
<1>1. PICK k : k = S!primary_create(screen_c, screen_d)
      OBVIOUS
<1>2. PICK f : f = IF screen_c.image = S!None THEN screen_d ELSE S!mark(k, screen_c.marked)
      OBVIOUS
<1>3. /\ ~attached /\ attached' = TRUE /\ built' = TRUE /\ screen_d' = f
      /\ UNCHANGED <<screen_c, realized, draws, images, shows, channels>>
  <2>1. CASE S!ChannelNew
        BY <1>1, <1>2, <2>1 DEF S!ChannelNew
  <2>2. CASE G!ChannelNew
        BY <1>1, <1>2, <2>2, SameConstants, SameMonitor, SameReady DEF G!ChannelNew
  <2> QED BY <2>1, <2>2
<1>4. /\ screen_c \in Primaries /\ realized \in BOOLEAN /\ screen_d \in Painted
      /\ ~screen_d.faulty /\ ~screen_d.convert /\ screen_d.width = 0
      /\ screen_d.origin = S!None /\ screen_d.data = S!None /\ ~screen_d.monitor_ready
      /\ screen_d.surface \in {S!NoSurface, S!None}
      /\ screen_c.image = S!None => screen_c.width = 0
      BY <1>3 DEF ScreenInv, Picture
<1>5. CASE screen_c.image = S!None
  <2>1. screen_d' = screen_d
        BY <1>2, <1>3, <1>5
  <2>2. ScreenInv'
        BY <1>3, <1>4, <1>5, <2>1 DEF ScreenInv
  <2>3. Canvas => Canvas'
    <3> HAVE Canvas
    <3>1. Placed(screen_c, screen_d)
          BY <1>4 DEF Placed, S!Columns
    <3> QED BY <1>3, <2>1, <3>1 DEF Canvas
  <2>4. Scanouts => Scanouts'
        BY <1>3, <2>1 DEF Scanouts, G!DrawRemembered
  <2> QED BY <2>2, <2>3, <2>4
<1>6. CASE screen_c.image # S!None
  <2>1. f = S!mark(k, screen_c.marked) /\ screen_c.marked \in BOOLEAN
        BY <1>2, <1>4, <1>6 DEF Primaries
  <2>2. screen_d.enabled => ~screen_c.deep
        BY DEF Canvas, Scanouts
  <2>3. screen_d.surface \in {S!NoSurface, S!None, screen_c.image}
        BY <1>4
  <2>4. /\ Picture(screen_c, k) /\ k.width = screen_c.width /\ k.origin = screen_c.image
        /\ k.deep = screen_c.deep
        /\ k.enabled = screen_d.enabled /\ k.call_draw_done = screen_d.call_draw_done
        /\ ~screen_d.enabled => Placed(screen_c, k)
        BY <1>1, <1>4, <2>2, <2>3, PrimaryShown
  <2>5. /\ Picture(screen_c, f) /\ f.mark = screen_c.marked
        /\ f.ready <=> f.monitor_ready /\ (k.enabled \/ screen_c.marked)
        /\ f.whole = k.whole /\ f.cap = k.cap /\ f.width = k.width /\ f.deep = k.deep
        /\ f.origin = k.origin /\ f.enabled = k.enabled
        /\ f.monitor_ready = k.monitor_ready /\ f.call_draw_done = k.call_draw_done
        BY <2>1, <2>4, Marked
  <2>6. ScreenInv'
    <3>1. f.width = screen_c.width /\ f.origin = screen_c.image
          BY <2>4, <2>5
    <3> QED BY <1>3, <1>4, <2>5, <3>1 DEF ScreenInv
  <2>7. Canvas => Canvas'
    <3> HAVE Canvas
    <3>1. f.area = k.area
          BY <2>1, <2>4, MarkedArea DEF Picture
    <3>2. Placed(screen_c, f)
          BY <2>4, <2>5, <3>1 DEF Canvas, Placed
    <3>3. ~f.enabled /\ ~k.enabled /\ ~f.call_draw_done
          BY <2>4, <2>5 DEF Canvas
    <3>4. f.ready <=> f.monitor_ready /\ f.mark
          BY <2>5, <3>3
    <3> QED BY <1>3, <3>2, <3>3, <3>4 DEF Canvas
  <2>8. Scanouts => Scanouts'
    <3> HAVE Scanouts
    <3>1. ~f.deep /\ f.call_draw_done = screen_d.call_draw_done
          BY <2>4, <2>5 DEF Scanouts
    <3> QED BY <1>3, <3>1 DEF Scanouts, G!DrawRemembered
  <2> QED BY <2>6, <2>7, <2>8
<1> QED BY <1>5, <1>6

LEMMA NothingShown ==
  S!NoChannel \in Primaries /\ S!NoChannel.image = S!None /\ S!NoChannel.width = 0
  /\ S!NoChannel.scanout = S!None /\ ~S!NoChannel.deep /\ S!NoChannel.mine = {}
<1>1. MaxImages \in Nat /\ {} \in Monitors
      BY DesktopAssumption, FS_EmptySet DEF S!ScreenAssumption, Monitors
<1> QED BY <1>1 DEF S!NoChannel, Primaries, S!None

LEMMA ChannelDestroyKeeps ==
  ASSUME ScreenInv, S!ChannelDestroy \/ G!ChannelDestroy
  PROVE  ScreenInv' /\ (Canvas => Canvas') /\ (Scanouts => Scanouts')
<1>1. PICK f : f = S!primary_destroy(screen_d)
      OBVIOUS
<1>2. /\ attached /\ attached' = FALSE /\ screen_d' = f /\ screen_c' = S!NoChannel
      /\ draws' = 0 /\ channels' = channels + 1 /\ UNCHANGED <<built, realized, images, shows>>
  <2>1. CASE S!ChannelDestroy
        BY <1>1, <2>1 DEF S!ChannelDestroy
  <2>2. CASE G!ChannelDestroy
        BY <1>1, <2>2, SameConstants, SameMonitor DEF G!ChannelDestroy
  <2> QED BY <2>1, <2>2
<1>3. /\ f \in Painted /\ ~f.faulty /\ ~f.convert /\ f.data = S!None
      /\ f.surface = S!NoSurface /\ f.width = 0 /\ f.origin = S!None
      /\ ~f.monitor_ready /\ ~f.ready /\ f.deep = screen_d.deep
      /\ f.enabled = screen_d.enabled /\ f.call_draw_done = screen_d.call_draw_done
      BY <1>1, PrimaryGone DEF ScreenInv
<1>4. Picture(S!NoChannel, f)
      BY <1>3 DEF Picture
<1>5. ScreenInv'
      BY <1>2, <1>3, <1>4, NothingShown DEF ScreenInv
<1>6. Canvas => Canvas'
      BY <1>2, <1>3, NothingShown DEF Canvas
<1>7. Scanouts => Scanouts'
      BY <1>2, <1>3, NothingShown DEF Scanouts, G!DrawRemembered
<1> QED BY <1>5, <1>6, <1>7

LEMMA RealizeKeeps ==
  ASSUME ScreenInv, (S!Realize /\ Canvas) \/ (G!Realize /\ Scanouts)
  PROVE  ScreenInv' /\ (Canvas => Canvas') /\ (Scanouts => Scanouts')
<1>1. PICK m : m = S!update_image(screen_c, screen_d)
      OBVIOUS
<1>2. /\ built /\ ~realized /\ realized' = TRUE /\ ~screen_d.deep
      /\ UNCHANGED <<screen_c, attached, built, draws, images, shows, channels>>
      /\ screen_d' = IF m.enabled THEN G!spice_egl_init(screen_c, m) ELSE m
  <2>1. CASE S!Realize /\ Canvas
    <3>1. /\ Picture(screen_c, screen_d) /\ ~screen_d.deep /\ screen_c \in Primaries
          /\ ~screen_d.enabled
          BY <2>1 DEF ScreenInv, Canvas, S!Realize
    <3>2. ~m.enabled
          BY <1>1, <3>1, ImageCreated DEF Kept
    <3> QED BY <1>1, <2>1, <3>2 DEF S!Realize
  <2>2. CASE G!Realize
        BY <1>1, <2>2, SameImages DEF G!Realize
  <2> QED BY <2>1, <2>2
<1>3. /\ Picture(screen_c, screen_d) /\ screen_c \in Primaries /\ realized \in BOOLEAN
      BY DEF ScreenInv
<1>4. /\ Picture(screen_c, m) /\ Kept(screen_d, m) /\ m.monitor_ready = screen_d.monitor_ready
      /\ m.ready = screen_d.ready /\ ~m.convert /\ m.data = screen_d.data
      /\ m.surface \in {screen_d.surface, screen_d.data}
      BY <1>1, <1>2, <1>3, ImageCreated
<1>5. m.area = screen_d.area
      BY <1>1, <1>2, <1>3, ImageCreated
<1>6. CASE ~m.enabled
  <2>1. screen_d' = m
        BY <1>2, <1>6
  <2>2. ScreenInv'
        BY <1>2, <1>4, <2>1 DEF ScreenInv, Kept
  <2>3. Canvas => Canvas'
        BY <1>2, <1>4, <1>5, <2>1 DEF Canvas, Kept, Placed
  <2>4. Scanouts => Scanouts'
        BY <1>2, <1>4, <2>1 DEF Scanouts, Kept, G!DrawRemembered
  <2> QED BY <2>2, <2>3, <2>4
<1>7. CASE m.enabled
  <2>1. PICK f : f = G!spice_egl_init(screen_c, m)
        OBVIOUS
  <2>2. screen_d' = f
        BY <1>2, <1>7, <2>1
  <2>3. ~Canvas
        BY <1>4, <1>7 DEF Canvas, Kept
  <2>4. ~attached => screen_c = S!NoChannel
        BY <1>2 DEF ScreenInv
  <2>5. Flat(screen_c, m)
        BY <1>2, <1>3, <1>4, <2>4, NothingShown DEF ScreenInv, Flat, Kept
  <2>6. Picture(screen_c, f) /\ KeptGl(m, f)
        BY <1>3, <1>4, <2>1, <2>5, EglStarts
  <2>7. ~attached => /\ f.data = m.data /\ f.surface = m.surface /\ f.convert = m.convert
                     /\ f.monitor_ready = m.monitor_ready
    <3> HAVE ~attached
    <3>1. f = [m EXCEPT !.gl_realized = TRUE, !.context_ready = TRUE]
          BY <2>1, <2>4, SameConstants, NothingShown DEF G!spice_egl_init
    <3>2. m \in Painted
          BY <1>4 DEF Picture
    <3> QED BY <3>1, <3>2 DEF Painted
  <2>8. ScreenInv'
    <3>1. /\ attached => f.width = screen_c.width /\ f.origin = screen_c.image
          /\ ~attached => f.width = 0 /\ f.origin = S!None
          BY <1>4, <2>6 DEF ScreenInv, Kept, KeptGl
    <3>2. ~attached => /\ f.data = S!None /\ f.surface \in {S!NoSurface, S!None}
                       /\ ~f.monitor_ready /\ ~f.convert
          BY <1>4, <2>7 DEF ScreenInv
    <3> QED BY <1>2, <2>2, <2>6, <3>1, <3>2 DEF ScreenInv
  <2>9. Scanouts => Scanouts'
        BY <1>2, <1>4, <2>2, <2>6 DEF Scanouts, Kept, KeptGl, G!DrawRemembered
  <2> QED BY <2>3, <2>8, <2>9
<1> QED BY <1>6, <1>7

LEMMA UnrealizeKeeps ==
  ASSUME ScreenInv, S!Unrealize \/ G!Unrealize
  PROVE  ScreenInv' /\ (Canvas => Canvas') /\ (Scanouts => Scanouts')
<1>1. PICK g : g = S!image_destroy(screen_d)
      OBVIOUS
<1>2. PICK f : f = [g EXCEPT !.gl_realized = FALSE, !.texture = S!None]
      OBVIOUS
<1>3. /\ realized /\ realized' = FALSE /\ screen_d' = f
      /\ UNCHANGED <<screen_c, attached, built, draws, images, channels>>
  <2>1. CASE S!Unrealize
        BY <1>1, <1>2, <2>1 DEF S!Unrealize
  <2>2. CASE G!Unrealize
        BY <1>1, <1>2, <2>2, SameConstants, SameImages DEF G!Unrealize
  <2> QED BY <2>1, <2>2
<1>4. /\ Picture(screen_c, g) /\ Kept(screen_d, g)
      /\ g.monitor_ready = screen_d.monitor_ready /\ g.ready = screen_d.ready
      /\ g.surface = S!NoSurface /\ ~g.convert /\ g.data \in {S!None, screen_d.data}
      BY <1>1, ImageDestroyed DEF ScreenInv
<1>5. g.area = screen_d.area
      BY <1>1, ImageDestroyed DEF ScreenInv
<1>6. /\ f \in Painted /\ ~f.faulty /\ Kept(g, f) /\ f.monitor_ready = g.monitor_ready
      /\ f.ready = g.ready /\ f.surface = g.surface /\ ~f.convert /\ f.data = g.data
  <2>1. g \in Painted /\ ~g.faulty /\ S!None \in Int
        BY <1>4 DEF Picture, S!None
  <2> QED BY <1>2, <1>4, <2>1 DEF Painted, Kept
<1>7. f.area = g.area
  <2>1. g \in Painted
        BY <1>4 DEF Picture
  <2> QED BY <1>2, <2>1 DEF Painted
<1>8. Picture(screen_c, f)
      BY <1>4, <1>6 DEF Picture
<1>9. ScreenInv'
  <2>1. built
        BY <1>3 DEF ScreenInv
  <2> QED BY <1>3, <1>4, <1>6, <1>8, <2>1 DEF ScreenInv, Kept
<1>10. Canvas => Canvas'
      BY <1>3, <1>4, <1>5, <1>6, <1>7 DEF Canvas, Kept, Placed
<1>11. Scanouts => Scanouts'
      BY <1>3, <1>4, <1>6 DEF Scanouts, Kept, G!DrawRemembered
<1> QED BY <1>9, <1>10, <1>11

LEMMA RenderKeeps ==
  ASSUME ScreenInv, Scanouts, G!GlAreaRender
  PROVE  ScreenInv' /\ Scanouts'
<1>1. screen_d \in Painted
      BY DEF ScreenInv, Picture
<1>2. PICK f : f = [screen_d EXCEPT !.call_draw_done = FALSE]
      OBVIOUS
<1>3. /\ screen_d' = f /\ draws' = 0
      /\ UNCHANGED <<screen_c, attached, built, realized, images, channels>>
      BY <1>2 DEF G!GlAreaRender, G!Answered
<1>4. /\ f \in Painted /\ ~f.call_draw_done /\ f.faulty = screen_d.faulty
      /\ f.data = screen_d.data /\ f.surface = screen_d.surface
      /\ f.convert = screen_d.convert /\ f.width = screen_d.width
      /\ f.origin = screen_d.origin /\ f.deep = screen_d.deep
      /\ f.monitor_ready = screen_d.monitor_ready
      BY <1>1, <1>2 DEF Painted
<1>5. ~f.convert
      BY <1>4 DEF ScreenInv, Picture, Scanouts
<1>6. Picture(screen_c, f)
      BY <1>4, <1>5 DEF ScreenInv, Picture
<1>7. ScreenInv'
      BY <1>3, <1>4, <1>5, <1>6 DEF ScreenInv
<1>8. Scanouts'
      BY <1>3, <1>4 DEF Scanouts, G!DrawRemembered
<1> QED BY <1>7, <1>8

LEMMA GetPixbufKeeps ==
  ASSUME ScreenInv, Canvas, S!GetPixbuf
  PROVE  ScreenInv' /\ Canvas'
<1>1. /\ screen_d \in Painted /\ ~screen_d.faulty /\ ~screen_d.convert
      /\ screen_d.area \subseteq S!Columns(screen_d.width)
      BY DEF S!GetPixbuf, ScreenInv, Picture, Canvas, Placed
<1>2. PICK b \in BOOLEAN :
        b = (screen_d.faulty \/ screen_d.convert
              \/ ~(screen_d.area \subseteq S!Columns(screen_d.width)))
      OBVIOUS
<1>3. ~b
      BY <1>1, <1>2, Zenon
<1>4. screen_d' = [screen_d EXCEPT !.faulty = b]
      BY <1>2 DEF S!GetPixbuf
<1>5. screen_d' = screen_d
      BY <1>1, <1>3, <1>4 DEF Painted
<1> QED BY <1>5 DEF ScreenInv, Canvas, S!GetPixbuf

LEMMA InitScreen == S!Init => CanvasInv
<1> SUFFICES ASSUME S!Init PROVE CanvasInv
    OBVIOUS
<1>1. PICK whole \in BOOLEAN, cap \in BOOLEAN : screen_d = S!NoPicture(whole, cap)
      BY DEF S!Init
<1>2. /\ screen_d \in Painted /\ ~screen_d.faulty /\ ~screen_d.convert /\ screen_d.data = S!None
      /\ screen_d.surface = S!NoSurface /\ screen_d.width = 0 /\ screen_d.origin = S!None
      /\ ~screen_d.monitor_ready /\ ~screen_d.ready /\ ~screen_d.enabled
      /\ ~screen_d.call_draw_done
      BY <1>1 DEF S!NoPicture, Painted, S!None, S!NoSurface
<1>3. Picture(screen_c, screen_d)
      BY <1>2 DEF Picture
<1>4. ScreenInv
  <2>1. images \in 0 .. MaxImages
        BY DesktopAssumption DEF S!Init, S!ScreenAssumption
  <2> QED BY <1>2, <1>3, <2>1, NothingShown DEF S!Init, ScreenInv
<1>5. Canvas
      BY <1>2, NothingShown DEF S!Init, Canvas
<1> QED BY <1>4, <1>5 DEF CanvasInv

LEMMA InitScanouts == S!Init => ScanoutInv
<1> SUFFICES ASSUME S!Init PROVE ScanoutInv
    OBVIOUS
<1>1. PICK whole \in BOOLEAN, cap \in BOOLEAN : screen_d = S!NoPicture(whole, cap)
      BY DEF S!Init
<1>2. ~screen_d.deep /\ ~screen_d.call_draw_done
      BY <1>1 DEF S!NoPicture
<1> QED BY <1>2, InitScreen, NothingShown DEF S!Init, CanvasInv, ScanoutInv, Scanouts,
           G!DrawRemembered

LEMMA PicturesSafe ==
  ASSUME ScreenInv
  PROVE  S!PictureIsLive /\ G!PictureIsLive
<1>1. /\ S!Copy \in Nat /\ screen_c.image # S!Copy /\ S!None # S!Copy /\ S!NoSurface # S!Copy
      BY NotCopied DEF ScreenInv
<1>2. S!PictureIsLive
      BY <1>1 DEF ScreenInv, Picture, Painted, S!PictureIsLive
<1> QED BY <1>2, SameConstants DEF S!PictureIsLive, G!PictureIsLive

LEMMA CanvasSafe ==
  ASSUME CanvasInv
  PROVE  S!PictureIsLive /\ S!ReadyExact /\ S!DrawRemembered
<1>1. S!PictureIsLive
      BY PicturesSafe DEF CanvasInv
<1>2. S!DrawRemembered
      BY DEF CanvasInv, Canvas, S!DrawRemembered
<1>3. S!ReadyExact
  <2> SUFFICES ASSUME attached, ~screen_d.whole
               PROVE  /\ screen_d.cap => (screen_d.ready <=> /\ screen_c.image # S!None
                                                            /\ S!Expected # {} /\ screen_d.mark)
                      /\ screen_d.ready /\ screen_c.mine # {} => screen_d.area = S!Expected
      BY DEF S!ReadyExact
  <2>1. /\ Placed(screen_c, screen_d) /\ screen_d.width = screen_c.width
        /\ screen_d.ready <=> screen_d.monitor_ready /\ screen_d.mark
        BY DEF CanvasInv, ScreenInv, Canvas
  <2>2. S!Expected = Wanted(screen_c) \intersect S!Columns(screen_d.width)
        BY <2>1 DEF S!Expected, Wanted
  <2>3. screen_c.image = S!None => S!Expected = {}
        BY DEF CanvasInv, ScreenInv, S!Expected, S!Columns
  <2>4. screen_d.cap => (screen_d.monitor_ready <=> S!Expected # {})
        BY <2>1, <2>2 DEF Placed
  <2>5. screen_d.monitor_ready /\ screen_c.mine # {} => screen_d.area = S!Expected
        BY <2>1, <2>2 DEF Placed
  <2> QED BY <2>1, <2>3, <2>4, <2>5
<1> QED BY <1>1, <1>2, <1>3

LEMMA ScanoutsSafe ==
  ASSUME ScanoutInv
  PROVE  G!PictureIsLive /\ G!ReadyExact /\ G!DrawRemembered
BY PicturesSafe DEF ScanoutInv, Scanouts, G!ReadyExact

LEMMA MonitorSets ==
  /\ \A m \in SUBSET S!All : m \in Monitors
  /\ \A m \in SUBSET G!All : m \in Monitors
  /\ S!All \subseteq Nat /\ G!All \subseteq Nat
<1>1. Width \in Nat /\ GlWidth \in Nat
      BY DesktopAssumption DEF S!ScreenAssumption, G!ScreenAssumption
<1>2. IsFiniteSet(1 .. Width) /\ IsFiniteSet(1 .. GlWidth)
      BY <1>1, FS_Interval
<1>3. S!All = 1 .. Width /\ G!All = 1 .. GlWidth
      BY DEF S!All, S!Columns, G!All, G!Columns
<1>4. \A m \in SUBSET (1 .. Width) : IsFiniteSet(m)
      BY <1>2, FS_Subset
<1>5. \A m \in SUBSET (1 .. GlWidth) : IsFiniteSet(m)
      BY <1>2, FS_Subset
<1> QED BY <1>3, <1>4, <1>5 DEF Monitors

LEMMA CanvasStep ==
  ASSUME which = "screen", CanvasInv, [MCNext]_mcvars
  PROVE  CanvasInv'
<1>1. ScreenInv /\ Canvas
      BY DEF CanvasInv
<1>2. CASE UNCHANGED screenVars
      BY <1>1, <1>2 DEF screenVars, CanvasInv, ScreenInv, Canvas
<1>3. CASE ~UNCHANGED screenVars
  <2>1. MCNext
        BY <1>3 DEF mcvars
  <2>2. ASSUME NEW x \in {"inputs", "widget", "config", "clipboard", "screen2", "scaling", "usb"},
               On(x)
        PROVE  FALSE
        BY <2>2 DEF On
  <2>3. \/ \E wide \in S!All, deep \in BOOLEAN : S!PrimaryCreate(wide, deep)
        \/ \E on \in BOOLEAN : S!Mark(on)
        \/ \E mine \in SUBSET S!All, alone \in BOOLEAN : S!MonitorsConfig(mine, alone)
        \/ \E cols \in SUBSET S!All : S!Invalidate(cols)
        \/ S!PrimaryDestroy \/ S!Realize \/ S!Unrealize \/ S!ChannelNew
        \/ S!ChannelDestroy \/ S!GetPixbuf
        BY <2>1, <2>2 DEF MCNext
  <2>4. CASE \E wide \in S!All, deep \in BOOLEAN : S!PrimaryCreate(wide, deep)
    <3>1. PICK wide \in S!All, deep \in BOOLEAN : S!PrimaryCreate(wide, deep)
          BY <2>4
    <3>2. wide \in Nat
          BY MonitorSets
    <3> QED BY <1>1, <3>1, <3>2, PrimaryCreateKeeps DEF CanvasInv
  <2>5. CASE \E on \in BOOLEAN : S!Mark(on)
        BY <1>1, <2>5, MarkKeeps DEF CanvasInv
  <2>6. CASE \E mine \in SUBSET S!All, alone \in BOOLEAN : S!MonitorsConfig(mine, alone)
        BY <1>1, <2>6, MonitorSets, MonitorsConfigKeeps DEF CanvasInv
  <2>7. CASE \E cols \in SUBSET S!All : S!Invalidate(cols)
        BY <1>1, <2>7, InvalidateCanvas DEF CanvasInv
  <2>8. CASE S!PrimaryDestroy
        BY <1>1, <2>8, PrimaryDestroyKeeps DEF CanvasInv
  <2>9. CASE S!Realize
        BY <1>1, <2>9, RealizeKeeps DEF CanvasInv
  <2>10. CASE S!Unrealize
        BY <1>1, <2>10, UnrealizeKeeps DEF CanvasInv
  <2>11. CASE S!ChannelNew
        BY <1>1, <2>11, ChannelNewKeeps DEF CanvasInv
  <2>12. CASE S!ChannelDestroy
        BY <1>1, <2>12, ChannelDestroyKeeps DEF CanvasInv
  <2>13. CASE S!GetPixbuf
        BY <1>1, <2>13, GetPixbufKeeps DEF CanvasInv
  <2> QED BY <2>3, <2>4, <2>5, <2>6, <2>7, <2>8, <2>9, <2>10, <2>11, <2>12, <2>13
<1> QED BY <1>2, <1>3

LEMMA ScanoutStep ==
  ASSUME which = "screen2", ScanoutInv, [MCNext]_mcvars
  PROVE  ScanoutInv'
<1>1. ScreenInv /\ Scanouts
      BY DEF ScanoutInv
<1>2. CASE UNCHANGED screenVars
      BY <1>1, <1>2 DEF screenVars, ScanoutInv, ScreenInv, Scanouts, G!DrawRemembered
<1>3. CASE ~UNCHANGED screenVars
  <2>1. MCNext
        BY <1>3 DEF mcvars
  <2>2. ASSUME NEW x \in {"inputs", "widget", "config", "clipboard", "screen", "scaling", "usb"},
               On(x)
        PROVE  FALSE
        BY <2>2 DEF On
  <2>3. \/ \E wide \in G!All, deep \in BOOLEAN : G!PrimaryCreate(wide, deep)
        \/ \E on \in BOOLEAN : G!Mark(on)
        \/ \E mine \in SUBSET G!All, alone \in BOOLEAN : G!MonitorsConfig(mine, alone)
        \/ \E cols \in SUBSET G!All : G!Invalidate(cols)
        \/ G!PrimaryDestroy \/ G!Realize \/ G!Unrealize \/ G!ChannelNew
        \/ G!ChannelDestroy \/ G!GlAreaRender \/ G!GlDraw
        \/ \E wide \in 0 .. GlWidth : G!GlScanout(wide)
        BY <2>1, <2>2 DEF MCNext
  <2>4. CASE \E wide \in G!All, deep \in BOOLEAN : G!PrimaryCreate(wide, deep)
    <3>1. PICK wide \in G!All, deep \in BOOLEAN : G!PrimaryCreate(wide, deep)
          BY <2>4
    <3>2. ~deep /\ wide \in Nat
          BY <3>1, MonitorSets DEF G!PrimaryCreate
    <3> QED BY <1>1, <3>1, <3>2, PrimaryCreateKeeps DEF ScanoutInv
  <2>5. CASE \E on \in BOOLEAN : G!Mark(on)
        BY <1>1, <2>5, MarkKeeps DEF ScanoutInv
  <2>6. CASE \E mine \in SUBSET G!All, alone \in BOOLEAN : G!MonitorsConfig(mine, alone)
        BY <1>1, <2>6, MonitorSets, MonitorsConfigKeeps DEF ScanoutInv
  <2>7. CASE \E cols \in SUBSET G!All : G!Invalidate(cols)
        BY <1>1, <2>7, InvalidateScanouts DEF ScanoutInv
  <2>8. CASE G!PrimaryDestroy
        BY <1>1, <2>8, PrimaryDestroyKeeps DEF ScanoutInv
  <2>9. CASE G!Realize
        BY <1>1, <2>9, RealizeKeeps DEF ScanoutInv
  <2>10. CASE G!Unrealize
        BY <1>1, <2>10, UnrealizeKeeps DEF ScanoutInv
  <2>11. CASE G!ChannelNew
        BY <1>1, <2>11, ChannelNewKeeps DEF ScanoutInv
  <2>12. CASE G!ChannelDestroy
        BY <1>1, <2>12, ChannelDestroyKeeps DEF ScanoutInv
  <2>13. CASE G!GlAreaRender
        BY <1>1, <2>13, RenderKeeps DEF ScanoutInv
  <2>14. CASE G!GlDraw
        BY <1>1, <2>14, GlDrawKeeps DEF ScanoutInv
  <2>15. CASE \E wide \in 0 .. GlWidth : G!GlScanout(wide)
    <3>1. PICK wide \in 0 .. GlWidth : G!GlScanout(wide)
          BY <2>15
    <3>2. wide \in Nat
          BY DesktopAssumption DEF G!ScreenAssumption
    <3> QED BY <1>1, <3>1, <3>2, GlScanoutKeeps DEF ScanoutInv
  <2> QED BY <2>3, <2>4, <2>5, <2>6, <2>7, <2>8, <2>9, <2>10, <2>11, <2>12, <2>13, <2>14, <2>15
<1> QED BY <1>2, <1>3

LEMMA ScalingStep ==
  ASSUME ScalingTypes, [MCNext]_mcvars
  PROVE  ScalingTypes'
<1>1. CASE UNCHANGED scalingVars
      BY <1>1 DEF scalingVars, ScalingTypes, Z!TypeOK
<1>2. CASE ~UNCHANGED scalingVars
  <2>1. MCNext
        BY <1>2 DEF mcvars
  <2>2. ASSUME NEW x \in {"inputs", "widget", "config", "clipboard", "screen", "screen2", "usb"},
               On(x)
        PROVE  FALSE
        BY <1>2, <2>2 DEF On
  <2>3. \/ \E r \in Z!Rectangles : Z!SizeAllocate(r) \/ Z!UpdateArea(r)
        \/ Z!SetProperty
        BY <2>1, <2>2 DEF MCNext
  <2> QED BY <2>3 DEF ScalingTypes, Z!TypeOK, Z!SizeAllocate, Z!UpdateArea, Z!SetProperty
<1> QED BY <1>1, <1>2

\* What the display widget shows (update_image, update_area, update_ready, primary_create,
\* primary_destroy, mark, invalidate, gl_scanout, gl_draw, realize and unrealize of
\* spice-widget.c and its cairo and egl parts), for any width, number of primaries, channels
\* and times the widget is hidden: it draws from memory that is alive, is ready exactly when
\* it has its monitor and the mark, and never forgets a GL draw the server waits for; and
\* (spice_display_get_scaling, transform_input), for any sizes, the picture fits its window
\* and the pointer reaches all of it.
THEOREM ScreenSafeTheorem == MCSpec => []ScreenSafe
<1> DEFINE Inv == /\ which = "screen" => CanvasInv
                  /\ which = "screen2" => ScanoutInv
                  /\ ScalingTypes
<1>1. MCInit => Inv
  <2>1. Z!Init => ScalingTypes
        BY DEF Z!Init, Z!TypeOK, ScalingTypes
  <2> QED BY <2>1, InitScreen, InitScanouts DEF MCInit
<1>2. Inv /\ [MCNext]_mcvars => Inv'
  <2> SUFFICES ASSUME Inv, [MCNext]_mcvars PROVE Inv'
      OBVIOUS
  <2>1. which' = which
        BY DEF MCNext, On, mcvars
  <2>2. ScalingTypes'
        BY ScalingStep
  <2>3. which' = "screen" => CanvasInv'
        BY <2>1, CanvasStep
  <2>4. which' = "screen2" => ScanoutInv'
        BY <2>1, ScanoutStep
  <2> QED BY <2>2, <2>3, <2>4
<1>3. Inv => ScreenSafe
      BY CanvasSafe, ScanoutsSafe, ScalingSafe DEF ScreenSafe
<1> QED BY <1>1, <1>2, <1>3, PTL DEF MCSpec


-----------------------------------------------------------------------------
(* The keyboard and the pointer *)

Widgets ==
  [keyboard_grab_active : BOOLEAN, mouse_grab_active : BOOLEAN,
   keyboard_have_focus : BOOLEAN, mouse_have_pointer : BOOLEAN,
   keyboard_grab_released : BOOLEAN, keyboard_grab_inhibit : BOOLEAN,
   mouse_mode : W!Modes, activeseq : SUBSET GrabKeys, seq_pressed : BOOLEAN,
   key_state : SUBSET Keys, key_delayed : Keys \union {nothing},
   down : SUBSET Keys, echo : Seq(W!Events)]

\* What the window system tells a widget that has not the focus: events q are of these.
Unfocused == {"out", "enter", "leave"}
Quiet(q) == focus = FALSE => \A i \in 1 .. Len(q) : q[i][1] \in Unfocused

\* Widget s has let go of the keys, and knows that it has not the focus.
LetGo(s) == /\ s.keyboard_have_focus = FALSE /\ s.down = {}
            /\ s.key_delayed = nothing \/ inputs # "ready"

\* The keys that the guest has or is about to get are recorded, the delayed one is not down,
\* and only a channel that is ready gave it any.
Keyboard(s) ==
  /\ s.down \subseteq s.key_state /\ s.key_delayed \in s.key_state \union {nothing}
  /\ s.key_delayed \notin s.down
  /\ inputs # "ready" => s.down = {}

\* The devices are grabbed where that is allowed.
KeyGrab(s) ==
  s.keyboard_grab_active = TRUE =>
    /\ focus = TRUE /\ s.keyboard_have_focus = TRUE /\ s.mouse_have_pointer = TRUE
    /\ s.keyboard_grab_inhibit = FALSE /\ s.keyboard_grab_released = FALSE
MouseGrab(s) ==
  s.mouse_grab_active = TRUE => s.mouse_mode = "server" /\ s.mouse_have_pointer = TRUE

\* What a handler may make of the widget, with the keys and the grabs in order
Fine(s) == s \in Widgets /\ Keyboard(s) /\ KeyGrab(s) /\ MouseGrab(s) /\ Quiet(s.echo)

\* Without the focus no key comes, and the loss of it is the first event until the widget
\* has let go of the keys.
Away ==
  /\ Quiet(events)
  /\ focus = FALSE => LetGo(w) \/ (events # <<>> /\ events[1] = W!Focus("out"))

WidgetTypes ==
  /\ focus \in BOOLEAN /\ over \in BOOLEAN /\ events \in Seq(W!Events)
  /\ inputs \in {"none", "off", "ready"} /\ w.echo = <<>>

WidgetInv == WidgetTypes /\ Fine(w) /\ Away

\* A handler makes t of widget s, and keeps what it knows of the focus.
Gives(s, t) ==
  /\ Fine(t) /\ t.keyboard_have_focus = s.keyboard_have_focus
  /\ focus = FALSE /\ LetGo(s) => LetGo(t)

\* The events of the window system
LEMMA EchoMore ==
  ASSUME NEW q \in Seq(W!Events), NEW e \in {"in", "out", "enter", "leave"}, Quiet(q),
         e \in Unfocused \/ focus = TRUE
  PROVE  Append(q, W!Focus(e)) \in Seq(W!Events) /\ Quiet(Append(q, W!Focus(e)))
<1>1. W!Focus(e) \in W!Events /\ W!Focus(e)[1] = e
      BY DEF W!Focus, W!Events
<1>2. Append(q, W!Focus(e)) \in Seq(W!Events)
      BY <1>1, AppendProperties
<1>3. ASSUME focus = FALSE, NEW i \in 1 .. Len(Append(q, W!Focus(e)))
      PROVE  Append(q, W!Focus(e))[i][1] \in Unfocused
  <2>1. Len(q) \in Nat /\ Len(Append(q, W!Focus(e))) = Len(q) + 1
        BY AppendProperties
  <2>2. CASE i \in 1 .. Len(q)
    <3>1. Append(q, W!Focus(e))[i] = q[i]
          BY <2>2, AppendProperties
    <3> QED BY <2>2, <3>1, <1>3 DEF Quiet
  <2>3. CASE i = Len(q) + 1
    <3>1. Append(q, W!Focus(e))[i] = W!Focus(e)
          BY <2>3, AppendProperties
    <3> QED BY <3>1, <1>1, <1>3
  <2> QED BY <2>1, <2>2, <2>3
<1> QED BY <1>2, <1>3 DEF Quiet

\* The grabs
LEMMA KeyboardGrabGives ==
  ASSUME NEW s, Fine(s), NEW ok \in BOOLEAN, focus \in BOOLEAN,
         focus = TRUE \/ s.keyboard_have_focus = FALSE
  PROVE  LET t == W!try_keyboard_grab(s, ok)
         IN  Gives(s, t) /\ t.mouse_have_pointer = s.mouse_have_pointer
             /\ t.mouse_mode = s.mouse_mode
<1> DEFINE t == W!try_keyboard_grab(s, ok)
<1> SUFFICES Gives(s, t) /\ t.mouse_have_pointer = s.mouse_have_pointer
             /\ t.mouse_mode = s.mouse_mode
    OBVIOUS
<1>1. CASE t = s
      BY <1>1 DEF Gives
<1>2. CASE t # s
  <2>1. /\ s.keyboard_have_focus = TRUE /\ s.mouse_have_pointer = TRUE
        /\ s.keyboard_grab_inhibit = FALSE /\ s.keyboard_grab_released = FALSE
        /\ t = [s EXCEPT !.keyboard_grab_active = TRUE,
                         !.echo = Append(s.echo, W!Focus("out"))]
        BY <1>2 DEF W!try_keyboard_grab, Fine, Widgets
  <2>2. focus = TRUE
        BY <2>1
  <2>3. Append(s.echo, W!Focus("out")) \in Seq(W!Events) /\ Quiet(Append(s.echo, W!Focus("out")))
        BY EchoMore DEF Fine, Widgets, Unfocused
  <2>4. t \in Widgets
        BY <2>1, <2>3 DEF Fine, Widgets
  <2>5. /\ t.keyboard_have_focus = TRUE /\ t.mouse_have_pointer = TRUE
        /\ t.keyboard_grab_inhibit = FALSE /\ t.keyboard_grab_released = FALSE
        /\ t.down = s.down /\ t.key_state = s.key_state /\ t.key_delayed = s.key_delayed
        /\ t.mouse_mode = s.mouse_mode /\ t.mouse_grab_active = s.mouse_grab_active
        /\ t.echo = Append(s.echo, W!Focus("out"))
        BY <2>1 DEF Fine, Widgets
  <2> HIDE DEF t
  <2>6. Keyboard(t)
        BY <2>5 DEF Fine, Keyboard
  <2>7. KeyGrab(t) /\ MouseGrab(t)
        BY <2>2, <2>5 DEF Fine, KeyGrab, MouseGrab
  <2> QED BY <2>1, <2>2, <2>3, <2>4, <2>5, <2>6, <2>7 DEF Gives, Fine
<1> QED BY <1>1, <1>2

LEMMA KeyboardUngrabGives ==
  ASSUME NEW s \in Widgets, Keyboard(s), MouseGrab(s), Quiet(s.echo), focus \in BOOLEAN,
         s.keyboard_grab_active = TRUE => focus = TRUE
  PROVE  Gives(s, W!try_keyboard_ungrab(s))
<1> DEFINE t == W!try_keyboard_ungrab(s)
<1> SUFFICES Gives(s, t)
    OBVIOUS
<1>1. CASE s.keyboard_grab_active = TRUE
  <2>1. t = [s EXCEPT !.keyboard_grab_active = FALSE,
                      !.echo = Append(s.echo, W!Focus("in"))]
        BY <1>1 DEF W!try_keyboard_ungrab, Widgets
  <2>3. Append(s.echo, W!Focus("in")) \in Seq(W!Events) /\ Quiet(Append(s.echo, W!Focus("in")))
        BY <1>1, EchoMore DEF Widgets
  <2>4. t \in Widgets
        BY <2>1, <2>3 DEF Widgets
  <2>5. /\ t.keyboard_grab_active = FALSE /\ t.keyboard_have_focus = s.keyboard_have_focus
        /\ t.down = s.down /\ t.key_state = s.key_state /\ t.key_delayed = s.key_delayed
        /\ t.mouse_mode = s.mouse_mode /\ t.mouse_grab_active = s.mouse_grab_active
        /\ t.mouse_have_pointer = s.mouse_have_pointer
        /\ t.echo = Append(s.echo, W!Focus("in"))
        BY <2>1 DEF Widgets
  <2> HIDE DEF t
  <2>6. Keyboard(t)
        BY <2>5 DEF Keyboard
  <2>7. KeyGrab(t) /\ MouseGrab(t)
        BY <2>5 DEF KeyGrab, MouseGrab
  <2> QED BY <1>1, <2>1, <2>3, <2>4, <2>5, <2>6, <2>7 DEF Gives, Fine
<1>2. CASE s.keyboard_grab_active = FALSE
  <2>1. t = s
        BY <1>2 DEF W!try_keyboard_ungrab
  <2>2. KeyGrab(s)
        BY <1>2 DEF KeyGrab
  <2> QED BY <2>1, <2>2 DEF Gives, Fine
<1> QED BY <1>1, <1>2 DEF Widgets

LEMMA MouseGrabGives ==
  ASSUME NEW s, Fine(s), NEW ok \in BOOLEAN, focus \in BOOLEAN,
         focus = TRUE \/ s.keyboard_have_focus = FALSE
  PROVE  Gives(s, W!try_mouse_grab(s, ok))
<1> DEFINE t == W!try_mouse_grab(s, ok)
           k == W!try_keyboard_grab(s, ok)
<1> SUFFICES Gives(s, t)
    OBVIOUS
<1>1. /\ Gives(s, k) /\ k.mouse_have_pointer = s.mouse_have_pointer
      /\ k.mouse_mode = s.mouse_mode
      BY KeyboardGrabGives
<1>2. \/ t = s \/ t = k
      \/ /\ s.mouse_have_pointer = TRUE /\ s.mouse_mode = "server"
         /\ t = [k EXCEPT !.mouse_grab_active = TRUE,
                          !.echo = Append(k.echo, W!Focus("leave"))]
      BY DEF W!try_mouse_grab, Fine, Widgets
<1> HIDE DEF k
<1>3. CASE t = s \/ t = k
      BY <1>1, <1>3 DEF Gives
<1>4. CASE /\ s.mouse_have_pointer = TRUE /\ s.mouse_mode = "server"
           /\ t = [k EXCEPT !.mouse_grab_active = TRUE,
                            !.echo = Append(k.echo, W!Focus("leave"))]
  <2>1. Fine(k)
        BY <1>1 DEF Gives
  <2>3. Append(k.echo, W!Focus("leave")) \in Seq(W!Events) /\ Quiet(Append(k.echo, W!Focus("leave")))
        BY <2>1, EchoMore DEF Fine, Widgets, Unfocused
  <2>4. t \in Widgets
        BY <1>4, <2>1, <2>3 DEF Fine, Widgets
  <2>5. /\ t.keyboard_have_focus = k.keyboard_have_focus
        /\ t.mouse_have_pointer = k.mouse_have_pointer
        /\ t.keyboard_grab_inhibit = k.keyboard_grab_inhibit
        /\ t.keyboard_grab_released = k.keyboard_grab_released
        /\ t.keyboard_grab_active = k.keyboard_grab_active
        /\ t.down = k.down /\ t.key_state = k.key_state /\ t.key_delayed = k.key_delayed
        /\ t.mouse_mode = k.mouse_mode /\ t.echo = Append(k.echo, W!Focus("leave"))
        BY <1>4, <2>1 DEF Fine, Widgets
  <2> HIDE DEF t
  <2>6. Keyboard(t)
        BY <2>1, <2>5 DEF Fine, Keyboard
  <2>7. KeyGrab(t) /\ MouseGrab(t)
        BY <1>1, <1>4, <2>1, <2>5 DEF Fine, KeyGrab, MouseGrab
  <2>8. Fine(t)
        BY <2>3, <2>4, <2>5, <2>6, <2>7 DEF Fine
  <2> QED BY <1>1, <2>5, <2>8 DEF Gives, LetGo
<1> QED BY <1>2, <1>3, <1>4

LEMMA MouseUngrabGives ==
  ASSUME NEW s \in Widgets, Keyboard(s), KeyGrab(s), Quiet(s.echo)
  PROVE  Gives(s, W!try_mouse_ungrab(s))
<1> DEFINE t == W!try_mouse_ungrab(s)
<1> SUFFICES Gives(s, t)
    OBVIOUS
<1>1. CASE s.mouse_grab_active = TRUE
  <2>1. t = [s EXCEPT !.mouse_grab_active = FALSE,
                      !.echo = Append(s.echo, W!Focus("enter"))]
        BY <1>1 DEF W!try_mouse_ungrab, Widgets
  <2>3. Append(s.echo, W!Focus("enter")) \in Seq(W!Events) /\ Quiet(Append(s.echo, W!Focus("enter")))
        BY EchoMore DEF Widgets, Unfocused
  <2>4. t \in Widgets
        BY <2>1, <2>3 DEF Widgets
  <2>5. /\ t.mouse_grab_active = FALSE /\ t.keyboard_have_focus = s.keyboard_have_focus
        /\ t.keyboard_grab_active = s.keyboard_grab_active
        /\ t.keyboard_grab_inhibit = s.keyboard_grab_inhibit
        /\ t.keyboard_grab_released = s.keyboard_grab_released
        /\ t.down = s.down /\ t.key_state = s.key_state /\ t.key_delayed = s.key_delayed
        /\ t.mouse_have_pointer = s.mouse_have_pointer
        /\ t.echo = Append(s.echo, W!Focus("enter"))
        BY <2>1 DEF Widgets
  <2> HIDE DEF t
  <2>6. Keyboard(t)
        BY <2>5 DEF Keyboard
  <2>7. KeyGrab(t) /\ MouseGrab(t)
        BY <2>5 DEF KeyGrab, MouseGrab
  <2>8. Fine(t)
        BY <2>3, <2>4, <2>5, <2>6, <2>7 DEF Fine
  <2> QED BY <2>5, <2>8 DEF Gives, LetGo
<1>2. CASE s.mouse_grab_active = FALSE
  <2>1. t = s
        BY <1>2 DEF W!try_mouse_ungrab
  <2>2. MouseGrab(s)
        BY <1>2 DEF MouseGrab
  <2> QED BY <2>1, <2>2 DEF Gives, Fine
<1> QED BY <1>1, <1>2 DEF Widgets

LEMMA GivesOn == ASSUME NEW s, NEW t, NEW u, Gives(s, t), Gives(t, u) PROVE Gives(s, u)
BY DEF Gives

\* The keys
Keyed(s, d, k, x) == [s EXCEPT !.down = d, !.key_state = k, !.key_delayed = x]

LEMMA KeyedFine ==
  ASSUME NEW s, Fine(s), NEW k \in SUBSET Keys, NEW d \in SUBSET k, NEW x \in k \union {nothing},
         x \notin d, inputs # "ready" => d = {}
  PROVE  LET t == Keyed(s, d, k, x)
         IN  /\ Fine(t) /\ t.keyboard_have_focus = s.keyboard_have_focus
             /\ t.down = d /\ t.key_state = k /\ t.key_delayed = x
<1> DEFINE t == Keyed(s, d, k, x)
<1> SUFFICES /\ Fine(t) /\ t.keyboard_have_focus = s.keyboard_have_focus
             /\ t.down = d /\ t.key_state = k /\ t.key_delayed = x
    OBVIOUS
<1>1. /\ t \in Widgets
      /\ t.down = d /\ t.key_state = k /\ t.key_delayed = x
      /\ t.keyboard_have_focus = s.keyboard_have_focus
      /\ t.mouse_have_pointer = s.mouse_have_pointer
      /\ t.keyboard_grab_inhibit = s.keyboard_grab_inhibit
      /\ t.keyboard_grab_released = s.keyboard_grab_released
      /\ t.keyboard_grab_active = s.keyboard_grab_active
      /\ t.mouse_grab_active = s.mouse_grab_active
      /\ t.mouse_mode = s.mouse_mode /\ t.echo = s.echo
      BY DEF Fine, Widgets, Keyed
<1> HIDE DEF t
<1>2. Keyboard(t)
      BY <1>1 DEF Keyboard
<1>3. KeyGrab(t) /\ MouseGrab(t)
      BY <1>1 DEF Fine, KeyGrab, MouseGrab
<1> QED BY <1>1, <1>2, <1>3 DEF Fine

LEMMA SendsWhat ==
  ASSUME NEW s \in Widgets, NEW k
  PROVE  /\ inputs = "ready" => /\ W!Sends(s, "press", k) = [s EXCEPT !.down = s.down \union {k}]
                                /\ W!Sends(s, "release", k) = [s EXCEPT !.down = s.down \ {k}]
         /\ inputs # "ready" => W!Sends(s, "press", k) = s /\ W!Sends(s, "release", k) = s
BY DEF W!Sends, Widgets

LEMMA NoKey == nothing \notin Keys
BY DesktopAssumption DEF W!WidgetAssumption

LEMMA DelayedGives ==
  ASSUME NEW s, Fine(s)
  PROVE  LET t == W!key_press_delayed(s)
         IN  /\ Gives(s, t) /\ t.key_delayed = nothing /\ t.key_state = s.key_state
             /\ LetGo(s) => t.down = {}
             /\ \E d \in SUBSET s.key_state : t = Keyed(s, d, s.key_state, nothing)
<1> DEFINE t == W!key_press_delayed(s)
           x == s.key_delayed
           d == IF inputs = "ready" /\ x # nothing THEN s.down \union {x} ELSE s.down
<1> SUFFICES /\ Gives(s, t) /\ t.key_delayed = nothing /\ t.key_state = s.key_state
             /\ LetGo(s) => t.down = {}
             /\ \E e \in SUBSET s.key_state : t = Keyed(s, e, s.key_state, nothing)
    OBVIOUS
<1>1. s \in Widgets /\ Keyboard(s)
      BY DEF Fine
<1>2. t = Keyed(s, d, s.key_state, nothing)
  <2>1. CASE x = nothing
        BY <1>1, <2>1 DEF W!key_press_delayed, Keyed, Widgets
  <2>2. CASE x # nothing /\ inputs = "ready"
    <3>1. W!Sends(s, "press", x) = [s EXCEPT !.down = s.down \union {x}]
          BY <1>1, <2>2, SendsWhat
    <3> QED BY <1>1, <2>2, <3>1 DEF W!key_press_delayed, Keyed, Widgets
  <2>3. CASE x # nothing /\ inputs # "ready"
    <3>1. W!Sends(s, "press", x) = s
          BY <1>1, <2>3, SendsWhat
    <3> QED BY <1>1, <2>3, <3>1 DEF W!key_press_delayed, Keyed, Widgets
  <2> QED BY <2>1, <2>2, <2>3
<1>3. /\ d \in SUBSET s.key_state /\ nothing \notin d /\ (inputs # "ready" => d = {})
      /\ s.key_state \in SUBSET Keys
      BY <1>1, NoKey DEF Keyboard, Widgets
<1>4. LetGo(s) => d = {}
      BY DEF LetGo
<1> HIDE DEF t, d
<1>5. /\ Fine(t) /\ t.keyboard_have_focus = s.keyboard_have_focus
      /\ t.down = d /\ t.key_state = s.key_state /\ t.key_delayed = nothing
      BY <1>2, <1>3, KeyedFine
<1> QED BY <1>2, <1>3, <1>4, <1>5 DEF Gives, LetGo

LEMMA PressGives ==
  ASSUME NEW s, Fine(s), NEW k \in Keys, focus = TRUE
  PROVE  Gives(s, W!PressKey(s, k))
<1> DEFINE p == W!key_press_delayed(s)
           t == W!PressKey(s, k)
<1> SUFFICES Gives(s, t)
    OBVIOUS
<1>1. Gives(s, p) /\ Fine(p) /\ p \in Widgets /\ Keyboard(p) /\ p.key_delayed = nothing
      BY DelayedGives DEF Gives, Fine
<1>2. p.key_state \in SUBSET Keys /\ p.down \in SUBSET p.key_state
      BY <1>1 DEF Keyboard, Widgets
<1>3. \/ t = s
      \/ k \notin p.key_state /\ t = Keyed(p, p.down, p.key_state \union {k}, k)
      \/ inputs = "ready" /\ t = Keyed(p, p.down \union {k}, p.key_state \union {k}, nothing)
      \/ inputs # "ready" /\ t = Keyed(p, p.down, p.key_state \union {k}, nothing)
  <2>1. CASE inputs = "none"
        BY <2>1 DEF W!PressKey
  <2>2. CASE inputs # "none" /\ k \notin GrabKeys /\ k \notin p.key_state
        BY <1>1, <2>2 DEF W!PressKey, Keyed, Widgets
  <2>3. CASE inputs # "none" /\ ~(k \notin GrabKeys /\ k \notin p.key_state) /\ inputs = "ready"
    <3>1. W!Sends(p, "press", k) = [p EXCEPT !.down = p.down \union {k}]
          BY <1>1, <2>3, SendsWhat
    <3>2. t = [W!Sends(p, "press", k) EXCEPT !.key_state = @ \union {k}]
          BY <2>3 DEF W!PressKey
    <3> DEFINE q == W!Sends(p, "press", k)
    <3>3. q = [p EXCEPT !.down = p.down \union {k}] /\ t = [q EXCEPT !.key_state = q.key_state \union {k}]
          BY <3>1, <3>2
    <3> HIDE DEF t, p, q
    <3>4. q \in Widgets /\ q.key_state = p.key_state
          BY <1>1, <1>2, <3>3 DEF Widgets
    <3>5. t = [p EXCEPT !.down = p.down \union {k}, !.key_state = p.key_state \union {k}]
          BY <1>1, <3>3, <3>4 DEF Widgets
    <3> QED BY <1>1, <2>3, <3>5 DEF Keyed, Widgets
  <2>4. CASE inputs # "none" /\ ~(k \notin GrabKeys /\ k \notin p.key_state) /\ inputs # "ready"
    <3>1. W!Sends(p, "press", k) = p
          BY <1>1, <2>4, SendsWhat
    <3>2. t = [W!Sends(p, "press", k) EXCEPT !.key_state = @ \union {k}]
          BY <2>4 DEF W!PressKey
    <3> QED BY <1>1, <2>4, <3>1, <3>2 DEF Keyed, Widgets
  <2> QED BY <2>1, <2>2, <2>3, <2>4
<1> HIDE DEF t, p
<1>4. \/ t = s
      \/ Fine(t) /\ t.keyboard_have_focus = p.keyboard_have_focus
  <2>1. CASE k \notin p.key_state /\ t = Keyed(p, p.down, p.key_state \union {k}, k)
        BY <1>1, <1>2, <2>1, KeyedFine DEF Keyboard
  <2>2. CASE inputs = "ready" /\ t = Keyed(p, p.down \union {k}, p.key_state \union {k}, nothing)
        BY <1>1, <1>2, <2>2, NoKey, KeyedFine DEF Keyboard
  <2>3. CASE inputs # "ready" /\ t = Keyed(p, p.down, p.key_state \union {k}, nothing)
        BY <1>1, <1>2, <2>3, NoKey, KeyedFine DEF Keyboard
  <2> QED BY <1>3, <2>1, <2>2, <2>3
<1> QED BY <1>1, <1>4 DEF Gives

LEMMA ReleaseGives ==
  ASSUME NEW s, Fine(s), NEW k \in Keys, focus = TRUE
  PROVE  Gives(s, W!ReleaseKey(s, k))
<1> DEFINE p == W!key_press_delayed(s)
           t == W!ReleaseKey(s, k)
<1> SUFFICES Gives(s, t)
    OBVIOUS
<1>1. Gives(s, p) /\ Fine(p) /\ p \in Widgets /\ Keyboard(p) /\ p.key_delayed = nothing
      BY DelayedGives DEF Gives, Fine
<1>2. /\ p.key_state \in SUBSET Keys /\ p.down \in SUBSET p.key_state
      /\ s \in Widgets /\ Keyboard(s) /\ s.key_state \in SUBSET Keys /\ s.down \in SUBSET s.key_state
      BY <1>1 DEF Keyboard, Widgets, Fine
<1>3. \/ t = s
      \/ s.key_delayed = k /\ t = Keyed(s, s.down, s.key_state \ {k}, nothing)
      \/ inputs = "ready" /\ t = Keyed(p, p.down \ {k}, p.key_state \ {k}, nothing)
      \/ inputs # "ready" /\ t = Keyed(p, p.down, p.key_state \ {k}, nothing)
  <2>1. CASE inputs = "none" \/ k \notin s.key_state
        BY <2>1 DEF W!ReleaseKey
  <2>2. CASE inputs # "none" /\ k \in s.key_state /\ s.key_delayed = k
        BY <1>2, <2>2 DEF W!ReleaseKey, Keyed, Widgets
  <2>3. CASE inputs # "none" /\ k \in s.key_state /\ s.key_delayed # k /\ inputs = "ready"
    <3>1. W!Sends(p, "release", k) = [p EXCEPT !.down = p.down \ {k}]
          BY <1>1, <2>3, SendsWhat
    <3>2. t = [W!Sends(p, "release", k) EXCEPT !.key_state = @ \ {k}]
          BY <2>3 DEF W!ReleaseKey
    <3> DEFINE q == W!Sends(p, "release", k)
    <3>3. q = [p EXCEPT !.down = p.down \ {k}] /\ t = [q EXCEPT !.key_state = q.key_state \ {k}]
          BY <3>1, <3>2
    <3> HIDE DEF t, p, q
    <3>4. q \in Widgets /\ q.key_state = p.key_state
          BY <1>1, <1>2, <3>3 DEF Widgets
    <3>5. t = [p EXCEPT !.down = p.down \ {k}, !.key_state = p.key_state \ {k}]
          BY <1>1, <3>3, <3>4 DEF Widgets
    <3> QED BY <1>1, <2>3, <3>5 DEF Keyed, Widgets
  <2>4. CASE inputs # "none" /\ k \in s.key_state /\ s.key_delayed # k /\ inputs # "ready"
    <3>1. W!Sends(p, "release", k) = p
          BY <1>1, <2>4, SendsWhat
    <3>2. t = [W!Sends(p, "release", k) EXCEPT !.key_state = @ \ {k}]
          BY <2>4 DEF W!ReleaseKey
    <3> QED BY <1>1, <2>4, <3>1, <3>2 DEF Keyed, Widgets
  <2> QED BY <2>1, <2>2, <2>3, <2>4
<1> HIDE DEF t, p
<1>4. \/ t = s
      \/ Fine(t) /\ t.keyboard_have_focus = p.keyboard_have_focus
      \/ Fine(t) /\ t.keyboard_have_focus = s.keyboard_have_focus
  <2>1. CASE s.key_delayed = k /\ t = Keyed(s, s.down, s.key_state \ {k}, nothing)
    <3>1. s.down \in SUBSET (s.key_state \ {k}) /\ nothing \notin s.down
          /\ (inputs # "ready" => s.down = {})
          BY <1>2, <2>1, NoKey DEF Keyboard
    <3> QED BY <1>2, <2>1, <3>1, KeyedFine
  <2>2. CASE inputs = "ready" /\ t = Keyed(p, p.down \ {k}, p.key_state \ {k}, nothing)
    <3>1. p.down \ {k} \in SUBSET (p.key_state \ {k}) /\ nothing \notin p.down
          BY <1>2, NoKey
    <3> QED BY <1>1, <1>2, <2>2, <3>1, KeyedFine
  <2>3. CASE inputs # "ready" /\ t = Keyed(p, p.down, p.key_state \ {k}, nothing)
    <3>1. p.down = {}
          BY <1>1, <2>3 DEF Keyboard
    <3> QED BY <1>1, <1>2, <2>3, <3>1, KeyedFine
  <2> QED BY <1>3, <2>1, <2>2, <2>3
<1> QED BY <1>1, <1>4 DEF Gives

\* All keys are let go, or there is no inputs channel.
LEMMA ReleaseKeysGives ==
  ASSUME NEW s, Fine(s)
  PROVE  LET t == W!release_keys(s)
         IN  /\ Gives(s, t) /\ t.down = {}
             /\ t.key_delayed = nothing \/ inputs # "ready"
             /\ t.mouse_have_pointer = s.mouse_have_pointer /\ t.mouse_mode = s.mouse_mode
             /\ t.keyboard_grab_active = s.keyboard_grab_active
             /\ t.keyboard_grab_released = s.keyboard_grab_released
             /\ t.mouse_grab_active = s.mouse_grab_active
<1> DEFINE p == W!key_press_delayed(s)
           t == W!release_keys(s)
<1> SUFFICES /\ Gives(s, t) /\ t.down = {}
             /\ t.key_delayed = nothing \/ inputs # "ready"
             /\ t.mouse_have_pointer = s.mouse_have_pointer /\ t.mouse_mode = s.mouse_mode
             /\ t.keyboard_grab_active = s.keyboard_grab_active
             /\ t.keyboard_grab_released = s.keyboard_grab_released
             /\ t.mouse_grab_active = s.mouse_grab_active
    OBVIOUS
<1>1. s \in Widgets /\ Keyboard(s)
      BY DEF Fine
<1>2. CASE inputs = "none" \/ s.key_state = {}
  <2>1. t = s
        BY <1>2 DEF W!release_keys
  <2>2. s.down = {} /\ (s.key_delayed = nothing \/ inputs # "ready")
        BY <1>1, <1>2 DEF Keyboard
  <2> QED BY <2>1, <2>2 DEF Gives
<1>3. CASE inputs # "none" /\ s.key_state # {}
  <2>1. PICK d \in SUBSET s.key_state : p = Keyed(s, d, s.key_state, nothing)
        BY DelayedGives
  <2>2. Gives(s, p) /\ Fine(p) /\ p \in Widgets /\ Keyboard(p) /\ p.key_delayed = nothing
        /\ p.key_state = s.key_state
        BY DelayedGives DEF Gives, Fine
  <2>3. t = [p EXCEPT !.down = p.down \ s.key_state, !.key_state = {}]
        BY <1>3 DEF W!release_keys
  <2>4. p.down \ s.key_state = {}
        BY <2>2 DEF Keyboard
  <2>5. t = Keyed(p, {}, {}, nothing) /\ t = Keyed(s, {}, {}, nothing)
    <3> HIDE DEF t, p
    <3>1. t = [p EXCEPT !.down = {}, !.key_state = {}]
          BY <2>3, <2>4
    <3>2. t = Keyed(p, {}, {}, nothing)
          BY <2>2, <3>1 DEF Keyed, Widgets
    <3>3. t = Keyed(s, {}, {}, nothing)
          BY <1>1, <2>1, <3>2 DEF Keyed, Widgets
    <3> QED BY <3>2, <3>3
  <2> HIDE DEF t, p
  <2>6. /\ Fine(t) /\ t.keyboard_have_focus = p.keyboard_have_focus
        /\ t.down = {} /\ t.key_state = {} /\ t.key_delayed = nothing
        BY <2>2, <2>5, KeyedFine
  <2>7. /\ t.mouse_have_pointer = s.mouse_have_pointer /\ t.mouse_mode = s.mouse_mode
        /\ t.keyboard_grab_active = s.keyboard_grab_active
        /\ t.keyboard_grab_released = s.keyboard_grab_released
        /\ t.mouse_grab_active = s.mouse_grab_active
        BY <1>1, <2>5 DEF Keyed, Widgets
  <2> QED BY <2>2, <2>6, <2>7 DEF Gives, LetGo
<1> QED BY <1>2, <1>3

\* The grab sequence
LEMMA SameGives ==
  ASSUME NEW s, Fine(s), NEW t \in Widgets,
         t.keyboard_grab_active = s.keyboard_grab_active,
         t.mouse_grab_active = s.mouse_grab_active,
         t.keyboard_have_focus = s.keyboard_have_focus,
         t.mouse_have_pointer = s.mouse_have_pointer, t.mouse_mode = s.mouse_mode,
         t.keyboard_grab_released = s.keyboard_grab_released,
         t.keyboard_grab_inhibit = s.keyboard_grab_inhibit,
         t.key_state = s.key_state, t.key_delayed = s.key_delayed, t.down = s.down,
         t.echo = s.echo
  PROVE  Gives(s, t)
<1>1. Keyboard(t)
      BY DEF Fine, Keyboard
<1>2. KeyGrab(t)
      BY DEF Fine, KeyGrab
<1>3. MouseGrab(t)
      BY DEF Fine, MouseGrab
<1>4. Quiet(t.echo)
      BY DEF Fine
<1> QED BY <1>1, <1>2, <1>3, <1>4 DEF Gives, Fine, LetGo

LEMMA ResetGives ==
  ASSUME NEW s, Fine(s), NEW a \in SUBSET GrabKeys, NEW b \in BOOLEAN
  PROVE  Gives(s, [s EXCEPT !.activeseq = a, !.seq_pressed = b])
<1> DEFINE t == [s EXCEPT !.activeseq = a, !.seq_pressed = b]
<1>1. /\ t \in Widgets
      /\ t.keyboard_grab_active = s.keyboard_grab_active
      /\ t.mouse_grab_active = s.mouse_grab_active
      /\ t.keyboard_have_focus = s.keyboard_have_focus
      /\ t.mouse_have_pointer = s.mouse_have_pointer /\ t.mouse_mode = s.mouse_mode
      /\ t.keyboard_grab_released = s.keyboard_grab_released
      /\ t.keyboard_grab_inhibit = s.keyboard_grab_inhibit
      /\ t.key_state = s.key_state /\ t.key_delayed = s.key_delayed /\ t.down = s.down
      /\ t.echo = s.echo
      BY DEF Fine, Widgets
<1> SUFFICES Gives(s, t)
    OBVIOUS
<1> HIDE DEF t
<1> QED BY <1>1, SameGives

LEMMA SequencePressedGives ==
  ASSUME NEW s, Fine(s), NEW ok \in BOOLEAN, focus = TRUE
  PROVE  Gives(s, W!SequencePressed(s, ok))
<1> DEFINE m == IF s.mouse_mode # "server" THEN s
                ELSE IF s.mouse_grab_active THEN W!try_mouse_ungrab(s) ELSE W!try_mouse_grab(s, ok)
<1>1. Gives(s, m)
  <2>1. Gives(s, s)
        BY DEF Gives
  <2>2. Gives(s, W!try_mouse_ungrab(s))
        BY MouseUngrabGives DEF Fine
  <2>3. Gives(s, W!try_mouse_grab(s, ok))
        BY MouseGrabGives
  <2> QED BY <2>1, <2>2, <2>3
<1>2. W!SequencePressed(s, ok) = [m EXCEPT !.activeseq = {}, !.seq_pressed = TRUE]
      BY DEF W!SequencePressed
<1> HIDE DEF m
<1>3. Gives(m, [m EXCEPT !.activeseq = {}, !.seq_pressed = TRUE])
      BY <1>1, ResetGives DEF Gives
<1> QED BY <1>1, <1>2, <1>3, GivesOn

LEMMA SequenceReleasedGives ==
  ASSUME NEW s, Fine(s), NEW ok \in BOOLEAN, focus = TRUE
  PROVE  Gives(s, W!SequenceReleased(s, ok))
<1> DEFINE k == W!release_keys(s)
           r == [k EXCEPT !.keyboard_grab_released = ~k.keyboard_grab_released]
           t == IF r.keyboard_grab_released THEN W!try_keyboard_ungrab(r)
                ELSE W!try_keyboard_grab(r, ok)
<1>1. Gives(s, k) /\ Fine(k)
      BY ReleaseKeysGives DEF Gives
<1>2. W!SequenceReleased(s, ok) = [t EXCEPT !.activeseq = {}, !.seq_pressed = FALSE]
      BY DEF W!SequenceReleased, W!Reset, W!Ungrabbed
<1> HIDE DEF k
<1>3. /\ r \in Widgets
      /\ r.keyboard_grab_active = k.keyboard_grab_active
      /\ r.mouse_grab_active = k.mouse_grab_active
      /\ r.keyboard_have_focus = k.keyboard_have_focus
      /\ r.mouse_have_pointer = k.mouse_have_pointer /\ r.mouse_mode = k.mouse_mode
      /\ r.keyboard_grab_inhibit = k.keyboard_grab_inhibit
      /\ r.key_state = k.key_state /\ r.key_delayed = k.key_delayed /\ r.down = k.down
      /\ r.echo = k.echo
      BY <1>1 DEF Fine, Widgets
<1>4. r.keyboard_grab_released \in BOOLEAN
      BY <1>3 DEF Widgets
<1> HIDE DEF r
<1>5. Keyboard(r) /\ MouseGrab(r) /\ Quiet(r.echo)
      BY <1>1, <1>3 DEF Fine, Keyboard, MouseGrab
<1>6. CASE r.keyboard_grab_released = TRUE
  <2>1. t = W!try_keyboard_ungrab(r)
        BY <1>6
  <2> HIDE DEF t
  <2>2. Gives(r, t)
        BY <1>3, <1>5, <2>1, KeyboardUngrabGives
  <2>3. Gives(t, [t EXCEPT !.activeseq = {}, !.seq_pressed = FALSE])
        BY <2>2, ResetGives DEF Gives
  <2> QED BY <1>1, <1>2, <1>3, <2>2, <2>3 DEF Gives
<1>7. CASE r.keyboard_grab_released = FALSE
  <2>1. t = W!try_keyboard_grab(r, ok)
        BY <1>7
  <2> HIDE DEF t
  <2>2. KeyGrab(r)
        BY <1>1, <1>3, <1>7 DEF Fine, KeyGrab
  <2>3. Gives(r, t)
        BY <1>3, <1>5, <2>1, <2>2, KeyboardGrabGives DEF Fine
  <2>4. Gives(t, [t EXCEPT !.activeseq = {}, !.seq_pressed = FALSE])
        BY <2>3, ResetGives DEF Gives
  <2> QED BY <1>1, <1>2, <1>3, <2>3, <2>4 DEF Gives
<1> QED BY <1>4, <1>6, <1>7

LEMMA KeyEventGives ==
  ASSUME NEW s, Fine(s), NEW ok \in BOOLEAN, NEW k \in Keys, NEW type \in {"press", "release"},
         focus = TRUE
  PROVE  Gives(s, W!key_event(s, type, k, ok))
<1> DEFINE q == W!Sequence(s, type, k, ok)
           c == [s EXCEPT !.activeseq = W!Recorded(s, k)]
<1>1. q \in {W!Reset(s), c, W!SequenceReleased(s, ok), W!SequencePressed(s, ok)}
      BY DEF W!Sequence
<1>2. Gives(s, W!Reset(s))
      BY ResetGives DEF W!Reset
<1>3. Gives(s, c)
  <2>1. W!Recorded(s, k) \in SUBSET GrabKeys /\ s.seq_pressed \in BOOLEAN
        BY DEF W!Recorded, Fine, Widgets
  <2>2. c = [s EXCEPT !.activeseq = W!Recorded(s, k), !.seq_pressed = s.seq_pressed]
        BY DEF Fine, Widgets
  <2> HIDE DEF c
  <2> QED BY <2>1, <2>2, ResetGives
<1>4. Gives(s, q)
      BY <1>1, <1>2, <1>3, SequenceReleasedGives, SequencePressedGives
<1>5. W!key_event(s, type, k, ok) \in {W!PressKey(q, k), W!ReleaseKey(q, k)}
      BY DEF W!key_event
<1> HIDE DEF q
<1>6. Gives(q, W!PressKey(q, k)) /\ Gives(q, W!ReleaseKey(q, k))
      BY <1>4, PressGives, ReleaseGives DEF Gives
<1> QED BY <1>4, <1>5, <1>6, GivesOn

\* The handlers of the events
LEMMA FocusInGives ==
  ASSUME NEW s, Fine(s), NEW ok \in BOOLEAN, focus = TRUE
  PROVE  Fine(W!focus_in_event(s, ok))
<1> DEFINE r == W!release_keys(s)
           f == IF r.keyboard_grab_released THEN [r EXCEPT !.activeseq = {}] ELSE r
           u == [f EXCEPT !.keyboard_have_focus = TRUE]
<1>1. CASE s.keyboard_have_focus = TRUE
      BY <1>1 DEF W!focus_in_event
<1>2. CASE s.keyboard_have_focus = FALSE
  <2>1. W!focus_in_event(s, ok) = W!try_keyboard_grab(u, ok)
        BY <1>2 DEF W!focus_in_event, W!update_keyboard_focus
  <2>2. Fine(r) /\ r.keyboard_have_focus = FALSE
        BY <1>2, ReleaseKeysGives DEF Gives
  <2>3. r.keyboard_grab_active = FALSE
        BY <2>2 DEF Fine, KeyGrab, Widgets
  <2> HIDE DEF r
  <2>4. /\ u \in Widgets
        /\ u.keyboard_grab_active = FALSE /\ u.mouse_grab_active = r.mouse_grab_active
        /\ u.mouse_have_pointer = r.mouse_have_pointer /\ u.mouse_mode = r.mouse_mode
        /\ u.key_state = r.key_state /\ u.key_delayed = r.key_delayed /\ u.down = r.down
        /\ u.echo = r.echo
        BY <2>2, <2>3 DEF Fine, Widgets
  <2> HIDE DEF u
  <2>5. Keyboard(u) /\ KeyGrab(u) /\ MouseGrab(u) /\ Quiet(u.echo)
        BY <2>2, <2>4 DEF Fine, Keyboard, KeyGrab, MouseGrab
  <2> QED BY <2>1, <2>4, <2>5, KeyboardGrabGives DEF Gives, Fine
<1> QED BY <1>1, <1>2 DEF Fine, Widgets

LEMMA FocusOutGives ==
  ASSUME NEW s, Fine(s)
  PROVE  /\ Fine(W!focus_out_event(s))
         /\ focus = FALSE => LetGo(W!focus_out_event(s))
<1> DEFINE r == W!release_keys(s)
           u == [r EXCEPT !.keyboard_have_focus = FALSE]
<1>1. CASE s.keyboard_grab_active = TRUE
  <2>1. W!focus_out_event(s) = s
        BY <1>1 DEF W!focus_out_event
  <2> QED BY <1>1, <2>1 DEF Fine, KeyGrab
<1>2. CASE s.keyboard_grab_active = FALSE
  <2>1. W!focus_out_event(s) = u
        BY <1>2 DEF W!focus_out_event, W!update_keyboard_focus
  <2>2. /\ Fine(r) /\ r.down = {} /\ (r.key_delayed = nothing \/ inputs # "ready")
        /\ r.keyboard_grab_active = FALSE
        BY <1>2, ReleaseKeysGives DEF Gives
  <2> HIDE DEF r
  <2>4. /\ u \in Widgets /\ u.keyboard_have_focus = FALSE
        /\ u.keyboard_grab_active = FALSE /\ u.mouse_grab_active = r.mouse_grab_active
        /\ u.mouse_have_pointer = r.mouse_have_pointer /\ u.mouse_mode = r.mouse_mode
        /\ u.key_state = r.key_state /\ u.key_delayed = r.key_delayed /\ u.down = r.down
        /\ u.echo = r.echo
        BY <2>2 DEF Fine, Widgets
  <2> HIDE DEF u
  <2>5. Keyboard(u) /\ KeyGrab(u) /\ MouseGrab(u) /\ Quiet(u.echo)
        BY <2>2, <2>4 DEF Fine, Keyboard, KeyGrab, MouseGrab
  <2> QED BY <2>1, <2>2, <2>4, <2>5 DEF Fine, LetGo
<1> QED BY <1>1, <1>2 DEF Fine, Widgets

LEMMA EnterGives ==
  ASSUME NEW s, Fine(s), NEW ok \in BOOLEAN, focus \in BOOLEAN,
         focus = TRUE \/ s.keyboard_have_focus = FALSE
  PROVE  Gives(s, W!enter_event(s, ok))
<1> DEFINE u == [s EXCEPT !.mouse_have_pointer = TRUE]
<1>1. W!enter_event(s, ok) = W!try_keyboard_grab(u, ok)
      BY DEF W!enter_event
<1>2. /\ u \in Widgets /\ u.mouse_have_pointer = TRUE
      /\ u.keyboard_grab_active = s.keyboard_grab_active
      /\ u.mouse_grab_active = s.mouse_grab_active
      /\ u.keyboard_have_focus = s.keyboard_have_focus /\ u.mouse_mode = s.mouse_mode
      /\ u.keyboard_grab_released = s.keyboard_grab_released
      /\ u.keyboard_grab_inhibit = s.keyboard_grab_inhibit
      /\ u.key_state = s.key_state /\ u.key_delayed = s.key_delayed /\ u.down = s.down
      /\ u.echo = s.echo
      BY DEF Fine, Widgets
<1> HIDE DEF u
<1>3. Keyboard(u) /\ KeyGrab(u) /\ MouseGrab(u) /\ Quiet(u.echo)
      BY <1>2 DEF Fine, Keyboard, KeyGrab, MouseGrab
<1>4. Gives(s, u)
      BY <1>2, <1>3 DEF Gives, Fine, LetGo
<1>5. Gives(u, W!try_keyboard_grab(u, ok))
      BY <1>2, <1>4, KeyboardGrabGives DEF Gives
<1> QED BY <1>1, <1>4, <1>5, GivesOn

LEMMA LeaveGives ==
  ASSUME NEW s, Fine(s), focus \in BOOLEAN
  PROVE  Gives(s, W!leave_event(s))
<1> DEFINE u == [s EXCEPT !.mouse_have_pointer = FALSE]
<1>1. CASE s.mouse_grab_active = TRUE
      BY <1>1 DEF W!leave_event, Gives
<1>2. CASE s.mouse_grab_active = FALSE
  <2>1. W!leave_event(s) = W!try_keyboard_ungrab(u)
        BY <1>2 DEF W!leave_event
  <2>2. /\ u \in Widgets /\ u.mouse_grab_active = FALSE
        /\ u.keyboard_grab_active = s.keyboard_grab_active
        /\ u.keyboard_have_focus = s.keyboard_have_focus
        /\ u.key_state = s.key_state /\ u.key_delayed = s.key_delayed /\ u.down = s.down
        /\ u.echo = s.echo
        BY <1>2 DEF Fine, Widgets
  <2> HIDE DEF u
  <2>3. Keyboard(u) /\ MouseGrab(u) /\ Quiet(u.echo)
        BY <2>2 DEF Fine, Keyboard, MouseGrab
  <2>4. u.keyboard_grab_active = TRUE => focus = TRUE
        BY <2>2 DEF Fine, KeyGrab
  <2>5. Gives(u, W!try_keyboard_ungrab(u))
        BY <2>2, <2>3, <2>4, KeyboardUngrabGives
  <2> QED BY <2>1, <2>2, <2>5 DEF Gives, LetGo
<1> QED BY <1>1, <1>2 DEF Fine, Widgets

\* What the rest of the queue and the answers of the window system are together
LEMMA QuietMore ==
  ASSUME NEW q \in Seq(W!Events), NEW r \in Seq(W!Events), Quiet(q), Quiet(r)
  PROVE  /\ q \o r \in Seq(W!Events) /\ Quiet(q \o r)
         /\ q # <<>> => q \o r # <<>> /\ (q \o r)[1] = q[1]
<1>1. /\ q \o r \in Seq(W!Events) /\ Len(q) \in Nat /\ Len(r) \in Nat
      /\ Len(q \o r) = Len(q) + Len(r)
      /\ \A i \in 1 .. Len(q) + Len(r) :
           (q \o r)[i] = IF i <= Len(q) THEN q[i] ELSE r[i - Len(q)]
      BY ConcatProperties
<1>2. ASSUME focus = FALSE, NEW i \in 1 .. Len(q \o r) PROVE (q \o r)[i][1] \in Unfocused
  <2>1. CASE i <= Len(q)
        BY <1>1, <1>2, <2>1 DEF Quiet
  <2>2. CASE i > Len(q)
    <3>1. i - Len(q) \in 1 .. Len(r) /\ (q \o r)[i] = r[i - Len(q)]
          BY <1>1, <2>2
    <3> QED BY <1>2, <3>1 DEF Quiet
  <2> QED BY <1>1, <2>1, <2>2
<1>3. ASSUME q # <<>> PROVE q \o r # <<>> /\ (q \o r)[1] = q[1]
  <2>1. Len(q) >= 1
        BY <1>1, <1>3, EmptySeq
  <2> QED BY <1>1, <2>1
<1> QED BY <1>1, <1>2, <1>3 DEF Quiet

LEMMA QuietTail ==
  ASSUME NEW q \in Seq(W!Events), q # <<>>, Quiet(q)
  PROVE  Tail(q) \in Seq(W!Events) /\ Quiet(Tail(q)) /\ Head(q) = q[1]
<1>1. /\ Tail(q) \in Seq(W!Events) /\ Len(Tail(q)) = Len(q) - 1 /\ Len(q) \in Nat
      /\ \A i \in 1 .. Len(Tail(q)) : Tail(q)[i] = q[i + 1]
      /\ Head(q) = q[1]
      BY HeadTailProperties
<1> QED BY <1>1 DEF Quiet

\* What a handler leaves
LEMMA ThenKeeps ==
  ASSUME WidgetTypes, NEW s, Fine(s), NEW q \in Seq(W!Events), Quiet(q), W!Then(s, q),
         focus = FALSE => LetGo(s) \/ (q # <<>> /\ q[1] = W!Focus("out")),
         focus' = focus, inputs' = inputs, over' = over
  PROVE  WidgetInv'
<1>1. s \in Widgets /\ Quiet(s.echo) /\ s.echo \in Seq(W!Events)
      BY DEF Fine, Widgets
<1>2. w' = [s EXCEPT !.echo = <<>>] /\ events' = q \o s.echo
      BY DEF W!Then
<1>3. /\ events' \in Seq(W!Events) /\ Quiet(events')
      /\ q # <<>> => events' # <<>> /\ events'[1] = q[1]
      BY <1>1, <1>2, QuietMore
<1>4. /\ w' \in Widgets /\ w'.echo = <<>>
      /\ w'.keyboard_grab_active = s.keyboard_grab_active
      /\ w'.mouse_grab_active = s.mouse_grab_active
      /\ w'.keyboard_have_focus = s.keyboard_have_focus
      /\ w'.mouse_have_pointer = s.mouse_have_pointer /\ w'.mouse_mode = s.mouse_mode
      /\ w'.keyboard_grab_released = s.keyboard_grab_released
      /\ w'.keyboard_grab_inhibit = s.keyboard_grab_inhibit
      /\ w'.key_state = s.key_state /\ w'.key_delayed = s.key_delayed /\ w'.down = s.down
      BY <1>1, <1>2, EmptySeq DEF Widgets
<1>5. Keyboard(w)' /\ KeyGrab(w)' /\ MouseGrab(w)'
      BY <1>4 DEF Fine, Keyboard, KeyGrab, MouseGrab
<1>6. Quiet(w.echo)' /\ Quiet(events)'
      BY <1>3, <1>4, EmptySeq DEF Quiet
<1>7. focus = FALSE => LetGo(w)' \/ (events' # <<>> /\ events'[1] = W!Focus("out"))
      BY <1>3, <1>4 DEF LetGo
<1>8. (w \in Widgets)'
      BY <1>4 DEF Widgets
<1>9. Fine(w)'
      BY <1>5, <1>6, <1>8 DEF Fine
<1>10. Away'
      BY <1>6, <1>7 DEF Away, W!Focus
<1> QED BY <1>3, <1>4, <1>9, <1>10 DEF WidgetInv, WidgetTypes

LEMMA ChangedKeeps ==
  ASSUME WidgetInv, NEW s, Gives(w, s), W!Changed(s), focus' = focus, inputs' = inputs, over' = over
  PROVE  WidgetInv'
<1>1. Fine(s) /\ events \in Seq(W!Events) /\ Quiet(events) /\ W!Then(s, events) /\ focus \in BOOLEAN
      BY DEF WidgetInv, WidgetTypes, Gives, Away, W!Changed
<1>2. focus = FALSE => LetGo(s) \/ (events # <<>> /\ events[1] = W!Focus("out"))
      BY DEF WidgetInv, Away, Gives
<1> QED BY <1>1, <1>2, ThenKeeps DEF WidgetInv

LEMMA HandleEventKeeps ==
  ASSUME WidgetInv, W!HandleEvent
  PROVE  WidgetInv'
<1>1. /\ events \in Seq(W!Events) /\ events # <<>> /\ Fine(w) /\ focus \in BOOLEAN
      /\ focus' = focus /\ inputs' = inputs /\ over' = over
      BY DEF W!HandleEvent, W!Still, WidgetInv, WidgetTypes
<1>2. Tail(events) \in Seq(W!Events) /\ Quiet(Tail(events)) /\ Head(events) = events[1]
      BY <1>1, QuietTail DEF WidgetInv, Away
<1>3. focus = FALSE => events[1][1] \in Unfocused
  <2>1. 1 \in 1 .. Len(events)
        BY <1>1, EmptySeq, LenProperties
  <2> QED BY <2>1 DEF WidgetInv, Away, Quiet
<1>4. focus = FALSE /\ events[1] # W!Focus("out") => LetGo(w)
      BY DEF WidgetInv, Away
<1>5. ASSUME NEW s, Fine(s), focus = FALSE => LetGo(s), W!Handled(s) PROVE WidgetInv'
  <2>1. W!Then(s, Tail(events))
        BY <1>5 DEF W!Handled
  <2> QED BY <1>1, <1>2, <1>5, <2>1, ThenKeeps DEF WidgetInv
<1>6. PICK ok \in BOOLEAN :
        \/ events[1] = W!Focus("in") /\ W!Handled(W!focus_in_event(w, ok))
        \/ events[1] = W!Focus("out") /\ W!Handled(W!focus_out_event(w))
        \/ events[1] = W!Focus("enter") /\ W!Handled(W!enter_event(w, ok))
        \/ events[1] = W!Focus("leave") /\ W!Handled(W!leave_event(w))
        \/ \E k \in Keys, t \in {"press", "release"} :
             events[1] = <<t, k>> /\ W!Handled(W!key_event(w, t, k, ok))
      BY <1>2 DEF W!HandleEvent
<1>7. CASE events[1] = W!Focus("in") /\ W!Handled(W!focus_in_event(w, ok))
  <2>1. focus = TRUE
        BY <1>1, <1>3, <1>7 DEF W!Focus, Unfocused
  <2>2. Fine(W!focus_in_event(w, ok))
        BY <1>1, <2>1, FocusInGives
  <2> QED BY <1>5, <1>7, <2>1, <2>2
<1>8. CASE events[1] = W!Focus("out") /\ W!Handled(W!focus_out_event(w))
  <2>1. Fine(W!focus_out_event(w)) /\ (focus = FALSE => LetGo(W!focus_out_event(w)))
        BY <1>1, FocusOutGives
  <2> QED BY <1>5, <1>8, <2>1
<1>9. CASE events[1] = W!Focus("enter") /\ W!Handled(W!enter_event(w, ok))
  <2>1. focus = FALSE => LetGo(w)
        BY <1>4, <1>9 DEF W!Focus
  <2>2. Gives(w, W!enter_event(w, ok))
        BY <1>1, <2>1, EnterGives DEF LetGo
  <2> QED BY <1>5, <1>9, <2>1, <2>2 DEF Gives
<1>10. CASE events[1] = W!Focus("leave") /\ W!Handled(W!leave_event(w))
  <2>1. focus = FALSE => LetGo(w)
        BY <1>4, <1>10 DEF W!Focus
  <2>2. Gives(w, W!leave_event(w))
        BY <1>1, LeaveGives
  <2> QED BY <1>5, <1>10, <2>1, <2>2 DEF Gives
<1>11. CASE \E k \in Keys, t \in {"press", "release"} :
             events[1] = <<t, k>> /\ W!Handled(W!key_event(w, t, k, ok))
  <2>1. PICK k \in Keys, t \in {"press", "release"} :
             events[1] = <<t, k>> /\ W!Handled(W!key_event(w, t, k, ok))
        BY <1>11
  <2>2. focus = TRUE
        BY <1>1, <1>3, <2>1 DEF Unfocused
  <2>3. Gives(w, W!key_event(w, t, k, ok))
        BY <1>1, <2>2, KeyEventGives
  <2> QED BY <1>5, <2>1, <2>2, <2>3 DEF Gives
<1> QED BY <1>6, <1>7, <1>8, <1>9, <1>10, <1>11

\* Pointer motion and buttons
LEMMA MotionKeeps ==
  ASSUME WidgetInv, Prompt = TRUE, W!motion_event \/ W!button_event
  PROVE  WidgetInv'
<1>1. Fine(w) /\ w \in Widgets /\ focus \in BOOLEAN
      BY DEF WidgetInv, WidgetTypes, Fine
<1>2. /\ focus' = focus /\ inputs' = inputs /\ over' = over
      /\ focus = TRUE \/ w.keyboard_have_focus = FALSE
      BY <1>1 DEF W!motion_event, W!button_event, W!Still, W!Known, Widgets
<1>3. CASE W!motion_event
  <2> DEFINE m == [w EXCEPT !.seq_pressed = FALSE]
             u == [m EXCEPT !.keyboard_grab_released = FALSE]
             k == W!release_keys(u)
  <2>1. PICK ok \in BOOLEAN : W!Changed(IF m.keyboard_grab_released /\ m.keyboard_have_focus
                                        THEN W!try_keyboard_grab(k, ok) ELSE m)
        BY <1>3 DEF W!motion_event
  <2>2. m = [w EXCEPT !.activeseq = w.activeseq, !.seq_pressed = FALSE]
        /\ w.activeseq \in SUBSET GrabKeys
        BY <1>1 DEF Widgets
  <2>3. /\ u \in Widgets /\ u.keyboard_grab_released = FALSE
        /\ u.keyboard_grab_active = w.keyboard_grab_active
        /\ u.mouse_grab_active = w.mouse_grab_active
        /\ u.keyboard_have_focus = w.keyboard_have_focus
        /\ u.mouse_have_pointer = w.mouse_have_pointer /\ u.mouse_mode = w.mouse_mode
        /\ u.keyboard_grab_inhibit = w.keyboard_grab_inhibit
        /\ u.key_state = w.key_state /\ u.key_delayed = w.key_delayed /\ u.down = w.down
        /\ u.echo = w.echo
        BY <1>1 DEF Widgets
  <2> HIDE DEF m, u
  <2>4. Gives(w, m)
        BY <1>1, <2>2, ResetGives
  <2>5. Keyboard(u) /\ KeyGrab(u) /\ MouseGrab(u) /\ Quiet(u.echo)
        BY <1>1, <2>3 DEF Fine, Keyboard, KeyGrab, MouseGrab
  <2>6. Gives(w, u)
        BY <2>3, <2>5 DEF Gives, Fine, LetGo
  <2>7. Gives(u, k)
        BY <2>6, ReleaseKeysGives DEF Gives
  <2> HIDE DEF k
  <2>8. Gives(w, k)
        BY <2>6, <2>7, GivesOn
  <2>9. Gives(k, W!try_keyboard_grab(k, ok))
        BY <1>1, <1>2, <2>8, KeyboardGrabGives DEF Gives
  <2>10. Gives(w, W!try_keyboard_grab(k, ok))
        BY <2>8, <2>9, GivesOn
  <2> QED BY <1>2, <2>1, <2>4, <2>10, ChangedKeeps
<1>4. CASE W!button_event
  <2>1. PICK ok \in BOOLEAN : W!Changed(W!try_mouse_grab(w, ok))
        BY <1>4 DEF W!button_event
  <2>2. Gives(w, W!try_mouse_grab(w, ok))
        BY <1>1, <1>2, MouseGrabGives
  <2> QED BY <1>2, <2>1, <2>2, ChangedKeeps
<1> QED BY <1>3, <1>4

\* The settings
LEMMA GrabBrokenKeeps ==
  ASSUME WidgetInv, W!grab_broken
  PROVE  WidgetInv'
<1>1. /\ Fine(w) /\ w \in Widgets /\ focus \in BOOLEAN
      /\ focus' = focus /\ inputs' = inputs /\ over' = over
      BY DEF WidgetInv, WidgetTypes, Fine, W!grab_broken
<1> DEFINE u == W!try_keyboard_ungrab(w)
           r == W!release_keys(u)
<1>2. W!Changed(W!try_mouse_ungrab(r)) \/ W!Changed(W!try_mouse_ungrab(w))
      BY DEF W!grab_broken
<1>3. Gives(w, u)
      BY <1>1, KeyboardUngrabGives DEF Fine, KeyGrab
<1> HIDE DEF u
<1>4. Gives(u, r)
      BY <1>3, ReleaseKeysGives DEF Gives
<1> HIDE DEF r
<1>5. Gives(w, r)
      BY <1>3, <1>4, GivesOn
<1>6. Gives(r, W!try_mouse_ungrab(r)) /\ Gives(w, W!try_mouse_ungrab(w))
      BY <1>1, <1>5, MouseUngrabGives DEF Gives, Fine
<1>7. Gives(w, W!try_mouse_ungrab(r))
      BY <1>5, <1>6, GivesOn
<1> QED BY <1>1, <1>2, <1>6, <1>7, ChangedKeeps

LEMMA InhibitKeeps ==
  ASSUME WidgetInv, Prompt = TRUE, W!inhibit_changed
  PROVE  WidgetInv'
<1> DEFINE s == [w EXCEPT !.keyboard_grab_inhibit = ~w.keyboard_grab_inhibit]
           u == W!try_keyboard_ungrab(s)
<1>1. /\ Fine(w) /\ w \in Widgets /\ focus \in BOOLEAN
      /\ focus' = focus /\ inputs' = inputs /\ over' = over
      /\ focus = TRUE \/ w.keyboard_have_focus = FALSE
      BY DEF WidgetInv, WidgetTypes, Fine, W!inhibit_changed, W!Flip, W!Known, Widgets
<1>2. PICK ok \in BOOLEAN :
        W!Changed(IF s.keyboard_grab_inhibit THEN W!try_mouse_ungrab(u)
                  ELSE W!try_mouse_grab(W!try_keyboard_grab(s, ok), ok))
      BY DEF W!inhibit_changed, W!Ungrabbed
<1>3. /\ s \in Widgets
      /\ s.keyboard_grab_active = w.keyboard_grab_active
      /\ s.mouse_grab_active = w.mouse_grab_active
      /\ s.keyboard_have_focus = w.keyboard_have_focus
      /\ s.mouse_have_pointer = w.mouse_have_pointer /\ s.mouse_mode = w.mouse_mode
      /\ s.keyboard_grab_released = w.keyboard_grab_released
      /\ s.key_state = w.key_state /\ s.key_delayed = w.key_delayed /\ s.down = w.down
      /\ s.echo = w.echo
      BY <1>1 DEF Widgets
<1> HIDE DEF s
<1>4. Keyboard(s) /\ MouseGrab(s) /\ Quiet(s.echo)
      BY <1>1, <1>3 DEF Fine, Keyboard, MouseGrab
<1>5. focus = FALSE /\ LetGo(w) => LetGo(s)
      BY <1>3 DEF LetGo
<1>6. CASE s.keyboard_grab_inhibit = TRUE
  <2>1. Gives(s, u)
        BY <1>1, <1>3, <1>4, KeyboardUngrabGives DEF Fine, KeyGrab
  <2> HIDE DEF u
  <2>2. Gives(u, W!try_mouse_ungrab(u))
        BY <2>1, MouseUngrabGives DEF Gives, Fine
  <2>3. Gives(w, W!try_mouse_ungrab(u))
        BY <1>3, <1>5, <2>1, <2>2 DEF Gives
  <2> QED BY <1>1, <1>2, <1>6, <2>3, ChangedKeeps
<1>7. CASE s.keyboard_grab_inhibit = FALSE
  <2> DEFINE k == W!try_keyboard_grab(s, ok)
  <2>1. KeyGrab(s)
        BY <1>1, <1>3, <1>7 DEF Fine, KeyGrab
  <2>2. Gives(w, s)
        BY <1>3, <1>4, <1>5, <2>1 DEF Gives, Fine
  <2>3. Gives(s, k)
        BY <1>1, <1>3, <2>2, KeyboardGrabGives DEF Gives
  <2> HIDE DEF k
  <2>4. Gives(w, k)
        BY <2>2, <2>3, GivesOn
  <2>5. Gives(k, W!try_mouse_grab(k, ok))
        BY <1>1, <2>4, MouseGrabGives DEF Gives
  <2>6. Gives(w, W!try_mouse_grab(k, ok))
        BY <2>4, <2>5, GivesOn
  <2>7. W!Changed(W!try_mouse_grab(k, ok))
        BY <1>2, <1>7 DEF k
  <2> QED BY <1>1, <2>6, <2>7, ChangedKeeps
<1> QED BY <1>3, <1>6, <1>7 DEF Widgets

LEMMA MouseModeKeeps ==
  ASSUME WidgetInv, Prompt = TRUE, W!update_mouse_mode
  PROVE  WidgetInv'
<1> DEFINE m == IF w.mouse_mode = "server" THEN "client" ELSE "server"
           s == [w EXCEPT !.mouse_mode = m]
<1>1. /\ Fine(w) /\ w \in Widgets /\ focus \in BOOLEAN
      /\ focus' = focus /\ inputs' = inputs /\ over' = over
      /\ focus = TRUE \/ w.keyboard_have_focus = FALSE
      BY DEF WidgetInv, WidgetTypes, Fine, W!update_mouse_mode, W!Flip, W!Known, Widgets
<1>2. PICK ok \in BOOLEAN, pressed \in BOOLEAN :
        W!Changed(IF s.mouse_mode = "client" THEN W!try_mouse_ungrab(s)
                  ELSE IF pressed THEN W!try_mouse_grab(s, ok) ELSE s)
      BY DEF W!update_mouse_mode
<1>3. /\ s \in Widgets /\ s.mouse_mode = m /\ m \in {"client", "server"}
      /\ s.keyboard_grab_active = w.keyboard_grab_active
      /\ s.mouse_grab_active = w.mouse_grab_active
      /\ s.keyboard_have_focus = w.keyboard_have_focus
      /\ s.mouse_have_pointer = w.mouse_have_pointer
      /\ s.keyboard_grab_released = w.keyboard_grab_released
      /\ s.keyboard_grab_inhibit = w.keyboard_grab_inhibit
      /\ s.key_state = w.key_state /\ s.key_delayed = w.key_delayed /\ s.down = w.down
      /\ s.echo = w.echo
      BY <1>1 DEF Widgets, W!Modes
<1> HIDE DEF s
<1>4. Keyboard(s) /\ KeyGrab(s) /\ Quiet(s.echo)
      BY <1>1, <1>3 DEF Fine, Keyboard, KeyGrab
<1>5. focus = FALSE /\ LetGo(w) => LetGo(s)
      BY <1>3 DEF LetGo
<1>6. CASE m = "client"
  <2>1. Gives(s, W!try_mouse_ungrab(s))
        BY <1>3, <1>4, MouseUngrabGives
  <2>2. Gives(w, W!try_mouse_ungrab(s))
        BY <1>3, <1>5, <2>1 DEF Gives
  <2> QED BY <1>1, <1>2, <1>3, <1>6, <2>2, ChangedKeeps
<1>7. CASE m = "server"
  <2>1. MouseGrab(s)
        BY <1>1, <1>3, <1>7 DEF Fine, MouseGrab
  <2>2. Gives(w, s)
        BY <1>3, <1>4, <1>5, <2>1 DEF Gives, Fine
  <2>3. Gives(s, W!try_mouse_grab(s, ok))
        BY <1>1, <1>3, <2>2, MouseGrabGives DEF Gives
  <2>4. Gives(w, W!try_mouse_grab(s, ok))
        BY <2>2, <2>3, GivesOn
  <2> QED BY <1>1, <1>2, <1>3, <1>7, <2>2, <2>4, ChangedKeeps
<1> QED BY <1>3, <1>6, <1>7

LEMMA InputsChangeKeeps ==
  ASSUME WidgetInv, W!InputsChange
  PROVE  WidgetInv'
<1>1. /\ Fine(w) /\ w \in Widgets /\ focus' = focus /\ over' = over /\ events' = events
      /\ inputs' \in {"none", "off", "ready"} /\ w' = [w EXCEPT !.down = {}]
      /\ inputs' = "ready" => w.key_delayed = nothing
      BY DEF WidgetInv, Fine, W!InputsChange
<1>2. /\ w' \in Widgets /\ w'.down = {} /\ w'.echo = w.echo
      /\ w'.keyboard_grab_active = w.keyboard_grab_active
      /\ w'.mouse_grab_active = w.mouse_grab_active
      /\ w'.keyboard_have_focus = w.keyboard_have_focus
      /\ w'.mouse_have_pointer = w.mouse_have_pointer /\ w'.mouse_mode = w.mouse_mode
      /\ w'.keyboard_grab_released = w.keyboard_grab_released
      /\ w'.keyboard_grab_inhibit = w.keyboard_grab_inhibit
      /\ w'.key_state = w.key_state /\ w'.key_delayed = w.key_delayed
      BY <1>1 DEF Widgets
<1>3. Keyboard(w)' /\ KeyGrab(w)' /\ MouseGrab(w)' /\ Quiet(w.echo)'
      BY <1>1, <1>2 DEF Fine, Keyboard, KeyGrab, MouseGrab, Quiet
<1>4. (w \in Widgets)'
      BY <1>2 DEF Widgets
<1>5. LetGo(w) => LetGo(w)'
      BY <1>1, <1>2 DEF LetGo
<1>6. Away'
      BY <1>1, <1>5 DEF WidgetInv, Away, Quiet, W!Focus
<1>7. WidgetTypes'
      BY <1>1, <1>2 DEF WidgetInv, WidgetTypes
<1> QED BY <1>3, <1>4, <1>6, <1>7 DEF WidgetInv, Fine

\* The window system
LEMMA OneEvent ==
  ASSUME NEW e \in {"in", "out", "enter", "leave"}
  PROVE  LET q == Append(<<>>, W!Focus(e))
         IN  /\ q \in Seq(W!Events) /\ q # <<>> /\ q[1] = W!Focus(e) /\ W!Focus(e)[1] = e
             /\ \A i \in 1 .. Len(q) : q[i] = W!Focus(e)
<1>1. W!Focus(e) \in W!Events /\ W!Focus(e)[1] = e
      BY DEF W!Focus, W!Events
<1>2. <<>> \in Seq(W!Events) /\ Len(<<>>) = 0
      BY EmptySeq
<1>3. /\ Append(<<>>, W!Focus(e)) \in Seq(W!Events)
      /\ Len(Append(<<>>, W!Focus(e))) = 1
      /\ Append(<<>>, W!Focus(e))[1] = W!Focus(e)
      BY <1>1, <1>2, AppendProperties
<1>4. Append(<<>>, W!Focus(e)) # <<>>
      BY <1>2, <1>3
<1> QED BY <1>1, <1>3, <1>4

LEMMA FocusMovesKeeps ==
  ASSUME WidgetInv, Prompt = TRUE, W!FocusMoves
  PROVE  WidgetInv'
<1>1. /\ Fine(w) /\ w \in Widgets /\ w.echo = <<>> /\ focus \in BOOLEAN /\ events = <<>>
      /\ w.keyboard_grab_active = FALSE /\ inputs' = inputs /\ over' = over /\ w' = w
      /\ focus' \in BOOLEAN
      BY DEF WidgetInv, WidgetTypes, Fine, W!FocusMoves, W!Move, Widgets
<1>2. PICK e \in {"in", "out"} : /\ focus' = FALSE => e = "out"
                                 /\ events' = Append(<<>>, W!Focus(e))
      BY <1>1 DEF W!FocusMoves
<1>3. /\ events' \in Seq(W!Events) /\ events' # <<>> /\ events'[1] = W!Focus(e)
      /\ W!Focus(e)[1] = e /\ \A i \in 1 .. Len(events') : events'[i] = W!Focus(e)
      BY <1>2, OneEvent
<1>4. Away'
      BY <1>2, <1>3 DEF Away, Quiet, Unfocused, W!Focus
<1>5. Keyboard(w)' /\ KeyGrab(w)' /\ MouseGrab(w)'
      BY <1>1 DEF Fine, Keyboard, KeyGrab, MouseGrab
<1>6. Quiet(w.echo)'
      BY <1>1, EmptySeq DEF Quiet
<1>7. (w \in Widgets)'
      BY <1>1 DEF Widgets
<1>8. WidgetTypes'
      BY <1>1, <1>3 DEF WidgetInv, WidgetTypes
<1> QED BY <1>4, <1>5, <1>6, <1>7, <1>8 DEF WidgetInv, Fine

LEMMA PointerMovesKeeps ==
  ASSUME WidgetInv, Prompt = TRUE, W!PointerMoves
  PROVE  WidgetInv'
<1>1. /\ Fine(w) /\ events = <<>> /\ inputs' = inputs /\ focus' = focus /\ w' = w
      /\ over' \in BOOLEAN
      BY DEF WidgetInv, WidgetTypes, W!PointerMoves, W!Move
<1>2. PICK e \in {"enter", "leave"} : events' = Append(<<>>, W!Focus(e))
      BY <1>1 DEF W!PointerMoves
<1>3. /\ events' \in Seq(W!Events)
      /\ W!Focus(e)[1] = e /\ \A i \in 1 .. Len(events') : events'[i] = W!Focus(e)
      BY <1>2, OneEvent
<1>4. focus = FALSE => LetGo(w)
      BY <1>1 DEF WidgetInv, Away
<1>5. Away'
      BY <1>1, <1>2, <1>3, <1>4 DEF Away, Quiet, Unfocused, LetGo
<1>6. Fine(w)'
      BY <1>1 DEF Fine, Keyboard, KeyGrab, MouseGrab, Quiet, Widgets
<1> QED BY <1>1, <1>3, <1>5, <1>6 DEF WidgetInv, WidgetTypes

LEMMA KeyMovesKeeps ==
  ASSUME WidgetInv, W!KeyMoves
  PROVE  WidgetInv'
<1>1. /\ Fine(w) /\ inputs' = inputs /\ focus' = focus /\ w' = w /\ over' = over
      /\ focus = TRUE /\ events \in Seq(W!Events)
      BY DEF WidgetInv, WidgetTypes, W!KeyMoves, Fine, KeyGrab, Widgets
<1>2. PICK e \in {"press", "release"} \X Keys : events' = Append(events, e)
      BY DEF W!KeyMoves
<1>3. events' \in Seq(W!Events)
      BY <1>1, <1>2, AppendProperties DEF W!Events
<1>4. Away'
      BY <1>1 DEF Away, Quiet
<1>5. Fine(w)'
      BY <1>1 DEF Fine, Keyboard, KeyGrab, MouseGrab, Quiet, Widgets
<1> QED BY <1>1, <1>3, <1>4, <1>5 DEF WidgetInv, WidgetTypes

LEMMA InitWidgetInv == W!Init => WidgetInv
<1> SUFFICES ASSUME W!Init PROVE WidgetInv
    OBVIOUS
<1>1. w \in Widgets
      BY EmptySeq DEF W!Init, Widgets, W!Modes
<1>2. Keyboard(w) /\ KeyGrab(w) /\ MouseGrab(w)
      BY DEF W!Init, Keyboard, KeyGrab, MouseGrab
<1>3. Quiet(w.echo) /\ Quiet(events) /\ events \in Seq(W!Events)
      BY EmptySeq DEF W!Init, Quiet
<1>4. LetGo(w)
      BY DEF W!Init, LetGo
<1> QED BY <1>1, <1>2, <1>3, <1>4 DEF WidgetInv, WidgetTypes, Fine, Away, W!Init

LEMMA WidgetNext ==
  ASSUME WidgetInv, Prompt = TRUE, [W!Next]_(W!vars)
  PROVE  WidgetInv'
<1>1. CASE UNCHANGED W!vars
      BY <1>1 DEF W!vars, WidgetInv, WidgetTypes, Fine, Away, Keyboard, KeyGrab, MouseGrab,
                  Quiet, Widgets, LetGo, W!Focus
<1>2. CASE W!KeyTimer \/ W!grab_notify
  <2>1. /\ Fine(w) /\ focus' = focus /\ inputs' = inputs /\ over' = over
        /\ W!Changed(W!key_press_delayed(w)) \/ W!Changed(W!release_keys(w))
        BY <1>2 DEF WidgetInv, W!KeyTimer, W!grab_notify, W!Still
  <2>2. Gives(w, W!key_press_delayed(w)) /\ Gives(w, W!release_keys(w))
        BY <2>1, DelayedGives, ReleaseKeysGives
  <2> QED BY <2>1, <2>2, ChangedKeeps
<1> QED BY <1>1, <1>2, HandleEventKeeps, MotionKeeps, GrabBrokenKeeps, InhibitKeeps,
           MouseModeKeeps, InputsChangeKeeps, FocusMovesKeeps, PointerMovesKeeps, KeyMovesKeeps
           DEF W!Next

LEMMA WidgetSays == WidgetInv => W!Remembered /\ W!NoKeyLeft /\ W!GrabsAllowed
<1> SUFFICES ASSUME WidgetInv PROVE W!Remembered /\ W!NoKeyLeft /\ W!GrabsAllowed
    OBVIOUS
<1>1. W!Remembered
      BY NoKey DEF WidgetInv, Fine, Keyboard, W!Remembered
<1>2. W!NoKeyLeft
      BY DEF WidgetInv, WidgetTypes, Away, LetGo, W!NoKeyLeft
<1>3. W!GrabsAllowed
      BY DEF WidgetInv, WidgetTypes, Fine, KeyGrab, MouseGrab, Widgets, W!GrabsAllowed
<1> QED BY <1>1, <1>2, <1>3

-----------------------------------------------------------------------------
(* The USB widget *)

Reqs == {calls[i] : i \in DOMAIN calls}
Opening(d) == \E x \in Reqs : x.dev = d /\ x.kind # "disconnect" /\ x.state = "running"
Failed(d) == \E x \in Reqs : x.dev = d /\ x.kind = "connect" /\ x.state = "error"
Closing(d) == \E x \in Reqs : x.dev = d /\ x.kind = "disconnect" /\ x.state = "running"

UsbTypes ==
  /\ calls \in Seq(U!Calls)
  /\ plug \in [Devices -> {"away", "here", "gone"}]
  /\ held \in [Devices -> {"no", "asked", "yes", "leaving"}]
  /\ box \in [Devices -> {"none", "on", "off"}]
  /\ redirecting \in BOOLEAN /\ own \subseteq Devices /\ open \in BOOLEAN

\* Who waits is asked for, the manager redirects for somebody, and whom it told the widget of
UsbAsked ==
  /\ \A u \in Devices : held[u] \in {"asked", "leaving"} => Opening(u)
  /\ \A u \in Devices : plug[u] = "away" => held[u] = "no" /\ \A x \in Reqs : x.dev # u
  /\ redirecting => \E x \in Reqs : x.kind # "onconnect"
  /\ ~open => \A x \in Reqs : x.kind \in U!Own
  /\ \A x \in Reqs : x.kind \in U!Own => (~open \/ x.dev \in own)

\* A box that is not what its device is has the request coming that ends the difference.
UsbBoxes ==
  /\ \A u \in Devices : box[u] # "none" <=> open /\ plug[u] = "here"
  /\ \A u \in Devices : Closing(u) => box[u] # "on"
  /\ \A u \in Devices \ own : open /\ plug[u] = "here" =>
       /\ box[u] = "on" /\ held[u] = "no" => Failed(u)
       /\ box[u] = "off" /\ held[u] \in {"asked", "yes"} => Closing(u)
       /\ Failed(u) => held[u] \notin {"asked", "yes"}

UsbInv == UsbTypes /\ UsbAsked /\ UsbBoxes /\ U!BoxesAreLive

\* The requests after one more, one fewer, and one that has ended
LEMMA ReqsAppend ==
  ASSUME UsbTypes, NEW r \in U!Calls, calls' = Append(calls, r)
  PROVE  calls' \in Seq(U!Calls) /\ Reqs' = Reqs \cup {r} /\ calls' # <<>>
<1>1. PICK n \in Nat : n = Len(calls) /\ DOMAIN calls = 1 .. n
      BY LenProperties DEF UsbTypes
<1>2. PICK z : z = calls'
      OBVIOUS
<1>3. /\ z \in Seq(U!Calls) /\ Len(z) = n + 1 /\ z[n + 1] = r
      /\ \A i \in 1 .. n : z[i] = calls[i]
      BY <1>1, <1>2, AppendProperties DEF UsbTypes
<1>4. DOMAIN z = 1 .. n + 1
      BY <1>3, LenProperties
<1>5. {z[i] : i \in 1 .. n + 1} = {calls[i] : i \in 1 .. n} \cup {r}
  <2>1. \A i \in 1 .. n + 1 : i \in 1 .. n \/ i = n + 1
        OBVIOUS
  <2>2. \A i \in 1 .. n : i \in 1 .. n + 1
        OBVIOUS
  <2>3. n + 1 \in 1 .. n + 1
        OBVIOUS
  <2> QED BY <1>3, <2>1, <2>2, <2>3
<1>6. z # <<>>
      BY <1>3, EmptySeq
<1> QED BY <1>1, <1>2, <1>3, <1>4, <1>5, <1>6 DEF Reqs

LEMMA ReqsRemove ==
  ASSUME UsbTypes, NEW i \in DOMAIN calls, calls' = U!RemoveAt(calls, i)
  PROVE  calls' \in Seq(U!Calls) /\ Reqs' \subseteq Reqs /\ Reqs \ {calls[i]} \subseteq Reqs'
<1>1. PICK n \in Nat : n = Len(calls) /\ DOMAIN calls = 1 .. n
      BY LenProperties DEF UsbTypes
<1>2. i \in 1 .. n /\ calls \in Seq(U!Calls)
      BY <1>1 DEF UsbTypes
<1>3. PICK a : a = SubSeq(calls, 1, i - 1)
      OBVIOUS
<1>4. PICK b : b = SubSeq(calls, i + 1, n)
      OBVIOUS
<1>5. /\ a \in Seq(U!Calls) /\ Len(a) = i - 1
      /\ \A k \in 1 .. i - 1 : a[k] = calls[k]
      BY <1>1, <1>2, <1>3, SubSeqProperties
<1>6. /\ b \in Seq(U!Calls) /\ Len(b) = n - i
      /\ \A k \in 1 .. n - i : b[k] = calls[i + k]
  <2>1. i + 1 \in 1 .. n + 1 /\ n - i \in Nat /\ n \in (i + 1) - 1 .. Len(calls)
        BY <1>1, <1>2
  <2>2. \A k \in 1 .. n - i : ((i + 1) + k) - 1 = i + k
        BY <1>2
  <2>3. n - (i + 1) + 1 = n - i
        BY <1>2
  <2>4. b \in Seq(U!Calls) /\ Len(b) = n - (i + 1) + 1
        BY <1>1, <1>2, <1>4, <2>1, SubSeqProperties
  <2>5. \A k \in 1 .. n - (i + 1) + 1 : b[k] = calls[((i + 1) + k) - 1]
        BY <1>1, <1>2, <1>4, <2>1, SubSeqProperties, SMTT(20)
  <2> QED BY <2>2, <2>3, <2>4, <2>5
<1>7. PICK z : z = calls' /\ z = a \o b
      BY <1>1, <1>3, <1>4 DEF U!RemoveAt
<1>8. /\ z \in Seq(U!Calls) /\ Len(z) = n - 1
      /\ \A k \in 1 .. n - 1 : z[k] = IF k <= i - 1 THEN a[k] ELSE b[k - (i - 1)]
  <2>1. /\ z \in Seq(U!Calls) /\ Len(z) = Len(a) + Len(b)
        /\ \A k \in 1 .. Len(a) + Len(b) : z[k] = IF k <= Len(a) THEN a[k] ELSE b[k - Len(a)]
        BY <1>5, <1>6, <1>7, ConcatProperties
  <2>2. Len(a) + Len(b) = n - 1
        BY <1>2, <1>5, <1>6
  <2> QED BY <1>5, <2>1, <2>2
<1>9. \A k \in 1 .. n - 1 : z[k] = IF k <= i - 1 THEN calls[k] ELSE calls[k + 1]
  <2> TAKE k \in 1 .. n - 1
  <2>1. CASE k <= i - 1
        BY <1>5, <1>8, <2>1
  <2>2. CASE ~(k <= i - 1)
    <3>1. k - (i - 1) \in 1 .. n - i /\ i + (k - (i - 1)) = k + 1
          BY <1>2, <2>2
    <3> QED BY <1>6, <1>8, <2>2, <3>1
  <2> QED BY <2>1, <2>2
<1>10. DOMAIN z = 1 .. n - 1
       BY <1>8, LenProperties
<1>11. ASSUME NEW k \in 1 .. n - 1 PROVE z[k] \in {calls[j] : j \in 1 .. n}
  <2>1. k \in 1 .. n /\ k + 1 \in 1 .. n
        OBVIOUS
  <2> QED BY <1>9, <2>1
<1>12. ASSUME NEW k \in 1 .. n, k # i PROVE calls[k] \in {z[j] : j \in 1 .. n - 1}
  <2>1. CASE k < i
    <3>1. k \in 1 .. n - 1 /\ k <= i - 1
          BY <1>2, <2>1
    <3> QED BY <1>9, <3>1
  <2>2. CASE k > i
    <3>1. k - 1 \in 1 .. n - 1 /\ ~(k - 1 <= i - 1) /\ (k - 1) + 1 = k
          BY <1>2, <2>2
    <3>2. z[k - 1] = calls[k]
          BY <1>9, <3>1
    <3> QED BY <3>1, <3>2
  <2> QED BY <1>2, <1>12, <2>1, <2>2
<1>13. Reqs = {calls[j] : j \in 1 .. n} /\ Reqs' = {z[j] : j \in 1 .. n - 1}
       BY <1>1, <1>7, <1>10 DEF Reqs
<1> QED BY <1>7, <1>8, <1>11, <1>12, <1>13

LEMMA ReqsEnded ==
  ASSUME UsbTypes, NEW i \in DOMAIN calls, NEW s \in {"ok", "error"},
         calls' = [calls EXCEPT ![i].state = s]
  PROVE  /\ calls' \in Seq(U!Calls) /\ calls' # <<>>
         /\ \A y \in Reqs' : \/ y \in Reqs
                             \/ y.kind = calls[i].kind /\ y.dev = calls[i].dev /\ y.state = s
         /\ Reqs \ {calls[i]} \subseteq Reqs'
         /\ \E y \in Reqs' : y.kind = calls[i].kind /\ y.dev = calls[i].dev /\ y.state = s
<1>1. PICK n \in Nat : n = Len(calls) /\ DOMAIN calls = 1 .. n
      BY LenProperties DEF UsbTypes
<1>2. i \in 1 .. n /\ calls \in [1 .. n -> U!Calls]
      BY <1>1, LenProperties DEF UsbTypes
<1>3. PICK x \in U!Calls : x = calls[i]
      BY <1>2
<1>4. PICK y \in U!Calls : /\ y = [x EXCEPT !.state = s]
                            /\ y.kind = x.kind /\ y.dev = x.dev /\ y.state = s
  <2> DEFINE y == [x EXCEPT !.state = s]
  <2>1. y \in U!Calls /\ y.kind = x.kind /\ y.dev = x.dev /\ y.state = s
        BY DEF U!Calls
  <2> QED BY <2>1
<1>5. PICK z : z = calls'
      OBVIOUS
<1>6. z = [calls EXCEPT ![i] = y]
      BY <1>2, <1>3, <1>4, <1>5
<1>7. z \in [1 .. n -> U!Calls]
      BY <1>2, <1>4, <1>6
<1>8. z \in Seq(U!Calls) /\ DOMAIN z = 1 .. n
      BY <1>7
<1>9. z # <<>>
      BY <1>2, <1>8, EmptySeq
<1>10. \A j \in 1 .. n : z[j] = IF j = i THEN y ELSE calls[j]
       BY <1>2, <1>6
<1>11. Reqs = {calls[j] : j \in 1 .. n} /\ Reqs' = {z[j] : j \in 1 .. n}
       BY <1>1, <1>5, <1>8 DEF Reqs
<1>12. y \in Reqs' /\ (\A v \in Reqs' : v \in Reqs \/ v = y) /\ Reqs \ {calls[i]} \subseteq Reqs'
       BY <1>2, <1>10, <1>11
<1>13. y.kind = calls[i].kind /\ y.dev = calls[i].dev /\ y.state = s
       BY <1>3, <1>4
<1>14. calls' \in Seq(U!Calls) /\ calls' # <<>>
       BY <1>5, <1>8, <1>9
<1>15. \A v \in Reqs' : \/ v \in Reqs
                        \/ v.kind = calls[i].kind /\ v.dev = calls[i].dev /\ v.state = s
       BY <1>12, <1>13
<1>16. \E v \in Reqs' : v.kind = calls[i].kind /\ v.dev = calls[i].dev /\ v.state = s
       BY <1>12, <1>13
<1> QED BY <1>12, <1>14, <1>15, <1>16

LEMMA NoReqs ==
  ASSUME UsbTypes
  PROVE  /\ calls # <<>> => Reqs # {}
         /\ Reqs \subseteq U!Calls
         /\ \A i \in DOMAIN calls : calls[i] \in Reqs
         /\ U!ToSet(calls) = Reqs
<1>1. PICK n \in Nat : n = Len(calls) /\ DOMAIN calls = 1 .. n
      BY LenProperties DEF UsbTypes
<1>2. calls # <<>> => n # 0
      BY <1>1, EmptySeq DEF UsbTypes
<1>3. n # 0 => 1 \in 1 .. n
      OBVIOUS
<1>4. Reqs \subseteq U!Calls
      BY <1>1, ElementOfSeq DEF Reqs, UsbTypes
<1>5. \A i \in DOMAIN calls : calls[i] \in Reqs
      BY DEF Reqs
<1>6. U!ToSet(calls) = Reqs
      BY DEF Reqs, U!ToSet
<1>7. calls # <<>> => Reqs # {}
      BY <1>1, <1>2, <1>3, <1>5
<1> QED BY <1>4, <1>5, <1>6, <1>7

LEMMA InitUsbInv == U!Init => UsbInv
<1> SUFFICES ASSUME U!Init PROVE UsbInv
    OBVIOUS
<1>1. /\ plug = [u \in Devices |-> "away"] /\ held = [u \in Devices |-> "no"]
      /\ redirecting = FALSE /\ calls = <<>> /\ open = FALSE /\ own = {}
      /\ box = [u \in Devices |-> "none"] /\ clickable = [u \in Devices |-> FALSE]
      BY DEF U!Init
<1>2. Reqs = {}
      BY <1>1, EmptySeq DEF Reqs
<1>3. UsbTypes
      BY <1>1, EmptySeq DEF UsbTypes
<1>4. UsbAsked /\ UsbBoxes /\ U!BoxesAreLive
      BY <1>1, <1>2 DEF UsbAsked, UsbBoxes, U!BoxesAreLive, Closing, Opening, Failed
<1> QED BY <1>3, <1>4 DEF UsbInv

\* What update_status makes of the boxes
LEMMA StatusKeeps ==
  ASSUME UsbTypes', UsbAsked', UsbBoxes', U!update_status
  PROVE  UsbInv'
<1> SUFFICES ASSUME open', calls' = <<>>
             PROVE  /\ bar' # "redirecting"
                    /\ \A u \in Devices : plug'[u] = "here" => (clickable'[u] <=> U!CanRedirect(u)')
    BY DEF UsbInv, U!BoxesAreLive
<1>1. Reqs' = {}
      BY EmptySeq DEF Reqs
<1>2. redirecting' = FALSE
      BY <1>1 DEF UsbTypes, UsbAsked
<1> DEFINE boxes == {u \in Devices : box'[u] # "none"}
<1>3. /\ clickable' = [u \in Devices |-> u \in boxes /\ ~redirecting' /\ U!CanRedirect(u)']
      /\ bar' = CASE boxes = {}   -> "empty"
                  [] boxes # {} /\ redirecting' -> "redirecting"
                  [] boxes # {} /\ ~redirecting' ->
                       IF \E d \in boxes : ~U!CanRedirect(d)' THEN "error" ELSE "none"
      BY DEF U!update_status
<1>4. \A u \in Devices : plug'[u] = "here" => u \in boxes
      BY DEF UsbBoxes
<1>5. \A u \in Devices : plug'[u] = "here" => (clickable'[u] <=> U!CanRedirect(u)')
      BY <1>2, <1>3, <1>4
<1>6. bar' # "redirecting"
  <2>1. CASE boxes = {}
    <3>1. bar' = "empty"
          BY <1>3, <2>1
    <3> QED BY <3>1
  <2>2. CASE boxes # {}
    <3>1. bar' = IF \E d \in boxes : ~U!CanRedirect(d)' THEN "error" ELSE "none"
          BY <1>2, <1>3, <2>2
    <3> QED BY <3>1
  <2> QED BY <2>1, <2>2
<1> QED BY <1>5, <1>6

\* One more request, of kind k for device d
LEMMA NewRequest ==
  ASSUME UsbTypes, NEW d \in Devices, NEW k \in U!Kinds, NEW st,
         st \in {"running", "ok", "error"},
         calls' = Append(calls, [kind |-> k, dev |-> d, state |-> st])
  PROVE  \E r \in U!Calls :
           /\ r.kind = k /\ r.dev = d /\ r.state = st
           /\ calls' \in Seq(U!Calls) /\ Reqs' = Reqs \cup {r} /\ calls' # <<>>
<1> DEFINE r == [kind |-> k, dev |-> d, state |-> st]
<1>1. r \in U!Calls /\ r.kind = k /\ r.dev = d /\ r.state = st
      BY DEF U!Calls
<1>2. calls' = Append(calls, r)
      OBVIOUS
<1> HIDE DEF r
<1>3. calls' \in Seq(U!Calls) /\ Reqs' = Reqs \cup {r} /\ calls' # <<>>
      BY <1>1, <1>2, ReqsAppend
<1> QED BY <1>1, <1>3

\* The widget
LEMMA ClickKeeps ==
  ASSUME UsbInv, UsbPrompt = TRUE, NEW d \in Devices, U!Click(d)
  PROVE  UsbInv'
<1>1. \A x \in Reqs : x.kind # "disconnect" /\ x.state = "running"
      BY NoReqs DEF U!Click, U!Asking, UsbInv
<1>2. /\ plug' = plug /\ open' = open /\ own' = own /\ U!update_status
      /\ open = TRUE /\ plug[d] = "here"
      /\ \/ /\ box[d] = "off" /\ box' = [box EXCEPT ![d] = "on"]
            /\ U!Connect("connect", d) /\ redirecting' = TRUE
         \/ /\ box[d] = "on" /\ box' = [box EXCEPT ![d] = "off"]
            /\ U!Disconnect(d, held) /\ held' = held
      BY DEF U!Click, UsbInv, UsbTypes, UsbBoxes
<1>3. \A u \in Devices : ~Failed(u) /\ ~Closing(u)
      BY <1>1 DEF Failed, Closing
<1>4. CASE /\ box[d] = "off" /\ box' = [box EXCEPT ![d] = "on"]
           /\ U!Connect("connect", d) /\ redirecting' = TRUE
  <2>1. held[d] \in {"no", "leaving"} \/ d \in own
        BY <1>2, <1>3, <1>4 DEF UsbInv, UsbTypes, UsbBoxes
  <2>2. PICK st \in {"running", "error"} :
          /\ calls' = Append(calls, [kind |-> "connect", dev |-> d, state |-> st])
          /\ st = "error" => held' = held
          /\ st = "running" => held[d] = "no" /\ held' = [held EXCEPT ![d] = "asked"]
        BY <1>4 DEF U!Connect
  <2>7. PICK k \in U!Kinds : k = "connect"
        BY DEF U!Kinds
  <2>8. calls' = Append(calls, [kind |-> k, dev |-> d, state |-> st])
        BY <2>2, <2>7
  <2>3. PICK r \in U!Calls :
          /\ r.kind = "connect" /\ r.dev = d /\ r.state = st
          /\ calls' \in Seq(U!Calls) /\ Reqs' = Reqs \cup {r} /\ calls' # <<>>
    <3>1. UsbTypes
          BY DEF UsbInv
    <3>2. st \in {"running", "ok", "error"}
          OBVIOUS
    <3>3. \E r \in U!Calls :
            /\ r.kind = k /\ r.dev = d /\ r.state = st
            /\ calls' \in Seq(U!Calls) /\ Reqs' = Reqs \cup {r} /\ calls' # <<>>
          BY ONLY <3>1, <3>2, <2>8, NewRequest, k \in U!Kinds, d \in Devices
    <3> QED BY <2>7, <3>3
  <2>4. UsbTypes'
        BY <1>2, <1>4, <2>2, <2>3 DEF UsbInv, UsbTypes
  <2>5. UsbAsked'
        BY <1>2, <1>4, <2>2, <2>3 DEF UsbInv, UsbTypes, UsbAsked, Opening, U!Own
  <2>6. UsbBoxes'
        BY <1>1, <1>2, <1>3, <1>4, <2>1, <2>2, <2>3
        DEF UsbInv, UsbTypes, UsbBoxes, Failed, Closing
  <2> QED BY <1>2, <2>4, <2>5, <2>6, StatusKeeps
<1>5. CASE /\ box[d] = "on" /\ box' = [box EXCEPT ![d] = "off"]
           /\ U!Disconnect(d, held) /\ held' = held
  <2>1. CASE held[d] = "no"
    <3>1. calls' = calls /\ redirecting' = redirecting
          BY <1>5, <2>1 DEF U!Disconnect
    <3>2. Reqs' = Reqs
          BY <3>1 DEF Reqs
    <3>3. UsbTypes' /\ UsbAsked'
          BY <1>2, <1>5, <3>1, <3>2 DEF UsbInv, UsbTypes, UsbAsked, Opening
    <3>4. UsbBoxes'
          BY <1>2, <1>3, <1>5, <2>1, <3>2 DEF UsbInv, UsbTypes, UsbBoxes, Failed, Closing
    <3> QED BY <1>2, <3>3, <3>4, StatusKeeps
  <2>2. CASE held[d] # "no"
    <3>1. /\ calls' = Append(calls, [kind |-> "disconnect", dev |-> d, state |-> "running"])
          /\ redirecting' = TRUE
          BY <1>5, <2>2 DEF U!Disconnect
    <3>2. PICK r \in U!Calls :
            /\ r.kind = "disconnect" /\ r.dev = d /\ r.state = "running"
            /\ calls' \in Seq(U!Calls) /\ Reqs' = Reqs \cup {r} /\ calls' # <<>>
      <4>1. "disconnect" \in U!Kinds
            BY DEF U!Kinds
      <4>2. UsbTypes
            BY DEF UsbInv
      <4>3. "running" \in {"running", "ok", "error"}
            OBVIOUS
      <4> QED BY ONLY <3>1, <4>1, <4>2, <4>3, NewRequest, d \in Devices
    <3>3. UsbTypes'
          BY <1>2, <1>5, <3>1, <3>2 DEF UsbInv, UsbTypes
    <3>4. UsbAsked'
          BY <1>2, <1>5, <3>1, <3>2 DEF UsbInv, UsbTypes, UsbAsked, Opening, U!Own
    <3>5. UsbBoxes'
          BY <1>1, <1>2, <1>3, <1>5, <3>2 DEF UsbInv, UsbTypes, UsbBoxes, Failed, Closing
    <3> QED BY <1>2, <3>3, <3>4, <3>5, StatusKeeps
  <2> QED BY <2>1, <2>2
<1> QED BY <1>2, <1>4, <1>5

LEMMA ConstructedKeeps ==
  ASSUME UsbInv, U!Constructed
  PROVE  UsbInv'
<1>1. /\ open = FALSE /\ open' = TRUE /\ U!update_status
      /\ box' = [u \in Devices |-> IF plug[u] = "here" THEN U!BoxOf(u) ELSE "none"]
      /\ own' = {x.dev : x \in {y \in Reqs : y.kind \in U!Own}}
      /\ plug' = plug /\ held' = held /\ redirecting' = redirecting /\ calls' = calls
      BY NoReqs DEF U!Constructed, U!manager, UsbInv, UsbTypes
<1>2. Reqs' = Reqs
      BY <1>1 DEF Reqs
<1>3. \A u \in Devices : U!BoxOf(u) = IF held[u] = "no" THEN "off" ELSE "on"
      BY DEF U!BoxOf
<1>4. Reqs \subseteq U!Calls
      BY NoReqs DEF UsbInv
<1>5. UsbTypes'
      BY <1>1, <1>3, <1>4 DEF UsbInv, UsbTypes, U!Calls
<1>6. UsbAsked'
      BY <1>1, <1>2 DEF UsbInv, UsbAsked, Opening
<1>7. \A u \in Devices : ~Failed(u) /\ ~Closing(u)
      BY <1>1 DEF UsbInv, UsbAsked, Failed, Closing, U!Own
<1>8. UsbBoxes'
      BY <1>1, <1>2, <1>3, <1>7 DEF UsbInv, UsbTypes, UsbBoxes, Failed, Closing
<1> QED BY <1>1, <1>5, <1>6, <1>8, StatusKeeps

LEMMA FinalizeKeeps ==
  ASSUME UsbInv, U!Finalize
  PROVE  UsbInv'
<1>1. /\ open' = FALSE /\ box' = [u \in Devices |-> "none"] /\ own' = own
      /\ \A x \in Reqs : x.kind \in U!Own
      /\ plug' = plug /\ held' = held /\ redirecting' = redirecting /\ calls' = calls
      BY NoReqs DEF U!Finalize, U!manager, UsbInv
<1>2. Reqs' = Reqs
      BY <1>1 DEF Reqs
<1>3. UsbTypes'
      BY <1>1 DEF UsbInv, UsbTypes
<1>4. UsbAsked'
      BY <1>1, <1>2 DEF UsbInv, UsbAsked, Opening
<1>5. UsbBoxes' /\ U!BoxesAreLive'
      BY <1>1 DEF UsbBoxes, U!BoxesAreLive
<1> QED BY <1>3, <1>4, <1>5 DEF UsbInv

\* The manager, of itself.  It may ask for one device u, for one that is added or when a
\* channel comes.
Asks(u) ==
  \/ held' = held /\ calls' = calls /\ redirecting' = redirecting /\ own' = own
  \/ /\ held[u] = "no" /\ held' = [held EXCEPT ![u] = "asked"] /\ own' = own \cup {u}
     /\ \E r \in U!Calls :
          /\ r.kind \in U!Own /\ r.dev = u /\ r.state = "running"
          /\ calls' \in Seq(U!Calls) /\ Reqs' = Reqs \cup {r} /\ calls' # <<>>
          /\ \/ r.kind = "auto" /\ redirecting' = TRUE
             \/ redirecting' = redirecting

LEMMA AsksKeeps ==
  ASSUME UsbInv, NEW d \in Devices, Asks(d), open' = open, plug' \in [Devices -> {"away", "here", "gone"}],
         plug'[d] = "here", \A u \in Devices : plug'[u] = "away" => plug[u] = "away"
  PROVE  /\ calls' \in Seq(U!Calls) /\ held' \in [Devices -> {"no", "asked", "yes", "leaving"}]
         /\ redirecting' \in BOOLEAN /\ own' \subseteq Devices
         /\ UsbAsked'
         /\ \A u \in Devices : Closing(u)' <=> Closing(u)
         /\ \A u \in Devices : Failed(u)' <=> Failed(u)
         /\ \A u \in Devices \ own' : u \notin own /\ held'[u] = held[u]
<1>1. CASE held' = held /\ calls' = calls /\ redirecting' = redirecting /\ own' = own
  <2>1. Reqs' = Reqs
        BY <1>1 DEF Reqs
  <2> QED BY <1>1, <2>1 DEF UsbInv, UsbTypes, UsbAsked, Opening, Closing, Failed
<1>2. CASE held[d] = "no" /\ held' = [held EXCEPT ![d] = "asked"] /\ own' = own \cup {d}
  <2>1. CASE calls' = calls /\ redirecting' = redirecting /\ held' = held /\ own' = own
        BY <1>1, <2>1
  <2>2. CASE \E r \in U!Calls :
               /\ r.kind \in U!Own /\ r.dev = d /\ r.state = "running"
               /\ calls' \in Seq(U!Calls) /\ Reqs' = Reqs \cup {r} /\ calls' # <<>>
               /\ \/ r.kind = "auto" /\ redirecting' = TRUE
                  \/ redirecting' = redirecting
    <3>1. PICK r \in U!Calls :
               /\ r.kind \in U!Own /\ r.dev = d /\ r.state = "running"
               /\ calls' \in Seq(U!Calls) /\ Reqs' = Reqs \cup {r} /\ calls' # <<>>
               /\ \/ r.kind = "auto" /\ redirecting' = TRUE
                  \/ redirecting' = redirecting
          BY <2>2
    <3>2. r.kind # "disconnect" /\ r.kind # "connect"
          BY <3>1 DEF U!Own
    <3>3. UsbAsked'
      <4>1. \A u \in Devices : held'[u] \in {"asked", "leaving"} => Opening(u)'
            BY <1>2, <3>1, <3>2 DEF UsbInv, UsbTypes, UsbAsked, Opening
      <4>2. \A u \in Devices : plug'[u] = "away" => held'[u] = "no" /\ \A x \in Reqs' : x.dev # u
            BY <1>2, <3>1, <3>2 DEF UsbInv, UsbTypes, UsbAsked
      <4>3. redirecting' => \E x \in Reqs' : x.kind # "onconnect"
            BY <3>1 DEF UsbInv, UsbAsked
      <4>4. ~open' => \A x \in Reqs' : x.kind \in U!Own
            BY <3>1 DEF UsbInv, UsbAsked
      <4>5. \A x \in Reqs' : x.kind \in U!Own => (~open' \/ x.dev \in own')
            BY <1>2, <3>1 DEF UsbInv, UsbAsked
      <4> QED BY <4>1, <4>2, <4>3, <4>4, <4>5 DEF UsbAsked
    <3>4. \A u \in Devices : (Closing(u)' <=> Closing(u)) /\ (Failed(u)' <=> Failed(u))
          BY <3>1, <3>2 DEF Closing, Failed
    <3>5. \A u \in Devices \ own' : u \notin own /\ held'[u] = held[u]
          BY <1>2 DEF UsbInv, UsbTypes
    <3>6. redirecting' \in BOOLEAN
          BY <3>1 DEF UsbInv, UsbTypes
    <3> QED BY <1>2, <3>1, <3>3, <3>4, <3>5, <3>6 DEF UsbInv, UsbTypes
  <2> QED BY <1>2, <2>1, <2>2 DEF Asks
<1> QED BY <1>1, <1>2 DEF Asks

LEMMA DeviceAddedKeeps ==
  ASSUME UsbInv, NEW d \in Devices, U!DeviceAdded(d)
  PROVE  UsbInv'
<1>1. /\ plug[d] = "away" /\ plug' = [plug EXCEPT ![d] = "here"] /\ open' = open
      /\ held[d] = "no" /\ ~Failed(d) /\ ~Closing(d)
      BY DEF U!DeviceAdded, UsbInv, UsbTypes, UsbAsked, UsbBoxes, Failed, Closing
<1>2. Asks(d)
  <2>1. CASE U!Connect("auto", d) /\ redirecting' = TRUE /\ own' = own \cup {d} /\ U!CanRedirect(d)
    <3>1. held' = [held EXCEPT ![d] = "asked"]
          BY <1>1, <2>1 DEF U!Connect, U!CanRedirect
    <3>2. calls' = Append(calls, [kind |-> "auto", dev |-> d, state |-> "running"])
          BY <1>1, <2>1 DEF U!Connect, U!CanRedirect
    <3>3. PICK k \in U!Kinds : k = "auto"
          BY DEF U!Kinds, U!Own
    <3>4. PICK st : st = "running"
          OBVIOUS
    <3>5. calls' = Append(calls, [kind |-> k, dev |-> d, state |-> st])
          BY <3>2, <3>3, <3>4
    <3>6. UsbTypes /\ st \in {"running", "ok", "error"}
          BY <3>4 DEF UsbInv
    <3>7. PICK r \in U!Calls :
            /\ r.kind = k /\ r.dev = d /\ r.state = st
            /\ calls' \in Seq(U!Calls) /\ Reqs' = Reqs \cup {r} /\ calls' # <<>>
          BY ONLY <3>5, <3>6, NewRequest, k \in U!Kinds, d \in Devices
    <3>8. r.kind = "auto" /\ r.kind \in U!Own
          BY <3>3, <3>7 DEF U!Own
    <3> QED BY <1>1, <2>1, <3>1, <3>4, <3>7, <3>8 DEF Asks
  <2>2. CASE UNCHANGED <<held, calls, redirecting, own>>
        BY <2>2 DEF Asks
  <2> QED BY <2>1, <2>2 DEF U!DeviceAdded
<1>3. plug' \in [Devices -> {"away", "here", "gone"}]
      BY <1>1 DEF UsbInv, UsbTypes
<1>4. plug'[d] = "here" /\ \A u \in Devices : plug'[u] = "away" => plug[u] = "away"
      BY <1>1 DEF UsbInv, UsbTypes
<1>5. /\ calls' \in Seq(U!Calls) /\ held' \in [Devices -> {"no", "asked", "yes", "leaving"}]
      /\ redirecting' \in BOOLEAN /\ own' \subseteq Devices
      /\ UsbAsked'
      /\ \A u \in Devices : Closing(u)' <=> Closing(u)
      /\ \A u \in Devices : Failed(u)' <=> Failed(u)
      /\ \A u \in Devices \ own' : u \notin own /\ held'[u] = held[u]
      BY <1>1, <1>2, <1>3, <1>4, AsksKeeps
<1>6. CASE ~open /\ UNCHANGED <<U!view, stale>>
  <2>1. box' = box
        BY <1>6 DEF U!view
  <2>2. UsbTypes'
        BY <1>1, <1>3, <1>5, <2>1 DEF UsbInv, UsbTypes
  <2>3. UsbBoxes' /\ U!BoxesAreLive'
        BY <1>1, <1>5, <1>6, <2>1 DEF UsbInv, UsbBoxes, UsbTypes, U!BoxesAreLive
  <2> QED BY <1>5, <2>2, <2>3 DEF UsbInv
<1>7. CASE open /\ box' = [box EXCEPT ![d] = U!BoxOf(d)'] /\ U!update_status
  <2>1. box' = [box EXCEPT ![d] = IF held'[d] = "no" THEN "off" ELSE "on"]
        BY <1>7 DEF U!BoxOf
  <2>2. UsbTypes'
        BY <1>1, <1>3, <1>5, <2>1 DEF UsbInv, UsbTypes
  <2>3. \A u \in Devices : box'[u] # "none" <=> open' /\ plug'[u] = "here"
        BY <1>1, <1>7, <2>1 DEF UsbInv, UsbBoxes, UsbTypes
  <2>4. \A u \in Devices : Closing(u)' => box'[u] # "on"
        BY <1>1, <1>5, <2>1 DEF UsbInv, UsbBoxes, UsbTypes
  <2>5. ASSUME NEW u \in Devices, u \notin own', open', plug'[u] = "here"
        PROVE  /\ box'[u] = "on" /\ held'[u] = "no" => Failed(u)'
               /\ box'[u] = "off" /\ held'[u] \in {"asked", "yes"} => Closing(u)'
               /\ Failed(u)' => held'[u] \notin {"asked", "yes"}
        BY <1>1, <1>5, <2>1, <2>5 DEF UsbInv, UsbBoxes, UsbTypes
  <2>6. UsbBoxes'
        BY <2>3, <2>4, <2>5 DEF UsbBoxes
  <2> QED BY <1>5, <1>7, <2>2, <2>6, StatusKeeps
<1> QED BY <1>6, <1>7 DEF U!DeviceAdded

LEMMA UsbChannelKeeps ==
  ASSUME UsbInv, U!ChannelNew
  PROVE  UsbInv'
<1>1. /\ plug' = plug /\ open' = open /\ box' = box /\ stale' = TRUE
      /\ redirecting' = redirecting
      BY DEF U!ChannelNew, U!view
<1>2. U!BoxesAreLive'
      BY <1>1 DEF U!BoxesAreLive
<1>3. CASE UNCHANGED <<held, calls, own>>
  <2>1. Reqs' = Reqs
        BY <1>3 DEF Reqs
  <2> QED BY <1>1, <1>2, <1>3, <2>1
          DEF UsbInv, UsbTypes, UsbAsked, UsbBoxes, Opening, Closing, Failed
<1>4. ASSUME NEW d \in Devices,
             plug[d] = "here", held[d] = "no", held' = [held EXCEPT ![d] = "asked"],
             own' = own \cup {d},
             calls' = Append(calls, [kind |-> "onconnect", dev |-> d, state |-> "running"])
      PROVE  UsbInv'
  <2>1. PICK k \in U!Kinds : k = "onconnect"
        BY DEF U!Kinds, U!Own
  <2>2. PICK st : st = "running"
        OBVIOUS
  <2>3. calls' = Append(calls, [kind |-> k, dev |-> d, state |-> st])
        BY <1>4, <2>1, <2>2
  <2>4. UsbTypes /\ st \in {"running", "ok", "error"}
        BY <2>2 DEF UsbInv
  <2>5. PICK r \in U!Calls :
          /\ r.kind = k /\ r.dev = d /\ r.state = st
          /\ calls' \in Seq(U!Calls) /\ Reqs' = Reqs \cup {r} /\ calls' # <<>>
        BY ONLY <2>3, <2>4, NewRequest, k \in U!Kinds, d \in Devices
  <2>6. r.kind \in U!Own
        BY <2>1, <2>5 DEF U!Own
  <2>7. Asks(d)
        BY <1>1, <1>4, <2>2, <2>5, <2>6 DEF Asks
  <2>8. /\ calls' \in Seq(U!Calls) /\ held' \in [Devices -> {"no", "asked", "yes", "leaving"}]
        /\ redirecting' \in BOOLEAN /\ own' \subseteq Devices
        /\ UsbAsked'
        /\ \A u \in Devices : Closing(u)' <=> Closing(u)
        /\ \A u \in Devices : Failed(u)' <=> Failed(u)
        /\ \A u \in Devices \ own' : u \notin own /\ held'[u] = held[u]
    <3>1. /\ plug' \in [Devices -> {"away", "here", "gone"}] /\ plug'[d] = "here"
          /\ \A u \in Devices : plug'[u] = "away" => plug[u] = "away"
          BY <1>1, <1>4 DEF UsbInv, UsbTypes
    <3> QED BY <1>1, <2>7, <3>1, AsksKeeps
  <2>9. UsbTypes'
        BY <1>1, <2>8 DEF UsbInv, UsbTypes
  <2>10. UsbBoxes'
         BY <1>1, <2>8 DEF UsbInv, UsbBoxes
  <2> QED BY <1>2, <2>8, <2>9, <2>10 DEF UsbInv
<1> QED BY <1>3, <1>4 DEF U!ChannelNew

LEMMA DeviceRemovedKeeps ==
  ASSUME UsbInv, NEW d \in Devices, U!DeviceRemoved(d)
  PROVE  UsbInv'
<1>1. /\ plug[d] = "here" /\ plug' = [plug EXCEPT ![d] = "gone"]
      /\ held' = [held EXCEPT ![d] = CASE @ \in {"asked", "leaving"} -> "leaving" [] OTHER -> "no"]
      /\ redirecting' = redirecting /\ calls' = calls /\ open' = open /\ own' = own
      BY DEF U!DeviceRemoved, U!LetGo
<1>2. Reqs' = Reqs
      BY <1>1 DEF Reqs
<1>3. /\ held' \in [Devices -> {"no", "asked", "yes", "leaving"}]
      /\ \A u \in Devices : held'[u] \in {"asked", "leaving"} => held[u] \in {"asked", "leaving"}
      /\ \A u \in Devices : held[u] = "no" => held'[u] = "no"
      /\ \A u \in Devices : u # d => held'[u] = held[u]
      BY <1>1 DEF UsbInv, UsbTypes
<1>4. UsbAsked'
      BY <1>1, <1>2, <1>3 DEF UsbInv, UsbTypes, UsbAsked, Opening
<1>5. CASE ~open /\ UNCHANGED <<U!view, stale>>
  <2>1. box' = box
        BY <1>5 DEF U!view
  <2> QED BY <1>1, <1>3, <1>4, <1>5, <2>1 DEF UsbInv, UsbTypes, UsbBoxes, U!BoxesAreLive
<1>6. CASE open /\ box' = [box EXCEPT ![d] = "none"] /\ U!update_status
  <2>1. UsbTypes'
        BY <1>1, <1>3, <1>6 DEF UsbInv, UsbTypes
  <2>2. UsbBoxes'
        BY <1>1, <1>2, <1>3, <1>6 DEF UsbInv, UsbTypes, UsbBoxes, Closing, Failed
  <2> QED BY <1>4, <1>6, <2>1, <2>2, StatusKeeps
<1> QED BY <1>5, <1>6 DEF U!DeviceRemoved

LEMMA DeviceErrorKeeps ==
  ASSUME UsbInv, NEW d \in Devices, U!DeviceError(d)
  PROVE  UsbInv'
<1>1. /\ plug[d] # "away" /\ plug' = plug /\ open' = open /\ own' = own
      /\ held[d] # "no"
      /\ held' = [held EXCEPT ![d] = CASE @ \in {"asked", "leaving"} -> "leaving" [] OTHER -> "no"]
      BY DEF U!DeviceError, U!LetGo, UsbInv, UsbAsked
<1>2. /\ held' \in [Devices -> {"no", "asked", "yes", "leaving"}]
      /\ \A u \in Devices : held'[u] \in {"asked", "leaving"} => held[u] \in {"asked", "leaving"}
      /\ \A u \in Devices : held[u] = "no" => held'[u] = "no"
      /\ \A u \in Devices : u # d => held'[u] = held[u]
      /\ held'[d] \in {"no", "leaving"}
      BY <1>1 DEF UsbInv, UsbTypes
<1>3. CASE calls' = calls /\ redirecting' = redirecting
  <2>1. Reqs' = Reqs
        BY <1>3 DEF Reqs
  <2>2. UsbAsked'
        BY <1>1, <1>2, <1>3, <2>1 DEF UsbInv, UsbTypes, UsbAsked, Opening
  <2>3. CASE ~open /\ UNCHANGED U!view
    <3>1. box' = box
          BY <2>3 DEF U!view
    <3> QED BY <1>1, <1>2, <1>3, <2>2, <2>3, <3>1
            DEF UsbInv, UsbTypes, UsbBoxes, U!BoxesAreLive
  <2>4. CASE U!update_status /\ \/ box[d] = "on" /\ box' = [box EXCEPT ![d] = "off"] /\ held'[d] = "no"
                                \/ box[d] # "on" /\ box' = box
    <3>1. UsbTypes'
          BY <1>1, <1>2, <1>3, <2>4 DEF UsbInv, UsbTypes
    <3>2. UsbBoxes'
          BY <1>1, <1>2, <2>1, <2>4 DEF UsbInv, UsbTypes, UsbBoxes, Closing, Failed
    <3> QED BY <2>2, <2>4, <3>1, <3>2, StatusKeeps
  <2> QED BY <1>3, <2>3, <2>4 DEF U!DeviceError, U!Disconnect
<1>4. CASE /\ open /\ box[d] = "on" /\ box' = [box EXCEPT ![d] = "off"] /\ redirecting' = TRUE
           /\ calls' = Append(calls, [kind |-> "disconnect", dev |-> d, state |-> "running"])
           /\ U!update_status
  <2>1. PICK k \in U!Kinds : k = "disconnect"
        BY DEF U!Kinds
  <2>2. PICK st : st = "running"
        OBVIOUS
  <2>3. calls' = Append(calls, [kind |-> k, dev |-> d, state |-> st])
        BY <1>4, <2>1, <2>2
  <2>4. UsbTypes /\ st \in {"running", "ok", "error"}
        BY <2>2 DEF UsbInv
  <2>5. PICK r \in U!Calls :
          /\ r.kind = k /\ r.dev = d /\ r.state = st
          /\ calls' \in Seq(U!Calls) /\ Reqs' = Reqs \cup {r} /\ calls' # <<>>
        BY ONLY <2>3, <2>4, NewRequest, k \in U!Kinds, d \in Devices
  <2>6. UsbTypes'
        BY <1>1, <1>2, <1>4, <2>5 DEF UsbInv, UsbTypes
  <2>7. UsbAsked'
    <3>1. \A u \in Devices : held'[u] \in {"asked", "leaving"} => Opening(u)'
          BY <1>2, <2>5 DEF UsbInv, UsbAsked, Opening
    <3>2. \A u \in Devices : plug'[u] = "away" => held'[u] = "no" /\ \A x \in Reqs' : x.dev # u
          BY <1>1, <1>2, <2>5 DEF UsbInv, UsbAsked
    <3>3. redirecting' => \E x \in Reqs' : x.kind # "onconnect"
          BY <2>1, <2>5
    <3>4. open' /\ \A x \in Reqs' : x.kind \in U!Own => x.dev \in own'
          BY <1>1, <1>4, <2>1, <2>5 DEF UsbInv, UsbAsked, U!Own
    <3> QED BY <3>1, <3>2, <3>3, <3>4 DEF UsbAsked
  <2>8. UsbBoxes'
        BY <1>1, <1>2, <1>4, <2>1, <2>5 DEF UsbInv, UsbTypes, UsbBoxes, Closing, Failed
  <2> QED BY <1>4, <2>6, <2>7, <2>8, StatusKeeps
<1> QED BY <1>1, <1>2, <1>3, <1>4 DEF U!DeviceError, U!Disconnect

\* A request ends in its answer.
LEMMA AnswerKeeps ==
  ASSUME UsbInv, NEW i \in DOMAIN calls, U!Answer(i)
  PROVE  UsbInv'
<1>1. PICK q \in U!Calls : q = calls[i] /\ q \in Reqs
      BY NoReqs DEF UsbInv
<1>2. /\ q.state # "running" /\ redirecting' = (redirecting /\ q.kind = "onconnect")
      /\ plug' = plug /\ held' = held /\ open' = open /\ own' = own
      /\ calls' = U!RemoveAt(calls, i)
      BY <1>1 DEF U!Answer
<1>3. calls' \in Seq(U!Calls) /\ Reqs' \subseteq Reqs /\ Reqs \ {q} \subseteq Reqs'
  <2>1. UsbTypes
        BY DEF UsbInv
  <2> QED BY <1>1, <1>2, <2>1, ReqsRemove
<1>4. UsbAsked'
  <2>1. \A u \in Devices : Opening(u) => Opening(u)'
        BY <1>2, <1>3 DEF Opening
  <2>2. redirecting' => \E x \in Reqs' : x.kind # "onconnect"
        BY <1>2, <1>3 DEF UsbInv, UsbAsked
  <2> QED BY <1>2, <1>3, <2>1, <2>2 DEF UsbInv, UsbAsked
<1>5. \A u \in Devices : /\ Closing(u)' <=> Closing(u)
                         /\ Failed(u)' => Failed(u)
                         /\ Failed(u) => \/ Failed(u)'
                                         \/ q.kind = "connect" /\ q.state = "error" /\ q.dev = u
      BY <1>2, <1>3 DEF Closing, Failed
<1>6. redirecting' \in BOOLEAN
      BY <1>2
<1>7. CASE /\ q.kind \notin U!Own /\ U!update_status
           /\ box' = IF q.kind = "connect" /\ q.state = "error" THEN U!Unchecked(q.dev) ELSE box
  <2>1. q.dev \in Devices
        BY DEF U!Calls
  <2>2. /\ box' \in [Devices -> {"none", "on", "off"}]
        /\ \A u \in Devices :
             \/ box'[u] = box[u] /\ ~(q.kind = "connect" /\ q.state = "error" /\ q.dev = u)
             \/ /\ q.kind = "connect" /\ q.state = "error" /\ q.dev = u
                /\ \/ box[u] = "on" /\ box'[u] = "off"
                   \/ box[u] # "on" /\ box'[u] = box[u]
        BY <1>7, <2>1 DEF UsbInv, UsbTypes, U!Unchecked
  <2>3. UsbTypes'
        BY <1>2, <1>3, <1>6, <2>2 DEF UsbInv, UsbTypes
  <2>4. \A u \in Devices : q.kind = "connect" /\ q.state = "error" /\ q.dev = u => Failed(u)
        BY <1>1 DEF Failed
  <2>5. UsbBoxes'
    <3>1. \A u \in Devices : box'[u] # "none" <=> open' /\ plug'[u] = "here"
          BY <1>2, <2>2 DEF UsbInv, UsbBoxes
    <3>2. \A u \in Devices : Closing(u)' => box'[u] # "on"
          BY <1>5, <2>2 DEF UsbInv, UsbBoxes
    <3>3. ASSUME NEW u \in Devices, u \notin own, open, plug[u] = "here"
          PROVE  /\ box'[u] = "on" /\ held[u] = "no" => Failed(u)'
                 /\ box'[u] = "off" /\ held[u] \in {"asked", "yes"} => Closing(u)'
                 /\ Failed(u)' => held[u] \notin {"asked", "yes"}
          BY <1>5, <2>2, <2>4, <3>3 DEF UsbInv, UsbBoxes
    <3> QED BY <1>2, <3>1, <3>2, <3>3 DEF UsbBoxes
  <2> QED BY <1>4, <1>7, <2>3, <2>5, StatusKeeps
<1>8. CASE q.kind \in U!Own /\ stale' = TRUE /\ UNCHANGED U!view
  <2>1. box' = box /\ q.kind # "connect"
        BY <1>8 DEF U!view, U!Own
  <2>2. UsbTypes'
        BY <1>2, <1>3, <1>6, <2>1 DEF UsbInv, UsbTypes
  <2>3. UsbBoxes'
        BY <1>2, <1>5, <2>1 DEF UsbInv, UsbBoxes
  <2>4. U!BoxesAreLive'
        BY <1>8 DEF U!BoxesAreLive
  <2> QED BY <1>4, <2>2, <2>3, <2>4 DEF UsbInv
<1> QED BY <1>1, <1>7, <1>8 DEF U!Answer

\* The channel serves a request.
LEMMA ServeKeeps ==
  ASSUME UsbInv, NEW i \in DOMAIN calls, U!Serve(i)
  PROVE  UsbInv'
<1>1. PICK q \in U!Calls : q = calls[i] /\ q \in Reqs
      BY NoReqs DEF UsbInv
<1>2. /\ q.state = "running" /\ redirecting' = redirecting /\ box' = box
      /\ plug' = plug /\ open' = open /\ own' = own
      BY <1>1 DEF U!Serve, U!view
<1>3. q.dev \in Devices /\ q.kind \in U!Kinds
      BY DEF U!Calls
<1>4. PICK s \in {"ok", "error"} :
        /\ calls' = [calls EXCEPT ![i].state = s]
        /\ \/ /\ s = "ok" /\ q.kind = "disconnect"
              /\ held' = [held EXCEPT ![q.dev] =
                            CASE @ \in {"asked", "leaving"} -> "leaving" [] OTHER -> "no"]
           \/ /\ s = "ok" /\ q.kind # "disconnect" /\ held[q.dev] = "asked"
              /\ held' = [held EXCEPT ![q.dev] = "yes"]
           \/ /\ s = "error" /\ q.kind # "disconnect"
              /\ held' = [held EXCEPT ![q.dev] = "no"]
      BY <1>1 DEF U!Serve, U!LetGo
<1>5. PICK y \in Reqs' : y.kind = q.kind /\ y.dev = q.dev /\ y.state = s
  <2>1. UsbTypes
        BY DEF UsbInv
  <2> QED BY <1>1, <1>4, <2>1, ReqsEnded
<1>6. /\ calls' \in Seq(U!Calls) /\ calls' # <<>>
      /\ \A x \in Reqs' : \/ x \in Reqs
                          \/ x.kind = q.kind /\ x.dev = q.dev /\ x.state = s
      /\ Reqs \ {q} \subseteq Reqs'
  <2>1. UsbTypes
        BY DEF UsbInv
  <2> QED BY <1>1, <1>4, <2>1, ReqsEnded
<1>7. /\ held' \in [Devices -> {"no", "asked", "yes", "leaving"}]
      /\ \A u \in Devices : u # q.dev => held'[u] = held[u]
      /\ \/ s = "ok" /\ q.kind = "disconnect"
            /\ held'[q.dev] =
                 IF held[q.dev] \in {"asked", "leaving"} THEN "leaving" ELSE "no"
         \/ s = "ok" /\ q.kind # "disconnect" /\ held[q.dev] = "asked" /\ held'[q.dev] = "yes"
         \/ s = "error" /\ q.kind # "disconnect" /\ held'[q.dev] = "no"
      BY <1>3, <1>4 DEF UsbInv, UsbTypes
<1>8. UsbTypes' /\ U!BoxesAreLive'
      BY <1>2, <1>6, <1>7 DEF UsbInv, UsbTypes, U!BoxesAreLive
<1>9. \A u \in Devices : /\ Opening(u) => Opening(u)' \/ (q.kind # "disconnect" /\ u = q.dev)
                         /\ Closing(u)' => Closing(u)
                         /\ Closing(u) => Closing(u)' \/ (q.kind = "disconnect" /\ u = q.dev)
                         /\ Failed(u) => Failed(u)'
                         /\ Failed(u)' => Failed(u) \/ (s = "error" /\ u = q.dev)
                         /\ q.kind = "connect" /\ s = "error" /\ u = q.dev => Failed(u)'
                         /\ q.kind = "disconnect" /\ u = q.dev => Closing(u)
      BY <1>1, <1>2, <1>5, <1>6 DEF Opening, Closing, Failed
<1>10. UsbAsked'
  <2>1. \A u \in Devices : held'[u] \in {"asked", "leaving"} => Opening(u)'
        BY <1>7, <1>9 DEF UsbInv, UsbAsked
  <2>2. \A u \in Devices : plug'[u] = "away" => held'[u] = "no" /\ \A x \in Reqs' : x.dev # u
    <3>1. plug[q.dev] # "away"
          BY <1>1, <1>3 DEF UsbInv, UsbAsked
    <3> QED BY <1>2, <1>6, <1>7, <3>1 DEF UsbInv, UsbAsked
  <2>3. redirecting' => \E x \in Reqs' : x.kind # "onconnect"
        BY <1>2, <1>5, <1>6 DEF UsbInv, UsbAsked
  <2>4. ~open' => \A x \in Reqs' : x.kind \in U!Own
        BY <1>1, <1>2, <1>6 DEF UsbInv, UsbAsked
  <2>5. \A x \in Reqs' : x.kind \in U!Own => (~open' \/ x.dev \in own')
        BY <1>1, <1>2, <1>6 DEF UsbInv, UsbAsked
  <2> QED BY <2>1, <2>2, <2>3, <2>4, <2>5 DEF UsbAsked
<1>11. UsbBoxes'
  <2>1. \A u \in Devices : box'[u] # "none" <=> open' /\ plug'[u] = "here"
        BY <1>2 DEF UsbInv, UsbBoxes
  <2>2. \A u \in Devices : Closing(u)' => box'[u] # "on"
        BY <1>2, <1>9 DEF UsbInv, UsbBoxes
  <2>3. ASSUME NEW u \in Devices, u \notin own, open, plug[u] = "here"
        PROVE  /\ box[u] = "on" /\ held'[u] = "no" => Failed(u)'
               /\ box[u] = "off" /\ held'[u] \in {"asked", "yes"} => Closing(u)'
               /\ Failed(u)' => held'[u] \notin {"asked", "yes"}
    <3>1. CASE u # q.dev
          BY <1>7, <1>9, <2>3, <3>1 DEF UsbInv, UsbBoxes
    <3>2. CASE u = q.dev
      <4>1. q.kind \in {"connect", "disconnect"}
            BY <1>1, <1>3, <2>3, <3>2 DEF UsbInv, UsbAsked, U!Kinds
      <4>2. /\ box[u] = "on" /\ held[u] = "no" => Failed(u)
            /\ box[u] = "off" /\ held[u] \in {"asked", "yes"} => Closing(u)
            /\ Failed(u) => held[u] \notin {"asked", "yes"}
            /\ Closing(u) => box[u] # "on"
            BY <2>3 DEF UsbInv, UsbBoxes
      <4>3. held[u] \in {"no", "asked", "yes", "leaving"}
            BY DEF UsbInv, UsbTypes
      <4> QED BY <1>7, <1>9, <3>2, <4>1, <4>2, <4>3
    <3> QED BY <3>1, <3>2
  <2> QED BY <1>2, <2>1, <2>2, <2>3 DEF UsbBoxes
<1> QED BY <1>8, <1>10, <1>11 DEF UsbInv

LEMMA UsbNext ==
  ASSUME UsbInv, UsbPrompt = TRUE, [U!Next]_(U!vars)
  PROVE  UsbInv'
<1>1. CASE UNCHANGED U!vars
  <2>1. /\ plug' = plug /\ held' = held /\ redirecting' = redirecting /\ calls' = calls
        /\ room' = room /\ open' = open /\ own' = own /\ stale' = stale
        /\ box' = box /\ clickable' = clickable /\ bar' = bar
        BY <1>1 DEF U!vars, U!manager, U!view
  <2>2. Reqs' = Reqs
        BY <2>1 DEF Reqs
  <2>3. UsbTypes' /\ UsbAsked' /\ UsbBoxes'
        BY <2>1, <2>2 DEF UsbInv, UsbTypes, UsbAsked, UsbBoxes, Opening, Closing, Failed
  <2>4. U!BoxesAreLive'
        BY <2>1 DEF UsbInv, U!BoxesAreLive, U!CanRedirect, U!Free
  <2> QED BY <2>3, <2>4 DEF UsbInv
<1>2. CASE \E d \in Devices :
             U!Click(d) \/ U!DeviceAdded(d) \/ U!DeviceRemoved(d) \/ U!DeviceError(d)
      BY <1>2, ClickKeeps, DeviceAddedKeeps, DeviceRemovedKeeps, DeviceErrorKeeps
<1>3. CASE \E i \in DOMAIN calls : U!Answer(i) \/ U!Serve(i)
      BY <1>3, AnswerKeeps, ServeKeeps
<1>4. CASE U!Constructed
      BY <1>4, ConstructedKeeps
<1>5. CASE U!Finalize
      BY <1>5, FinalizeKeeps
<1>6. CASE U!ChannelNew
      BY <1>6, UsbChannelKeeps
<1> QED BY <1>1, <1>2, <1>3, <1>4, <1>5, <1>6 DEF U!Next

LEMMA UsbSays == UsbInv => U!BoxTellsDevice /\ U!BoxesAreLive
<1> SUFFICES ASSUME UsbInv, open, calls = <<>>, NEW u \in Devices \ own, plug[u] = "here"
             PROVE  box[u] = "on" <=> held[u] = "yes"
    BY DEF UsbInv, U!BoxTellsDevice
<1>1. Reqs = {}
      BY EmptySeq DEF Reqs
<1> QED BY <1>1 DEF UsbInv, UsbTypes, UsbAsked, UsbBoxes, Opening, Closing, Failed

LEMMA UsbStep == [MCNext]_mcvars => [U!Next]_(U!vars)
<1> SUFFICES ASSUME [MCNext]_mcvars PROVE [U!Next]_(U!vars)
    OBVIOUS
<1>1. UNCHANGED usbVars => UNCHANGED U!vars
      BY DEF usbVars, U!vars, U!manager, U!view
<1>2. CASE UNCHANGED usbVars
      BY <1>1, <1>2
<1>3. CASE ~UNCHANGED usbVars
  <2>1. MCNext
        BY <1>3 DEF mcvars
  <2>2. ASSUME NEW x \in {"inputs", "widget", "clipboard", "config", "screen", "screen2",
                          "scaling"},
               On(x)
        PROVE  FALSE
        BY <1>3, <2>2 DEF On
  <2> QED BY <2>1, <2>2 DEF MCNext, U!Next
<1> QED BY <1>2, <1>3

LEMMA WidgetStep == [MCNext]_mcvars => [W!Next]_(W!vars)
<1> SUFFICES ASSUME [MCNext]_mcvars PROVE [W!Next]_(W!vars)
    OBVIOUS
<1>1. UNCHANGED widgetVars => UNCHANGED W!vars
      BY DEF widgetVars, W!vars
<1>2. CASE UNCHANGED widgetVars
      BY <1>1, <1>2
<1>3. CASE ~UNCHANGED widgetVars
  <2>1. MCNext
        BY <1>3 DEF mcvars
  <2>2. ASSUME NEW x \in {"inputs", "clipboard", "config", "screen", "screen2", "scaling",
                          "usb"},
               On(x)
        PROVE  FALSE
        BY <1>3, <2>2 DEF On
  <2> QED BY <2>1, <2>2 DEF MCNext, W!Next
<1> QED BY <1>2, <1>3

\* The keyboard and the pointer of the display widget (key_event, send_key, release_keys,
\* check_for_grab_key, try_keyboard_grab, try_mouse_grab, focus_in_event, focus_out_event,
\* enter_event, leave_event of spice-widget.c), for any keys and number of events, where a
\* loss of the focus is handled at once: a key the guest holds is remembered, none is held
\* without the focus, the devices are grabbed where that is allowed.  And the USB widget
\* (checkbox_clicked_cb, connect_cb, device_added_cb, device_removed_cb, device_error_cb of
\* usb-device-widget.c), for any devices, clicks and errors, where a disconnection ends
\* between clicks: with no request under way a box says what is redirected, and can be
\* clicked when that can be changed.
THEOREM WidgetSafeTheorem == Prompt = TRUE /\ UsbPrompt = TRUE /\ MCSpec => []WidgetSafe
<1> DEFINE Inv == WidgetInv /\ UsbInv
<1>1. MCInit => Inv
      BY InitWidgetInv, InitUsbInv DEF MCInit
<1>2. Prompt = TRUE /\ UsbPrompt = TRUE /\ Inv /\ [MCNext]_mcvars => Inv'
      BY WidgetStep, WidgetNext, UsbStep, UsbNext
<1>3. Inv => WidgetSafe
      BY WidgetSays, UsbSays DEF WidgetSafe
<1>4. Prompt = TRUE /\ UsbPrompt = TRUE => (MCInit /\ [][MCNext]_mcvars => []WidgetSafe)
  <2> SUFFICES ASSUME Prompt = TRUE, UsbPrompt = TRUE
               PROVE  MCInit /\ [][MCNext]_mcvars => []WidgetSafe
      OBVIOUS
  <2>1. Inv /\ [MCNext]_mcvars => Inv'
        BY <1>2
  <2> QED BY <1>1, <1>3, <2>1, PTL
<1> QED BY <1>4 DEF MCSpec


-----------------------------------------------------------------------------
(* Induction and sums *)

\* A set of numbers has a least one: the library's theorem on well-founded relations, with
\* sets for what its theorem on induction says of formulas
LEMMA LeastOf ==
  ASSUME NEW T, T \subseteq Nat, T # {}
  PROVE  \E n \in T : \A m \in T : n <= m
<1>1. PICK R : R = OpToRel(<, Nat)
      OBVIOUS
<1>2. IsWellFoundedOn(R, Nat)
      BY <1>1, NatLessThanWellFounded
<1>3. PICK n \in T : \A m \in T : ~(<<m, n>> \in R)
      BY <1>2, WFMin
<1>4. \A m, k \in Nat : m < k => <<m, k>> \in R
      BY <1>1 DEF OpToRel
<1>5. \A m \in T : ~(m < n)
      BY <1>3, <1>4
<1>6. \A m \in T : n <= m
      BY <1>5
<1> QED BY <1>6

LEMMA Inductive ==
  ASSUME NEW T, 0 \in T, \A n \in Nat : n \in T => n + 1 \in T
  PROVE  Nat \subseteq T
<1> SUFFICES ASSUME Nat \ T # {} PROVE FALSE
    OBVIOUS
<1>1. PICK n \in Nat \ T : \A m \in Nat \ T : n <= m
      BY LeastOf
<1>2. n # 0 /\ n - 1 \in Nat /\ n - 1 \in T
      BY <1>1
<1> QED BY <1>1, <1>2

\* The sums of the first numbers of x are what their recursive definition says.
LEMMA SumsExist ==
  ASSUME NEW x \in Seq(Int), NEW n \in Nat, n = Len(x)
  PROVE  /\ I!Sums(x) \in [0 .. n -> Int] /\ I!Sums(x)[0] = 0
         /\ \A i \in 1 .. n : I!Sums(x)[i] = I!Sums(x)[i - 1] + x[i]
<1> DEFINE Adds(k, s) == s[0] = 0 /\ \A i \in 1 .. k : s[i] = s[i - 1] + x[i]
           Has(k) == \E s \in [0 .. k -> Int] : Adds(k, s)
           T == {k \in Nat : k <= n => Has(k)}
<1>1. 0 \in T
  <2>1. [i \in 0 .. 0 |-> 0] \in [0 .. 0 -> Int] /\ Adds(0, [i \in 0 .. 0 |-> 0])
        OBVIOUS
  <2> QED BY <2>1
<1>2. ASSUME NEW k \in Nat, k \in T PROVE k + 1 \in T
  <2> SUFFICES ASSUME k + 1 <= n PROVE Has(k + 1)
    <3> HIDE DEF Has
    <3> QED OBVIOUS
  <2>1. PICK s \in [0 .. k -> Int] : Adds(k, s)
        BY <1>2
  <2>2. PICK v \in Int : v = s[k] + x[k + 1]
    <3>1. s[k] \in Int /\ x[k + 1] \in Int
          BY ElementOfSeq
    <3> QED BY <3>1
  <2>3. PICK r : r = [i \in 0 .. k + 1 |-> IF i = k + 1 THEN v ELSE s[i]]
        OBVIOUS
  <2>4. r \in [0 .. k + 1 -> Int] /\ r[0] = 0 /\ r[k + 1] = v /\ \A i \in 0 .. k : r[i] = s[i]
        BY <2>1, <2>3
  <2>5. ASSUME NEW i \in 1 .. k + 1 PROVE r[i] = r[i - 1] + x[i]
    <3>1. CASE i = k + 1
          BY <2>2, <2>4, <3>1
    <3>2. CASE i # k + 1
      <4>1. i \in 1 .. k /\ i - 1 \in 0 .. k /\ i \in 0 .. k
            BY <3>2
      <4> QED BY <2>1, <2>4, <4>1
    <3> QED BY <3>1, <3>2
  <2> QED BY <2>4, <2>5
<1>3. n \in T
  <2> HIDE DEF T
  <2> QED BY <1>1, <1>2, Inductive
<1>4. PICK s \in [0 .. n -> Int] : Adds(n, s)
      BY <1>3
<1>5. s = [i \in 0 .. n |-> IF i = 0 THEN 0 ELSE s[i - 1] + x[i]]
  <2>1. \A i \in 0 .. n : s[i] = IF i = 0 THEN 0 ELSE s[i - 1] + x[i]
        BY <1>4
  <2> QED BY <2>1
<1>6. I!Sums(x) = CHOOSE t : t = [i \in 0 .. n |-> IF i = 0 THEN 0 ELSE t[i - 1] + x[i]]
      BY DEF I!Sums
<1>7. PICK u : u = I!Sums(x)
      OBVIOUS
<1>8. u = [i \in 0 .. n |-> IF i = 0 THEN 0 ELSE u[i - 1] + x[i]]
      BY <1>5, <1>6, <1>7
<1> DEFINE U1 == {k \in Nat : k <= n => u[k] \in Int}
<1>9. 0 \in U1
      BY <1>8
<1>10. ASSUME NEW k \in Nat, k \in U1 PROVE k + 1 \in U1
  <2> SUFFICES ASSUME k + 1 <= n PROVE u[k + 1] \in Int
      OBVIOUS
  <2>1. u[k] \in Int
        BY <1>10
  <2>2. x[k + 1] \in Int
        BY ElementOfSeq
  <2>3. u[k + 1] = u[(k + 1) - 1] + x[k + 1]
        BY <1>8
  <2> QED BY <2>1, <2>2, <2>3
<1>11. \A k \in Nat : k \in U1
  <2> HIDE DEF U1
  <2> QED BY <1>9, <1>10, Inductive
<1>12. \A i \in 0 .. n : u[i] \in Int
       BY <1>11
<1>13. u \in [0 .. n -> Int]
       BY <1>8, <1>12
<1>14. u[0] = 0 /\ \A i \in 1 .. n : u[i] = u[i - 1] + x[i]
  <2>1. \A i \in 0 .. n : u[i] = IF i = 0 THEN 0 ELSE u[i - 1] + x[i]
        BY <1>8
  <2> QED BY <2>1
<1> QED BY <1>7, <1>13, <1>14

\* Sequence y is x with v put in after the first k.
Inserted(x, y, k, v) ==
  /\ Len(y) = Len(x) + 1 /\ y[k + 1] = v
  /\ \A i \in 1 .. k : y[i] = x[i]
  /\ \A i \in k + 1 .. Len(x) : y[i + 1] = x[i]

LEMMA SumsInserted ==
  ASSUME NEW x \in Seq(Int), NEW y \in Seq(Int), NEW n \in Nat, n = Len(x), NEW k \in 0 .. n,
         NEW v, Inserted(x, y, k, v)
  PROVE  /\ \A i \in 0 .. k : I!Sums(y)[i] = I!Sums(x)[i]
         /\ \A i \in k .. n : I!Sums(y)[i + 1] = I!Sums(x)[i] + v
         /\ I!Sum(y) = I!Sum(x) + v
<1>1. PICK a : a = I!Sums(x)
      OBVIOUS
<1>2. PICK b : b = I!Sums(y)
      OBVIOUS
<1>3. Len(y) = n + 1 /\ n + 1 \in Nat
      BY DEF Inserted
<1>4. a \in [0 .. n -> Int] /\ a[0] = 0 /\ \A i \in 1 .. n : a[i] = a[i - 1] + x[i]
      BY <1>1, SumsExist
<1>5. b \in [0 .. n + 1 -> Int] /\ b[0] = 0 /\ \A i \in 1 .. n + 1 : b[i] = b[i - 1] + y[i]
      BY <1>2, <1>3, SumsExist
<1> DEFINE T == {i \in Nat : i <= k => b[i] = a[i]}
           R == {i \in Nat : k + i <= n => b[(k + i) + 1] = a[k + i] + v}
<1>6. 0 \in T
      BY <1>4, <1>5
<1>7. ASSUME NEW i \in Nat, i \in T PROVE i + 1 \in T
  <2> SUFFICES ASSUME i + 1 <= k PROVE b[i + 1] = a[i + 1]
      OBVIOUS
  <2>1. b[i] = a[i] /\ y[i + 1] = x[i + 1]
        BY <1>7 DEF Inserted
  <2>2. b[i + 1] = b[(i + 1) - 1] + y[i + 1] /\ a[i + 1] = a[(i + 1) - 1] + x[i + 1]
        BY <1>4, <1>5
  <2>3. (i + 1) - 1 = i
        OBVIOUS
  <2> QED BY <2>1, <2>2, <2>3
<1>8. \A i \in Nat : i \in T
  <2> HIDE DEF T
  <2> QED BY <1>6, <1>7, Inductive
<1>9. \A i \in 0 .. k : b[i] = a[i]
      BY <1>8
<1>10. 0 \in R
  <2>4. k + 1 \in 1 .. n + 1
        OBVIOUS
  <2>1. b[k + 1] = b[(k + 1) - 1] + y[k + 1]
        BY <1>5, <2>4
  <2>2. (k + 1) - 1 = k /\ (k + 0) + 1 = k + 1 /\ k + 0 = k
        OBVIOUS
  <2>3. b[k] = a[k] /\ y[k + 1] = v
        BY <1>9 DEF Inserted
  <2> QED BY <2>1, <2>2, <2>3
<1>11. ASSUME NEW i \in Nat, i \in R PROVE i + 1 \in R
  <2> SUFFICES ASSUME k + (i + 1) <= n PROVE b[(k + (i + 1)) + 1] = a[k + (i + 1)] + v
      OBVIOUS
  <2>1. PICK j \in k + 1 .. n : j = k + (i + 1)
        OBVIOUS
  <2>2. b[(k + i) + 1] = a[k + i] + v /\ (k + i) + 1 = j /\ k + i = j - 1
        BY <1>11, <2>1
  <2>3. b[j] = a[j - 1] + v
        BY <2>2
  <2>4. b[j + 1] = b[(j + 1) - 1] + y[j + 1] /\ (j + 1) - 1 = j /\ y[j + 1] = x[j]
    <3>1. j + 1 \in 1 .. n + 1 /\ (j + 1) - 1 = j
          OBVIOUS
    <3>2. y[j + 1] = x[j]
          BY DEF Inserted
    <3> QED BY <1>5, <3>1, <3>2
  <2>5. a[j] = a[j - 1] + x[j] /\ a[j - 1] \in Int /\ x[j] \in Int /\ v \in Int
    <3>1. y[k + 1] = v
          BY DEF Inserted
    <3>4. k + 1 \in 1 .. Len(y)
          BY <1>3
    <3>5. y[k + 1] \in Int /\ x[j] \in Int
          BY <3>4, ElementOfSeq
    <3>2. v \in Int /\ x[j] \in Int
          BY <3>1, <3>5
    <3>3. j \in 1 .. n /\ j - 1 \in 0 .. n
          OBVIOUS
    <3> QED BY <1>4, <3>2, <3>3
  <2>6. b[j + 1] = a[j] + v
        BY <2>3, <2>4, <2>5
  <2> QED BY <2>1, <2>6
<1>12. \A i \in Nat : i \in R
  <2> HIDE DEF R
  <2> QED BY <1>10, <1>11, Inductive
<1>13. ASSUME NEW i \in k .. n PROVE b[i + 1] = a[i] + v
  <2>1. i - k \in Nat /\ k + (i - k) = i
        OBVIOUS
  <2>2. i - k \in R
        BY <1>12, <2>1
  <2> QED BY <2>1, <2>2
<1>14. I!Sum(x) = a[n] /\ I!Sum(y) = b[n + 1]
       BY <1>1, <1>2, <1>3 DEF I!Sum
<1> QED BY <1>1, <1>2, <1>9, <1>13, <1>14

LEMMA NoSum == I!Sum(<<>>) = 0
<1>1. <<>> \in Seq(Int) /\ Len(<<>>) = 0
      OBVIOUS
<1>2. I!Sums(<<>>)[0] = 0
      BY <1>1, SumsExist
<1> QED BY <1>1, <1>2 DEF I!Sum

-----------------------------------------------------------------------------
(* The inputs channel *)

Weight(m) == IF m.kind = "motion" THEN m.val ELSE 0
One(m) == IF m.kind \in {"motion", "position"} THEN 1 ELSE 0
Ack(m) == IF m.kind = "ack" THEN 1 ELSE 0
Packets == {m \in [kind : {"motion", "position", "button", "locks", "ack"}, val : Nat] :
              m.kind = "locks" => m.val \in 0 .. 1}

\* The message told last of the lock keys says v.
Telling(q, v) ==
  \A i \in 1 .. Len(q) :
    q[i].kind = "locks" /\ (\A j \in 1 .. Len(q) : j > i => q[j].kind # "locks") => q[i].val = v
NoLocks(q) == \A i \in 1 .. Len(q) : q[i].kind # "locks"

\* No button of q comes before the motion it follows, when base is there already.
Clicked(q, base) ==
  \A i \in 1 .. Len(q) : q[i].kind = "button" => base + I!Sums(I!Motions(q))[i] >= q[i].val

\* Another message, after the first k
Weighs(q, r, x, y) ==
  /\ x \in [1 .. Len(q) -> Int] /\ y \in [1 .. Len(r) -> Int]
  /\ \A i \in 1 .. Len(q), j \in 1 .. Len(r) : q[i] = r[j] => x[i] = y[j]

LEMMA MappedInserted ==
  ASSUME NEW q \in Seq(Packets), NEW r \in Seq(Packets), NEW n \in Nat, n = Len(q),
         NEW k \in 0 .. n, NEW m \in Packets, Inserted(q, r, k, m),
         NEW x, NEW y, Weighs(q, r, x, y), NEW v, y[k + 1] = v
  PROVE  /\ \A i \in 0 .. k : I!Sums(y)[i] = I!Sums(x)[i]
         /\ \A i \in k .. n : I!Sums(y)[i + 1] = I!Sums(x)[i] + v
         /\ I!Sum(y) = I!Sum(x) + v
<1>1. PICK p \in Nat : p = Len(r) /\ p = n + 1
      BY DEF Inserted
<1>2. r[k + 1] = m /\ (\A i \in 1 .. k : r[i] = q[i]) /\ \A i \in k + 1 .. n : r[i + 1] = q[i]
      BY DEF Inserted
<1>3. x \in [1 .. n -> Int] /\ x \in Seq(Int) /\ Len(x) = n
  <2>1. x \in [1 .. n -> Int]
        BY DEF Weighs
  <2> QED BY <2>1
<1>4. y \in [1 .. p -> Int] /\ y \in Seq(Int) /\ Len(y) = p
  <2>1. y \in [1 .. p -> Int]
        BY <1>1 DEF Weighs
  <2> QED BY <2>1
<1>5. ASSUME NEW i \in 1 .. k PROVE y[i] = x[i]
  <2>1. i \in 1 .. p /\ i \in 1 .. n
        BY <1>1
  <2> QED BY <1>1, <1>2, <2>1 DEF Weighs
<1>6. ASSUME NEW i \in k + 1 .. n PROVE y[i + 1] = x[i]
  <2>1. i + 1 \in 1 .. p /\ i \in 1 .. n
        BY <1>1
  <2> QED BY <1>1, <1>2, <2>1 DEF Weighs
<1>7. Inserted(x, y, k, v)
      BY <1>1, <1>3, <1>4, <1>5, <1>6 DEF Inserted
<1> QED BY <1>3, <1>4, <1>7, SumsInserted

LEMMA MessageInserted ==
  ASSUME NEW q \in Seq(Packets), NEW r \in Seq(Packets), NEW n \in Nat, n = Len(q),
         NEW k \in 0 .. n, NEW m \in Packets, Inserted(q, r, k, m)
  PROVE  /\ I!Sum(I!Motions(r)) = I!Sum(I!Motions(q)) + Weight(m)
         /\ I!Sum(I!Counts(r)) = I!Sum(I!Counts(q)) + One(m)
         /\ I!Sum(I!Acks(r)) = I!Sum(I!Acks(q)) + Ack(m)
         /\ \A i \in 0 .. k : I!Sums(I!Motions(r))[i] = I!Sums(I!Motions(q))[i]
         /\ \A i \in k .. n : I!Sums(I!Motions(r))[i + 1] = I!Sums(I!Motions(q))[i] + Weight(m)
<1>1. /\ \A i \in 1 .. Len(q) : q[i] \in Packets
      /\ \A i \in 1 .. Len(r) : r[i] \in Packets
      BY ElementOfSeq
<1>2. \A p \in Packets : Weight(p) \in Int /\ One(p) \in Int /\ Ack(p) \in Int
      BY DEF Weight, One, Ack, Packets
<1>3. k + 1 \in 1 .. Len(r) /\ r[k + 1] = m
      BY DEF Inserted
<1>4. PICK x, y : x = I!Motions(q) /\ y = I!Motions(r)
      OBVIOUS
<1>5. /\ x \in [1 .. Len(q) -> Int] /\ \A i \in 1 .. Len(q) : x[i] = Weight(q[i])
      /\ y \in [1 .. Len(r) -> Int] /\ \A i \in 1 .. Len(r) : y[i] = Weight(r[i])
  <2>1. /\ x = [i \in 1 .. Len(q) |-> Weight(q[i])]
        /\ y = [i \in 1 .. Len(r) |-> Weight(r[i])]
        BY <1>4 DEF I!Motions, Weight
  <2> QED BY <1>1, <1>2, <2>1
<1>6. PICK v : v = Weight(m) /\ y[k + 1] = v
      BY <1>3, <1>5
<1>7. Weighs(q, r, x, y)
      BY <1>5 DEF Weighs
<1>8. /\ \A i \in 0 .. k : I!Sums(y)[i] = I!Sums(x)[i]
      /\ \A i \in k .. n : I!Sums(y)[i + 1] = I!Sums(x)[i] + v
      /\ I!Sum(y) = I!Sum(x) + v
      BY <1>6, <1>7, MappedInserted
<1>9. I!Sum(I!Counts(r)) = I!Sum(I!Counts(q)) + One(m)
  <2>1. PICK a, b : a = I!Counts(q) /\ b = I!Counts(r)
        OBVIOUS
  <2>2. /\ a = [i \in 1 .. Len(q) |-> One(q[i])]
        /\ b = [i \in 1 .. Len(r) |-> One(r[i])]
        BY <2>1 DEF I!Counts, One
  <2>3. /\ a \in [1 .. Len(q) -> Int] /\ \A i \in 1 .. Len(q) : a[i] = One(q[i])
        /\ b \in [1 .. Len(r) -> Int] /\ \A i \in 1 .. Len(r) : b[i] = One(r[i])
        BY <1>1, <1>2, <2>2
  <2>4. PICK c : c = One(m) /\ b[k + 1] = c
        BY <1>3, <2>3
  <2>5. Weighs(q, r, a, b)
        BY <2>3 DEF Weighs
  <2>6. I!Sum(b) = I!Sum(a) + c
        BY <2>4, <2>5, MappedInserted
  <2> QED BY <2>1, <2>4, <2>6
<1>10. I!Sum(I!Acks(r)) = I!Sum(I!Acks(q)) + Ack(m)
  <2>1. PICK a, b : a = I!Acks(q) /\ b = I!Acks(r)
        OBVIOUS
  <2>2. /\ a = [i \in 1 .. Len(q) |-> Ack(q[i])]
        /\ b = [i \in 1 .. Len(r) |-> Ack(r[i])]
        BY <2>1 DEF I!Acks, Ack
  <2>3. /\ a \in [1 .. Len(q) -> Int] /\ \A i \in 1 .. Len(q) : a[i] = Ack(q[i])
        /\ b \in [1 .. Len(r) -> Int] /\ \A i \in 1 .. Len(r) : b[i] = Ack(r[i])
        BY <1>1, <1>2, <2>2
  <2>4. PICK c : c = Ack(m) /\ b[k + 1] = c
        BY <1>3, <2>3
  <2>5. Weighs(q, r, a, b)
        BY <2>3 DEF Weighs
  <2>6. I!Sum(b) = I!Sum(a) + c
        BY <2>4, <2>5, MappedInserted
  <2> QED BY <2>1, <2>4, <2>6
<1> QED BY <1>4, <1>6, <1>8, <1>9, <1>10

\* Where a message is put in: at the end, between what is written and what waits, at the front
LEMMA PutAtEnd ==
  ASSUME NEW T, NEW s \in Seq(T), NEW m \in T
  PROVE  Append(s, m) \in Seq(T) /\ Inserted(s, Append(s, m), Len(s), m)
<1>1. PICK n \in Nat : n = Len(s)
      BY LenProperties
<1>2. PICK z : z = Append(s, m)
      OBVIOUS
<1>3. /\ z \in Seq(T) /\ Len(z) = n + 1 /\ z[n + 1] = m
      /\ \A i \in 1 .. n : z[i] = s[i]
      BY <1>1, <1>2, AppendProperties
<1> QED BY <1>1, <1>2, <1>3 DEF Inserted

LEMMA PutBetween ==
  ASSUME NEW T, NEW s \in Seq(T), NEW t \in Seq(T), NEW m \in T
  PROVE  /\ s \o t \in Seq(T) /\ Append(s, m) \o t \in Seq(T)
         /\ Len(s) \in 0 .. Len(s \o t) /\ Inserted(s \o t, Append(s, m) \o t, Len(s), m)
<1>1. PICK n \in Nat : n = Len(s)
      BY LenProperties
<1>2. PICK p \in Nat : p = Len(t)
      BY LenProperties
<1>3. PICK z : z = Append(s, m)
      OBVIOUS
<1>4. /\ z \in Seq(T) /\ Len(z) = n + 1 /\ z[n + 1] = m
      /\ \A i \in 1 .. n : z[i] = s[i]
      BY <1>1, <1>3, AppendProperties
<1>5. PICK a : a = s \o t
      OBVIOUS
<1>6. PICK b : b = z \o t
      OBVIOUS
<1>7. /\ a \in Seq(T) /\ Len(a) = n + p
      /\ \A i \in 1 .. n + p : a[i] = IF i <= n THEN s[i] ELSE t[i - n]
      BY <1>1, <1>2, <1>5, ConcatProperties
<1>8. /\ b \in Seq(T) /\ Len(b) = (n + 1) + p
      /\ \A i \in 1 .. (n + 1) + p : b[i] = IF i <= n + 1 THEN z[i] ELSE t[i - (n + 1)]
  <2>1. PICK l \in Nat : l = n + 1 /\ l = Len(z)
        BY <1>4
  <2>2. /\ b \in Seq(T) /\ Len(b) = l + p
        /\ \A i \in 1 .. l + p : b[i] = IF i <= l THEN z[i] ELSE t[i - l]
    <3>1. z \in Seq(T)
          BY <1>4
    <3>2. /\ z \o t \in Seq(T) /\ Len(z \o t) = Len(z) + Len(t)
          /\ \A i \in 1 .. Len(z) + Len(t) :
               (z \o t)[i] = IF i <= Len(z) THEN z[i] ELSE t[i - Len(z)]
          BY <3>1, ConcatProperties
    <3> QED BY <1>2, <1>6, <2>1, <3>2
  <2> QED BY <2>1, <2>2
<1>9. ASSUME NEW i \in 1 .. n PROVE b[i] = a[i]
  <2>1. i \in 1 .. (n + 1) + p /\ i <= n + 1 /\ i \in 1 .. n + p /\ i <= n
        OBVIOUS
  <2> QED BY <1>4, <1>7, <1>8, <2>1
<1>10. ASSUME NEW i \in n + 1 .. n + p PROVE b[i + 1] = a[i]
  <2>1. /\ i + 1 \in 1 .. (n + 1) + p /\ ~(i + 1 <= n + 1) /\ i \in 1 .. n + p /\ ~(i <= n)
        /\ (i + 1) - (n + 1) = i - n
        OBVIOUS
  <2> QED BY <1>7, <1>8, <2>1
<1>11. b[n + 1] = m
  <2>1. n + 1 \in 1 .. (n + 1) + p /\ n + 1 <= n + 1
        OBVIOUS
  <2> QED BY <1>4, <1>8, <2>1
<1>12. Inserted(a, b, n, m)
       BY <1>7, <1>8, <1>9, <1>10, <1>11 DEF Inserted
<1> QED BY <1>1, <1>3, <1>5, <1>6, <1>7, <1>8, <1>12

LEMMA TakeHead ==
  ASSUME NEW T, NEW s \in Seq(T), s # <<>>
  PROVE  Head(s) \in T /\ Tail(s) \in Seq(T) /\ Inserted(Tail(s), s, 0, Head(s))
<1>1. PICK n \in Nat : n = Len(s)
      BY LenProperties
<1>2. PICK z : z = Tail(s)
      OBVIOUS
<1>3. /\ Head(s) \in T /\ z \in Seq(T) /\ Len(z) = n - 1
      /\ \A i \in 1 .. n - 1 : z[i] = s[i + 1]
      BY <1>1, <1>2, HeadTailProperties
<1>4. s[1] = Head(s)
      OBVIOUS
<1> QED BY <1>1, <1>2, <1>3, <1>4 DEF Inserted

LEMMA TakeHeadBefore ==
  ASSUME NEW T, NEW s \in Seq(T), NEW t \in Seq(T), s # <<>>
  PROVE  /\ Head(s) \in T /\ Tail(s) \in Seq(T) /\ Tail(s) \o t \in Seq(T) /\ s \o t \in Seq(T)
         /\ Inserted(Tail(s) \o t, s \o t, 0, Head(s))
<1>1. PICK n \in Nat : n = Len(s) - 1
  <2>1. Len(s) \in Nat \ {0}
        BY EmptySeq
  <2> QED BY <2>1
<1>2. PICK p \in Nat : p = Len(t)
      BY LenProperties
<1>3. PICK h, z : h = Head(s) /\ z = Tail(s)
      OBVIOUS
<1>4. /\ h \in T /\ z \in Seq(T) /\ Len(z) = n /\ h = s[1] /\ Len(s) = n + 1
      /\ \A i \in 1 .. n : z[i] = s[i + 1]
      BY <1>1, <1>3, HeadTailProperties
<1>5. PICK a, b : a = z \o t /\ b = s \o t
      OBVIOUS
<1>6. /\ a \in Seq(T) /\ Len(a) = n + p
      /\ \A i \in 1 .. n + p : a[i] = IF i <= n THEN z[i] ELSE t[i - n]
      BY <1>2, <1>4, <1>5, ConcatProperties
<1>7. /\ b \in Seq(T) /\ Len(b) = (n + 1) + p
      /\ \A i \in 1 .. (n + 1) + p : b[i] = IF i <= n + 1 THEN s[i] ELSE t[i - (n + 1)]
  <2>1. PICK l \in Nat : l = n + 1 /\ l = Len(s)
        BY <1>4
  <2>2. /\ b \in Seq(T) /\ Len(b) = l + p
        /\ \A i \in 1 .. l + p : b[i] = IF i <= l THEN s[i] ELSE t[i - l]
        BY <1>2, <1>5, <2>1, ConcatProperties
  <2> QED BY <2>1, <2>2
<1>8. b[1] = h
  <2>1. 1 \in 1 .. (n + 1) + p /\ 1 <= n + 1
        OBVIOUS
  <2> QED BY <1>4, <1>7, <2>1
<1>9. ASSUME NEW i \in 1 .. n + p PROVE b[i + 1] = a[i]
  <2>1. i + 1 \in 1 .. (n + 1) + p /\ (i + 1) - (n + 1) = i - n
        OBVIOUS
  <2>2. CASE i <= n
    <3>1. i + 1 <= n + 1 /\ i \in 1 .. n
          BY <2>2
    <3> QED BY <1>4, <1>6, <1>7, <2>1, <2>2, <3>1
  <2>3. CASE ~(i <= n)
    <3>1. ~(i + 1 <= n + 1)
          BY <2>3
    <3> QED BY <1>6, <1>7, <2>1, <2>3, <3>1
  <2> QED BY <2>2, <2>3
<1>10. Inserted(a, b, 0, h)
       BY <1>6, <1>7, <1>8, <1>9 DEF Inserted
<1> QED BY <1>3, <1>4, <1>5, <1>6, <1>7, <1>10

\* The sums are numbers.
LEMMA MotionSums ==
  ASSUME NEW q \in Seq(Packets), NEW n \in Nat, n = Len(q)
  PROVE  /\ \A i \in 0 .. n : I!Sums(I!Motions(q))[i] \in Int
         /\ I!Sum(I!Motions(q)) = I!Sums(I!Motions(q))[n]
         /\ I!Sum(I!Motions(q)) \in Int /\ I!Sum(I!Counts(q)) \in Int /\ I!Sum(I!Acks(q)) \in Int
<1>1. \A i \in 1 .. n : q[i] \in Packets
      BY ElementOfSeq
<1>2. PICK x, y, z : x = I!Motions(q) /\ y = I!Counts(q) /\ z = I!Acks(q)
      OBVIOUS
<1>3. x \in [1 .. n -> Int] /\ y \in [1 .. n -> Int] /\ z \in [1 .. n -> Int]
      BY <1>1, <1>2 DEF I!Motions, I!Counts, I!Acks, Packets
<1>4. /\ x \in Seq(Int) /\ Len(x) = n
      /\ y \in Seq(Int) /\ Len(y) = n
      /\ z \in Seq(Int) /\ Len(z) = n
      BY <1>3
<1>5. /\ \A i \in 0 .. n : I!Sums(x)[i] \in Int
      /\ \A i \in 0 .. n : I!Sums(y)[i] \in Int
      /\ \A i \in 0 .. n : I!Sums(z)[i] \in Int
      BY <1>4, SumsExist
<1> QED BY <1>2, <1>4, <1>5 DEF I!Sum

LEMMA ClickedInserted ==
  ASSUME NEW q \in Seq(Packets), NEW r \in Seq(Packets), NEW n \in Nat, n = Len(q),
         NEW k \in 0 .. n, NEW m \in Packets, Inserted(q, r, k, m),
         NEW base \in Int, Clicked(q, base),
         m.kind = "button" => base + I!Sums(I!Motions(q))[k] >= m.val
  PROVE  Clicked(r, base)
<1>1. PICK a, b : a = I!Sums(I!Motions(q)) /\ b = I!Sums(I!Motions(r))
      OBVIOUS
<1>2. /\ \A i \in 0 .. k : b[i] = a[i]
      /\ \A i \in k .. n : b[i + 1] = a[i] + Weight(m)
      BY <1>1, MessageInserted
<1>3. \A i \in 0 .. n : a[i] \in Int
      BY <1>1, MotionSums
<1>4. Weight(m) \in Nat
      BY DEF Weight, Packets
<1>5. \A i \in 1 .. n : q[i] \in Packets /\ (q[i].kind = "button" => base + a[i] >= q[i].val)
      BY <1>1, ElementOfSeq DEF Clicked
<1>6. \A p \in Packets : p.val \in Nat
      BY DEF Packets
<1> SUFFICES ASSUME NEW i \in 1 .. n + 1, r[i].kind = "button"
             PROVE  base + b[i] >= r[i].val
    BY <1>1 DEF Clicked, Inserted
<1>7. CASE i <= k
  <2>1. r[i] = q[i] /\ b[i] = a[i] /\ i \in 1 .. n
        BY <1>2, <1>7 DEF Inserted
  <2> QED BY <1>5, <2>1
<1>8. CASE i = k + 1
  <2>1. r[i] = m /\ b[i] = a[k] + Weight(m) /\ a[k] \in Int
        BY <1>2, <1>3, <1>8 DEF Inserted
  <2> QED BY <1>1, <1>4, <1>6, <2>1
<1>9. CASE i > k + 1
  <2>1. PICK j \in k + 1 .. n : i = j + 1
    <3>1. i - 1 \in k + 1 .. n /\ i = (i - 1) + 1
          BY <1>9
    <3> QED BY <3>1
  <2>2. r[j + 1] = q[j] /\ b[j + 1] = a[j] + Weight(m) /\ a[j] \in Int
    <3>1. j \in k .. n /\ j \in 0 .. n
          OBVIOUS
    <3> QED BY <1>2, <1>3, <3>1 DEF Inserted
  <2>3. q[j].kind = "button" => base + a[j] >= q[j].val /\ q[j].val \in Nat
    <3>1. j \in 1 .. n
          OBVIOUS
    <3> QED BY <1>5, <1>6, <3>1
  <2>4. PICK u, v, e : u = a[j] /\ v = Weight(m) /\ e = q[j].val
        OBVIOUS
  <2>5. base + u >= e /\ e \in Nat /\ u \in Int /\ v \in Nat /\ b[i] = u + v /\ r[i].val = e
        BY <1>4, <2>1, <2>2, <2>3, <2>4
  <2> QED BY <2>5
<1> QED BY <1>7, <1>8, <1>9

LEMMA ClickedTaken ==
  ASSUME NEW q \in Seq(Packets), NEW r \in Seq(Packets), NEW m \in Packets,
         Inserted(r, q, 0, m), NEW base \in Int, Clicked(q, base)
  PROVE  Clicked(r, base + Weight(m))
<1>1. PICK n \in Nat : n = Len(r)
      BY LenProperties
<1>2. PICK a, b : a = I!Sums(I!Motions(r)) /\ b = I!Sums(I!Motions(q))
      OBVIOUS
<1>3. \A i \in 0 .. n : b[i + 1] = a[i] + Weight(m)
      BY <1>1, <1>2, MessageInserted
<1>4. \A i \in 0 .. n : a[i] \in Int
      BY <1>1, <1>2, MotionSums
<1>5. Weight(m) \in Nat
      BY DEF Weight, Packets
<1> SUFFICES ASSUME NEW i \in 1 .. n, r[i].kind = "button"
             PROVE  (base + Weight(m)) + a[i] >= r[i].val
    BY <1>1, <1>2 DEF Clicked
<1>6. r[i] = q[i + 1] /\ i + 1 \in 1 .. Len(q)
      BY <1>1 DEF Inserted
<1>7. base + b[i + 1] >= r[i].val
      BY <1>2, <1>6 DEF Clicked
<1>8. r[i].val \in Nat
  <2>1. r[i] \in Packets
        BY <1>1, ElementOfSeq
  <2> QED BY <2>1 DEF Packets
<1>9. PICK u, v, e : u = a[i] /\ v = Weight(m) /\ e = r[i].val
      OBVIOUS
<1>10. b[i + 1] = u + v /\ u \in Int /\ v \in Nat /\ e \in Nat
  <2>1. i \in 0 .. n
        OBVIOUS
  <2> QED BY <1>3, <1>4, <1>5, <1>8, <1>9, <2>1
<1> QED BY <1>7, <1>9, <1>10

\* The lock keys told last, with another message put in, at the end or before the first
LEMMA LocksInserted ==
  ASSUME NEW q, NEW r, NEW n \in Nat, n = Len(q), NEW k \in 0 .. n, NEW m,
         Inserted(q, r, k, m), m.kind # "locks"
  PROVE  /\ \A v : Telling(q, v) <=> Telling(r, v)
         /\ NoLocks(q) <=> NoLocks(r)
<1>1. /\ Len(r) = n + 1 /\ r[k + 1] = m
      /\ \A i \in 1 .. k : r[i] = q[i]
      /\ \A i \in k + 1 .. n : r[i + 1] = q[i]
      BY DEF Inserted
<1>2. ASSUME NEW i \in 1 .. n + 1, r[i].kind = "locks"
      PROVE  \/ i \in 1 .. k /\ i \in 1 .. n /\ r[i] = q[i]
             \/ \E h \in k + 1 .. n : h \in 1 .. n /\ i = h + 1 /\ r[i] = q[h]
  <2>1. i # k + 1
        BY <1>1, <1>2
  <2>2. CASE i <= k
        BY <1>1, <2>2
  <2>3. CASE i > k + 1
    <3>1. PICK h \in k + 1 .. n : i = h + 1
      <4>1. i - 1 \in k + 1 .. n /\ i = (i - 1) + 1
            BY <2>3
      <4> QED BY <4>1
    <3>2. r[h + 1] = q[h]
          BY <1>1
    <3> QED BY <3>1, <3>2
  <2> QED BY <2>1, <2>2, <2>3
<1>3. ASSUME NEW h \in 1 .. n
      PROVE  \/ h \in 1 .. k /\ h \in 1 .. n + 1 /\ r[h] = q[h]
             \/ h \in k + 1 .. n /\ h + 1 \in 1 .. n + 1 /\ r[h + 1] = q[h]
      BY <1>1
<1>4. ASSUME NEW v, Telling(q, v) PROVE Telling(r, v)
  <2> SUFFICES ASSUME NEW i \in 1 .. n + 1, r[i].kind = "locks",
                      \A j \in 1 .. n + 1 : j > i => r[j].kind # "locks"
               PROVE  r[i].val = v
      BY <1>1 DEF Telling
  <2>1. CASE i \in 1 .. k /\ i \in 1 .. n /\ r[i] = q[i]
    <3>1. ASSUME NEW j \in 1 .. n, j > i PROVE q[j].kind # "locks"
          BY <1>3, <2>1, <3>1
    <3> QED BY <1>4, <2>1, <3>1 DEF Telling
  <2>2. CASE \E h \in k + 1 .. n : h \in 1 .. n /\ i = h + 1 /\ r[i] = q[h]
    <3>1. PICK h \in k + 1 .. n : h \in 1 .. n /\ i = h + 1 /\ r[i] = q[h]
          BY <2>2
    <3>2. ASSUME NEW j \in 1 .. n, j > h PROVE q[j].kind # "locks"
      <4>1. j + 1 \in 1 .. n + 1 /\ r[j + 1] = q[j] /\ j + 1 > i
            BY <1>1, <3>1, <3>2
      <4> QED BY <4>1
    <3> QED BY <1>4, <3>1, <3>2 DEF Telling
  <2> QED BY <1>2, <2>1, <2>2
<1>5. ASSUME NEW v, Telling(r, v) PROVE Telling(q, v)
  <2> SUFFICES ASSUME NEW h \in 1 .. n, q[h].kind = "locks",
                      \A j \in 1 .. n : j > h => q[j].kind # "locks"
               PROVE  q[h].val = v
      BY DEF Telling
  <2>1. PICK i \in 1 .. n + 1 : r[i] = q[h] /\ ((i = h /\ h <= k) \/ (i = h + 1 /\ h > k))
    <3>1. CASE h \in 1 .. k /\ h \in 1 .. n + 1 /\ r[h] = q[h]
      <4>1. h <= k /\ h = h
            BY <3>1
      <4> QED BY <3>1, <4>1
    <3>2. CASE h \in k + 1 .. n /\ h + 1 \in 1 .. n + 1 /\ r[h + 1] = q[h]
          BY <3>2
    <3> QED BY <1>3, <3>1, <3>2
  <2>2. ASSUME NEW j \in 1 .. n + 1, j > i, r[j].kind = "locks" PROVE FALSE
    <3>1. CASE j \in 1 .. k /\ j \in 1 .. n /\ r[j] = q[j]
      <4>1. j > h
            BY <2>1, <2>2, <3>1
      <4> QED BY <2>2, <3>1, <4>1
    <3>2. CASE \E g \in k + 1 .. n : g \in 1 .. n /\ j = g + 1 /\ r[j] = q[g]
      <4>1. PICK g \in k + 1 .. n : g \in 1 .. n /\ j = g + 1 /\ r[j] = q[g]
            BY <3>2
      <4>2. g > h
            BY <2>1, <2>2, <4>1
      <4> QED BY <2>2, <4>1, <4>2
    <3> QED BY <1>2, <2>2, <3>1, <3>2
  <2>3. r[i].val = v
        BY <1>1, <1>5, <2>1, <2>2 DEF Telling
  <2> QED BY <2>1, <2>3
<1>6. NoLocks(q) <=> NoLocks(r)
  <2>1. ASSUME NoLocks(q), NEW i \in 1 .. n + 1, r[i].kind = "locks" PROVE FALSE
        BY <1>2, <2>1 DEF NoLocks
  <2>2. ASSUME NoLocks(r), NEW h \in 1 .. n, q[h].kind = "locks" PROVE FALSE
        BY <1>1, <1>3, <2>2 DEF NoLocks
  <2> QED BY <1>1, <2>1, <2>2 DEF NoLocks
<1> QED BY <1>4, <1>5, <1>6

LEMMA LocksAppended ==
  ASSUME NEW q, NEW r, NEW n \in Nat, n = Len(q), NEW m, Inserted(q, r, n, m), m.kind = "locks"
  PROVE  Telling(r, m.val) /\ ~NoLocks(r)
<1>1. Len(r) = n + 1 /\ r[n + 1] = m /\ n + 1 \in 1 .. n + 1
      BY DEF Inserted
<1>2. ASSUME NEW i \in 1 .. n + 1, \A j \in 1 .. n + 1 : j > i => r[j].kind # "locks"
      PROVE  i = n + 1
      BY <1>1, <1>2
<1> QED BY <1>1, <1>2 DEF Telling, NoLocks

LEMMA LocksTaken ==
  ASSUME NEW q, NEW r, NEW n \in Nat, n = Len(r), NEW m, Inserted(r, q, 0, m), m.kind = "locks",
         NEW v, Telling(q, v)
  PROVE  /\ Telling(r, v)
         /\ NoLocks(r) => m.val = v
<1>1. Len(q) = n + 1 /\ q[1] = m /\ \A i \in 1 .. n : q[i + 1] = r[i]
      BY DEF Inserted
<1>2. Telling(r, v)
  <2> SUFFICES ASSUME NEW i \in 1 .. n, r[i].kind = "locks",
                      \A j \in 1 .. n : j > i => r[j].kind # "locks"
               PROVE  r[i].val = v
      BY DEF Telling
  <2>1. i + 1 \in 1 .. n + 1 /\ q[i + 1] = r[i]
        BY <1>1
  <2>2. ASSUME NEW j \in 1 .. n + 1, j > i + 1 PROVE q[j].kind # "locks"
    <3>1. j - 1 \in 1 .. n /\ j - 1 > i /\ (j - 1) + 1 = j
          BY <2>2
    <3>2. q[(j - 1) + 1] = r[j - 1]
          BY <1>1, <3>1
    <3> QED BY <3>1, <3>2
  <2> QED BY <1>1, <2>1, <2>2 DEF Telling
<1>3. ASSUME NoLocks(r) PROVE m.val = v
  <2>1. ASSUME NEW j \in 1 .. n + 1, j > 1 PROVE q[j].kind # "locks"
    <3>1. j - 1 \in 1 .. n /\ (j - 1) + 1 = j
          BY <2>1
    <3>2. q[(j - 1) + 1] = r[j - 1]
          BY <1>1, <3>1
    <3> QED BY <1>3, <3>1, <3>2 DEF NoLocks
  <2>2. 1 \in 1 .. n + 1
        OBVIOUS
  <2> QED BY <1>1, <2>1, <2>2 DEF Telling
<1> QED BY <1>2, <1>3

LEMMA AppendAfter ==
  ASSUME NEW T, NEW s \in Seq(T), NEW t \in Seq(T), NEW m \in T
  PROVE  s \o Append(t, m) = Append(s \o t, m)
<1>1. Append(t, m) = t \o <<m>> /\ <<m>> \in Seq(T)
      BY AppendIsConcat
<1>2. Append(s \o t, m) = (s \o t) \o <<m>>
      BY AppendIsConcat, ConcatProperties
<1> QED BY <1>1, <1>2, ConcatAssociative

\* What two lists of messages have in common when one has, besides, motion d in n messages
Alike(q, r, d, n) ==
  /\ r \in Seq(Packets)
  /\ I!Sum(I!Motions(r)) = I!Sum(I!Motions(q)) + d
  /\ I!Sum(I!Counts(r)) = I!Sum(I!Counts(q)) + n
  /\ \A v : Telling(q, v) <=> Telling(r, v)
  /\ NoLocks(q) <=> NoLocks(r)
  /\ \A base \in Nat : Clicked(q, base) => Clicked(r, base)

LEMMA AlikeSame ==
  ASSUME NEW q \in Seq(Packets)
  PROVE  Alike(q, q, 0, 0)
<1>1. PICK n \in Nat : n = Len(q)
      BY LenProperties
<1>2. I!Sum(I!Motions(q)) \in Int /\ I!Sum(I!Counts(q)) \in Int
      BY <1>1, MotionSums
<1> QED BY <1>2 DEF Alike

LEMMA AlikeAgain ==
  ASSUME NEW q \in Seq(Packets), NEW r, NEW u, NEW d \in Int, NEW n \in Int, NEW e \in Int,
         NEW o \in Int, Alike(q, r, d, n), Alike(r, u, e, o)
  PROVE  Alike(q, u, d + e, n + o)
<1>1. PICK x, y \in Int : x = I!Sum(I!Motions(q)) /\ y = I!Sum(I!Counts(q))
  <2>1. PICK k \in Nat : k = Len(q)
        BY LenProperties
  <2> QED BY <2>1, MotionSums
<1>2. /\ I!Sum(I!Motions(r)) = x + d /\ I!Sum(I!Counts(r)) = y + n
      /\ I!Sum(I!Motions(u)) = I!Sum(I!Motions(r)) + e
      /\ I!Sum(I!Counts(u)) = I!Sum(I!Counts(r)) + o
      BY <1>1 DEF Alike
<1>3. I!Sum(I!Motions(u)) = x + (d + e) /\ I!Sum(I!Counts(u)) = y + (n + o)
      BY <1>2
<1> QED BY <1>1, <1>3 DEF Alike

\* A motion or a position, anywhere
LEMMA MovePut ==
  ASSUME NEW s \in Seq(Packets), NEW t \in Seq(Packets), NEW m \in Packets,
         m.kind \in {"motion", "position"}
  PROVE  Alike(s \o t, Append(s, m) \o t, Weight(m), 1)
<1>1. PICK q \in Seq(Packets) : q = s \o t
      BY PutBetween
<1>2. PICK r \in Seq(Packets) : r = Append(s, m) \o t
      BY PutBetween
<1>3. PICK n \in Nat : n = Len(q)
      BY LenProperties
<1>4. PICK k \in 0 .. n : k = Len(s) /\ Inserted(q, r, k, m)
      BY <1>1, <1>2, <1>3, PutBetween
<1>5. One(m) = 1
      BY DEF One
<1>6. /\ I!Sum(I!Motions(r)) = I!Sum(I!Motions(q)) + Weight(m)
      /\ I!Sum(I!Counts(r)) = I!Sum(I!Counts(q)) + One(m)
      BY <1>3, <1>4, MessageInserted
<1>7. m.kind # "locks" /\ m.kind # "button"
      OBVIOUS
<1>8. (\A v : Telling(q, v) <=> Telling(r, v)) /\ (NoLocks(q) <=> NoLocks(r))
      BY <1>3, <1>4, <1>7, LocksInserted
<1>9. \A base \in Nat : Clicked(q, base) => Clicked(r, base)
  <2> SUFFICES ASSUME NEW base \in Nat, Clicked(q, base) PROVE Clicked(r, base)
      OBVIOUS
  <2>1. base \in Int
        OBVIOUS
  <2> QED BY <1>3, <1>4, <1>7, <2>1, ClickedInserted
<1>10. Alike(q, r, Weight(m), 1)
       BY <1>5, <1>6, <1>8, <1>9 DEF Alike
<1> QED BY <1>1, <1>2, <1>10

LEMMA NothingHeld ==
  ASSUME NEW d \in Nat, NEW p \in Nat \cup {-1}, NEW h, h = I!Motion(d) \o I!Position(p)
  PROVE  h = <<>> <=> d = 0 /\ p = -1
<1>1. PICK a, b : a = I!Msg("motion", d) /\ b = I!Msg("position", p)
      OBVIOUS
<1>2. <<>> \o <<>> = <<>> /\ <<a>> \o <<>> # <<>> /\ <<>> \o <<b>> # <<>> /\ <<a>> \o <<b>> # <<>>
  <2>1. Len(<<a>> \o <<>>) = 1 /\ Len(<<>> \o <<b>>) = 1 /\ Len(<<a>> \o <<b>>) = 2
        OBVIOUS
  <2>2. Len(<<>>) = 0 /\ <<>> \o <<>> = <<>>
        OBVIOUS
  <2> QED BY <2>1, <2>2
<1> QED BY <1>1, <1>2 DEF I!Motion, I!Position

\* What is held back, anywhere
LEMMA HeldPut ==
  ASSUME NEW s \in Seq(Packets), NEW t \in Seq(Packets), NEW d \in Nat, NEW p \in Nat \cup {-1},
         NEW h, h = I!Motion(d) \o I!Position(p)
  PROVE  /\ h \in Seq(Packets) /\ s \o h \in Seq(Packets)
         /\ Len(h) \in 0 .. 2
         /\ Alike(s \o t, (s \o h) \o t, d, Len(h))
<1>1. PICK a : a = I!Msg("motion", d)
      OBVIOUS
<1>2. PICK b : b = I!Msg("position", p)
      OBVIOUS
<1>3. a \in Packets /\ a.kind = "motion" /\ Weight(a) = d
      BY <1>1 DEF I!Msg, Packets, Weight
<1>4. p # -1 => b \in Packets /\ b.kind = "position" /\ Weight(b) = 0
      BY <1>2 DEF I!Msg, Packets, Weight
<1> DEFINE z == s \o h
           l == Len(h)
<1> SUFFICES /\ h \in Seq(Packets) /\ z \in Seq(Packets) /\ l \in 0 .. 2
             /\ Alike(s \o t, z \o t, d, l)
    OBVIOUS
<1>5. CASE d = 0 /\ p = -1
  <2>1. h = <<>> /\ l = 0
        BY <1>5 DEF I!Motion, I!Position
  <2>2. z = s
        BY <2>1, ConcatEmptySeq
  <2>3. s \o t \in Seq(Packets)
        BY ConcatProperties
  <2>4. Alike(s \o t, s \o t, 0, 0)
        BY <2>3, AlikeSame
  <2>5. Alike(s \o t, z \o t, d, l)
    <3> HIDE DEF z, l
    <3> QED BY <1>5, <2>1, <2>2, <2>4
  <2>6. h \in Seq(Packets) /\ z \in Seq(Packets)
        BY <2>1, <2>2
  <2> HIDE DEF z, l
  <2> QED BY <1>5, <2>1, <2>5, <2>6
<1>6. CASE d # 0 /\ p = -1
  <2>1. h = <<a>> /\ l = 1
        BY <1>1, <1>6 DEF I!Motion, I!Position
  <2>2. z = Append(s, a) /\ h \in Seq(Packets)
        BY <1>3, <2>1, AppendIsConcat
  <2>3. z \in Seq(Packets)
        BY <1>3, <2>2, AppendProperties
  <2>4. Alike(s \o t, Append(s, a) \o t, Weight(a), 1)
        BY <1>3, MovePut
  <2>5. h # <<>>
        BY <2>1
  <2> HIDE DEF z, l
  <2>6. Alike(s \o t, z \o t, d, l)
        BY <1>3, <2>1, <2>2, <2>4
  <2> QED BY <1>6, <2>1, <2>2, <2>3, <2>5, <2>6
<1>7. CASE d = 0 /\ p # -1
  <2>1. h = <<b>> /\ l = 1
        BY <1>2, <1>7 DEF I!Motion, I!Position
  <2>2. b \in Packets /\ b.kind = "position" /\ Weight(b) = 0
        BY <1>4, <1>7
  <2>3. z = Append(s, b) /\ h \in Seq(Packets)
        BY <2>1, <2>2, AppendIsConcat
  <2>4. z \in Seq(Packets)
        BY <2>2, <2>3, AppendProperties
  <2>5. Alike(s \o t, Append(s, b) \o t, Weight(b), 1)
        BY <2>2, MovePut
  <2>6. h # <<>>
        BY <2>1
  <2> HIDE DEF z, l
  <2>7. Alike(s \o t, z \o t, d, l)
        BY <1>7, <2>1, <2>2, <2>3, <2>5
  <2> QED BY <1>7, <2>1, <2>3, <2>4, <2>6, <2>7
<1>8. CASE d # 0 /\ p # -1
  <2>1. h = <<a>> \o <<b>>
        BY <1>1, <1>2, <1>8 DEF I!Motion, I!Position
  <2>2. b \in Packets /\ b.kind = "position" /\ Weight(b) = 0
        BY <1>4, <1>8
  <2>3. <<a>> \in Seq(Packets) /\ <<b>> \in Seq(Packets) /\ Len(<<a>>) = 1 /\ Len(<<b>>) = 1
        BY <1>3, <2>2
  <2>4. h \in Seq(Packets) /\ l = 2 /\ h # <<>>
    <3>1. h \in Seq(Packets) /\ l = 1 + 1
          BY <2>1, <2>3, ConcatProperties
    <3>2. h = <<>> => l = 0
          OBVIOUS
    <3> QED BY <3>1, <3>2
  <2>5. PICK y \in Seq(Packets) : y = Append(s, a)
        BY <1>3, AppendProperties
  <2>6. y = s \o <<a>>
        BY <1>3, <2>5, AppendIsConcat
  <2>7. PICK x \in Seq(Packets) : x = Append(y, b)
        BY <2>2, AppendProperties
  <2>8. x = y \o <<b>>
        BY <2>2, <2>7, AppendIsConcat
  <2>9. z = x
        BY <2>1, <2>3, <2>6, <2>8, ConcatAssociative
  <2>10. Alike(s \o t, Append(s, a) \o t, Weight(a), 1)
         BY <1>3, MovePut
  <2>11. Alike(y \o t, Append(y, b) \o t, Weight(b), 1)
         BY <2>2, MovePut
  <2>12. PICK q \in Seq(Packets) : q = s \o t
         BY ConcatProperties
  <2>13. PICK u, v : u = y \o t /\ v = x \o t
         OBVIOUS
  <2>14. PICK e \in Int, o \in Int : e = 0 /\ o = 1
         OBVIOUS
  <2>15. Alike(q, u, d, o) /\ Alike(u, v, e, o)
         BY <1>3, <2>2, <2>5, <2>7, <2>10, <2>11, <2>12, <2>13, <2>14
  <2>16. Alike(q, v, d + e, o + o)
    <3>1. d \in Int
          OBVIOUS
    <3> QED BY <2>15, <3>1, AlikeAgain
  <2>17. d + e = d /\ o + o = 2
         BY <2>14
  <2> HIDE DEF z, l
  <2>18. Alike(s \o t, z \o t, d, l)
         BY <2>4, <2>9, <2>12, <2>13, <2>16, <2>17
  <2>19. z \in Seq(Packets)
         BY <2>9
  <2> QED BY <1>8, <2>4, <2>18, <2>19
<1> HIDE DEF z, l
<1> QED BY <1>5, <1>6, <1>7, <1>8

\* A button, at the end
LEMMA ButtonPut ==
  ASSUME NEW q \in Seq(Packets), NEW m \in Packets, m.kind = "button", NEW base \in Nat,
         base + I!Sum(I!Motions(q)) >= m.val, Clicked(q, base)
  PROVE  /\ Append(q, m) \in Seq(Packets)
         /\ I!Sum(I!Motions(Append(q, m))) = I!Sum(I!Motions(q))
         /\ I!Sum(I!Counts(Append(q, m))) = I!Sum(I!Counts(q))
         /\ \A v : Telling(q, v) <=> Telling(Append(q, m), v)
         /\ NoLocks(q) <=> NoLocks(Append(q, m))
         /\ Clicked(Append(q, m), base)
<1>1. PICK n \in Nat : n = Len(q)
      BY LenProperties
<1>2. PICK r \in Seq(Packets) : r = Append(q, m) /\ Inserted(q, r, n, m)
      BY <1>1, PutAtEnd
<1>3. Weight(m) = 0 /\ One(m) = 0 /\ m.kind # "locks"
      BY DEF Weight, One
<1>4. PICK k \in 0 .. n : k = n /\ Inserted(q, r, k, m)
      BY <1>2
<1>5. /\ I!Sum(I!Motions(r)) = I!Sum(I!Motions(q)) + Weight(m)
      /\ I!Sum(I!Counts(r)) = I!Sum(I!Counts(q)) + One(m)
      BY <1>1, <1>4, MessageInserted
<1>6. (\A v : Telling(q, v) <=> Telling(r, v)) /\ (NoLocks(q) <=> NoLocks(r))
      BY <1>1, <1>2, <1>3, <1>4, LocksInserted
<1>7. /\ I!Sum(I!Motions(q)) = I!Sums(I!Motions(q))[n]
      /\ I!Sum(I!Motions(q)) \in Int /\ I!Sum(I!Counts(q)) \in Int
      BY <1>1, MotionSums
<1>8. base \in Int /\ base + I!Sums(I!Motions(q))[n] >= m.val
      BY <1>7
<1>9. Clicked(r, base)
      BY <1>1, <1>2, <1>4, <1>8, ClickedInserted
<1> QED BY <1>2, <1>3, <1>5, <1>6, <1>7, <1>9

\* Lock keys, at the end
LEMMA LocksPut ==
  ASSUME NEW q \in Seq(Packets), NEW m \in Packets, m.kind = "locks"
  PROVE  /\ Append(q, m) \in Seq(Packets)
         /\ I!Sum(I!Motions(Append(q, m))) = I!Sum(I!Motions(q))
         /\ I!Sum(I!Counts(Append(q, m))) = I!Sum(I!Counts(q))
         /\ I!Sum(I!Acks(Append(q, m))) = I!Sum(I!Acks(q))
         /\ Telling(Append(q, m), m.val) /\ ~NoLocks(Append(q, m))
         /\ \A base \in Nat : Clicked(q, base) => Clicked(Append(q, m), base)
<1>1. PICK n \in Nat : n = Len(q)
      BY LenProperties
<1>2. PICK r \in Seq(Packets) : r = Append(q, m) /\ Inserted(q, r, n, m)
      BY <1>1, PutAtEnd
<1>3. Weight(m) = 0 /\ One(m) = 0 /\ Ack(m) = 0 /\ m.kind # "button"
      BY DEF Weight, One, Ack
<1>4. PICK k \in 0 .. n : k = n /\ Inserted(q, r, k, m)
      BY <1>2
<1>5. /\ I!Sum(I!Motions(r)) = I!Sum(I!Motions(q)) + Weight(m)
      /\ I!Sum(I!Counts(r)) = I!Sum(I!Counts(q)) + One(m)
      /\ I!Sum(I!Acks(r)) = I!Sum(I!Acks(q)) + Ack(m)
      BY <1>1, <1>4, MessageInserted
<1>6. Telling(r, m.val) /\ ~NoLocks(r)
      BY <1>1, <1>2, LocksAppended
<1>7. /\ I!Sum(I!Motions(q)) \in Int /\ I!Sum(I!Counts(q)) \in Int
      /\ I!Sum(I!Acks(q)) \in Int
      BY <1>1, MotionSums
<1>8. \A base \in Nat : Clicked(q, base) => Clicked(r, base)
  <2> SUFFICES ASSUME NEW base \in Nat, Clicked(q, base) PROVE Clicked(r, base)
      OBVIOUS
  <2>1. base \in Int
        OBVIOUS
  <2> QED BY <1>1, <1>2, <1>3, <1>4, <2>1, ClickedInserted
<1> QED BY <1>2, <1>3, <1>5, <1>6, <1>7, <1>8

\* A motion or a position, at the end
LEMMA PutAtTheEnd ==
  ASSUME NEW s \in Seq(Packets), NEW t \in Seq(Packets), NEW m \in Packets,
         m.kind \in {"motion", "position"}
  PROVE  /\ Append(t, m) \in Seq(Packets)
         /\ Alike(s \o t, s \o Append(t, m), Weight(m), 1)
<1>1. PICK q \in Seq(Packets) : q = s \o t
      BY ConcatProperties
<1>2. s \o Append(t, m) = Append(q, m)
      BY <1>1, AppendAfter
<1>3. <<>> \in Seq(Packets)
      OBVIOUS
<1>4. Alike(q \o <<>>, Append(q, m) \o <<>>, Weight(m), 1)
      BY <1>3, MovePut
<1>5. q \o <<>> = q /\ Append(q, m) \o <<>> = Append(q, m) /\ Append(t, m) \in Seq(Packets)
      BY AppendProperties, ConcatEmptySeq
<1> QED BY <1>1, <1>2, <1>4, <1>5

-----------------------------------------------------------------------------
Sent == wire \o queued

InputsTypes ==
  /\ ready \in BOOLEAN /\ dx \in Nat /\ dpy \in Nat \cup {-1} /\ asked \in Nat
  /\ motion_count \in Int /\ moved \in Nat /\ resets \in Nat
  /\ queued \in Seq(Packets) /\ wire \in Seq(Packets) /\ toClient \in Seq(Packets)
  /\ locks \in 0 .. 1 /\ caps \in 0 .. 1
  /\ server.motion \in Nat /\ server.locks \in 0 .. 1 /\ server.unacked \in 0 .. AckBunch - 1
  /\ server \in [motion : Int, position : Int, locks : Int, unacked : Int]

\* While the channel is down nothing is under way; the lock keys told last, in each
\* direction, are those their sender has, and when neither tells any the two agree.
InputsInv ==
  /\ InputsTypes
  /\ ~ready => /\ queued = <<>> /\ wire = <<>> /\ toClient = <<>>
               /\ motion_count = 0 /\ server.unacked = 0
  /\ locks = caps
  /\ ready => /\ Telling(Sent, caps) /\ Telling(toClient, server.locks)
              /\ NoLocks(Sent) /\ NoLocks(toClient) => server.locks = caps
  /\ Clicked(Sent, server.motion)
  /\ I!HeldIsAwaited /\ I!MotionConserved

LEMMA BunchIsPositive == AckBunch \in Nat \ {0}
BY DesktopAssumption DEF I!InputsAssumption, I!Bunch

\* The sums of what is under way are numbers.
LEMMA InputsSums ==
  ASSUME InputsTypes
  PROVE  /\ Sent \in Seq(Packets) /\ I!Sum(I!Motions(Sent)) \in Int
         /\ I!Sum(I!Counts(Sent)) \in Int /\ I!Sum(I!Acks(toClient)) \in Int
<1>1. wire \in Seq(Packets) /\ queued \in Seq(Packets) /\ toClient \in Seq(Packets)
      BY DEF InputsTypes
<1>2. PICK q \in Seq(Packets) : q = Sent
      BY <1>1, ConcatProperties DEF Sent
<1>3. PICK n, p \in Nat : n = Len(q) /\ p = Len(toClient)
      BY <1>1, LenProperties
<1>4. I!Sum(I!Motions(q)) \in Int /\ I!Sum(I!Counts(q)) \in Int
      BY <1>3, MotionSums
<1>5. I!Sum(I!Acks(toClient)) \in Int
      BY <1>1, <1>3, MotionSums
<1> QED BY <1>2, <1>4, <1>5

LEMMA NothingSent ==
  /\ I!Sum(I!Motions(<<>> \o <<>>)) = 0 /\ I!Sum(I!Counts(<<>> \o <<>>)) = 0
  /\ I!Sum(I!Acks(<<>>)) = 0
  /\ (\A v : Telling(<<>>, v)) /\ NoLocks(<<>>)
  /\ (\A base : Clicked(<<>> \o <<>>, base))
<1>1. <<>> \o <<>> = <<>> /\ Len(<<>>) = 0
      OBVIOUS
<1>2. I!Motions(<<>>) = <<>> /\ I!Counts(<<>>) = <<>> /\ I!Acks(<<>>) = <<>>
      BY <1>1 DEF I!Motions, I!Counts, I!Acks
<1> QED BY <1>1, <1>2, NoSum DEF Telling, NoLocks, Clicked

LEMMA InitInputsInv == I!Init => InputsInv
<1> SUFFICES ASSUME I!Init PROVE InputsInv
    OBVIOUS
<1>1. InputsTypes
  <2>1. <<>> \in Seq(Packets) /\ queued = <<>> /\ wire = <<>> /\ toClient = <<>>
        BY EmptySeq DEF I!Init
  <2>2. server.motion = 0 /\ server.locks = 0 /\ server.unacked = 0 /\ server.position = 0
        BY DEF I!Init
  <2>3. server \in [motion : Int, position : Int, locks : Int, unacked : Int]
        BY DEF I!Init
  <2>4. 0 \in 0 .. AckBunch - 1
        BY BunchIsPositive
  <2>5. /\ dx \in Nat /\ dpy \in Nat \cup {-1} /\ asked \in Nat
        /\ motion_count \in Int /\ moved \in Nat /\ resets \in Nat
        /\ locks \in 0 .. 1 /\ caps \in 0 .. 1
        BY DEF I!Init
  <2>6. ready \in BOOLEAN
        BY DEF I!Init
  <2> QED BY <2>1, <2>2, <2>3, <2>4, <2>5, <2>6 DEF InputsTypes
<1>2. Clicked(Sent, server.motion)
      BY NothingSent DEF I!Init, Sent
<1>3. I!HeldIsAwaited
      BY DEF I!Init, I!HeldIsAwaited
<1>4. I!MotionConserved
      BY NothingSent DEF I!Init, I!MotionConserved
<1>5. locks = caps /\ ~ready
      BY DEF I!Init
<1>6. /\ queued = <<>> /\ wire = <<>> /\ toClient = <<>>
      /\ motion_count = 0 /\ server.unacked = 0
      BY DEF I!Init
<1> QED BY <1>1, <1>2, <1>3, <1>4, <1>5, <1>6 DEF InputsInv

\* A step that lets the list of messages to the server, and no other, have motion d in n
\* messages more
LEMMA MovesKeep ==
  ASSUME InputsInv, NEW d \in Int, NEW n \in Int, ready, ready', Alike(Sent, Sent', d, n),
         InputsTypes', locks' = locks, caps' = caps, toClient' = toClient, server' = server,
         moved' = moved + d + dx' - dx, motion_count' = motion_count + n, I!HeldIsAwaited'
  PROVE  InputsInv'
<1>1. PICK x, y, z \in Int : /\ x = I!Sum(I!Motions(Sent)) /\ y = I!Sum(I!Counts(Sent))
                             /\ z = I!Sum(I!Acks(toClient))
      BY InputsSums DEF InputsInv
<1>2. I!Sum(I!Motions(Sent')) = x + d /\ I!Sum(I!Counts(Sent')) = y + n
      BY <1>1 DEF Alike
<1>3. moved = server.motion + x + dx /\ motion_count = y + server.unacked + AckBunch * z
      BY <1>1 DEF InputsInv, I!MotionConserved, I!Bunch, Sent
<1>4. PICK b \in Int : b = AckBunch * z
      BY <1>1, BunchIsPositive
<1>5. moved' = server.motion + (x + d) + dx' /\ motion_count' = (y + n) + server.unacked + b
  <2>1. /\ dx \in Int /\ dx' \in Int /\ server.motion \in Int /\ server.unacked \in Int
        /\ moved \in Int
        BY BunchIsPositive DEF InputsInv, InputsTypes
  <2> QED BY <1>3, <1>4, <2>1
<1>6. I!MotionConserved'
      BY <1>1, <1>2, <1>4, <1>5 DEF I!MotionConserved, I!Bunch, Sent
<1>7. Clicked(Sent', server.motion)
      BY DEF Alike, InputsInv, InputsTypes
<1>8. Telling(Sent', caps) /\ (NoLocks(Sent') /\ NoLocks(toClient) => server.locks = caps)
      BY DEF Alike, InputsInv
<1>9. Telling(toClient, server.locks) /\ locks = caps
      BY DEF InputsInv
<1> QED BY <1>6, <1>7, <1>8, <1>9 DEF InputsInv

LEMMA MoveByKeeps == InputsInv /\ I!MoveBy => InputsInv'
<1> SUFFICES ASSUME InputsInv, I!MoveBy PROVE InputsInv'
    OBVIOUS
<1>1. InputsTypes
      BY DEF InputsInv
<1>2. /\ ready /\ ready' /\ dpy' = dpy /\ asked' = asked /\ wire' = wire /\ toClient' = toClient
      /\ server' = server /\ resets' = resets /\ locks' = locks /\ caps' = caps
      /\ moved' = moved + 1
      BY DEF I!MoveBy, I!keys
<1>3. CASE I!NotFull
  <2>1. PICK m : m = I!Msg("motion", dx + 1)
        OBVIOUS
  <2>2. queued' = Append(queued, m) /\ dx' = 0 /\ motion_count' = motion_count + 1
        BY <1>3, <2>1 DEF I!MoveBy
  <2>3. m \in Packets /\ m.kind = "motion" /\ Weight(m) = dx + 1
        BY <1>1, <2>1 DEF I!Msg, Packets, Weight, InputsTypes
  <2>4. Alike(Sent, Sent', dx + 1, 1) /\ queued' \in Seq(Packets)
        BY <1>1, <1>2, <2>2, <2>3, PutAtTheEnd DEF Sent, InputsTypes
  <2>5. I!HeldIsAwaited'
    <3>1. motion_count < 2 * AckBunch
          BY <1>3 DEF I!NotFull, I!Bunch
    <3>2. resets = 0 => ~(dpy > 0)
      <4>1. resets = 0 /\ (dx > 0 \/ dpy > 0) => motion_count >= 2 * AckBunch
            BY DEF InputsInv, I!HeldIsAwaited, I!Bunch
      <4> QED BY <1>1, <3>1, <4>1, BunchIsPositive DEF InputsTypes
    <3> QED BY <1>2, <2>2, <3>2 DEF I!HeldIsAwaited
  <2>6. InputsTypes'
        BY <1>1, <1>2, <2>2, <2>4 DEF InputsTypes
  <2>7. moved' = moved + (dx + 1) + dx' - dx
        BY <1>1, <1>2, <2>2 DEF InputsTypes
  <2>8. dx + 1 \in Int /\ 1 \in Int
        BY <1>1 DEF InputsTypes
  <2>9. PICK d \in Int, n \in Int : d = dx + 1 /\ n = 1
        BY <2>8
  <2>10. /\ Alike(Sent, Sent', d, n) /\ moved' = moved + d + dx' - dx
         /\ motion_count' = motion_count + n
         BY <2>2, <2>4, <2>7, <2>9
  <2> QED BY <1>2, <2>5, <2>6, <2>10, MovesKeep
<1>4. CASE ~I!NotFull
  <2>1. dx' = dx + 1 /\ queued' = queued /\ motion_count' = motion_count
        BY <1>4 DEF I!MoveBy
  <2>2. PICK d \in Int : d = 0
        OBVIOUS
  <2>3. Alike(Sent, Sent', d, d)
    <3>1. Sent' = Sent
          BY <1>2, <2>1 DEF Sent
    <3>2. Alike(Sent, Sent, 0, 0)
          BY <1>1, InputsSums, AlikeSame
    <3> QED BY <2>2, <3>1, <3>2
  <2>4. I!HeldIsAwaited'
    <3>1. motion_count >= 2 * AckBunch
          BY <1>1, <1>4, BunchIsPositive DEF I!NotFull, I!Bunch, InputsTypes
    <3> QED BY <2>1, <3>1 DEF I!HeldIsAwaited, I!Bunch
  <2>5. InputsTypes'
        BY <1>1, <1>2, <2>1 DEF InputsTypes
  <2>6. moved' = moved + d + dx' - dx /\ motion_count' = motion_count + d
        BY <1>1, <1>2, <2>1, <2>2 DEF InputsTypes
  <2> QED BY <1>2, <2>3, <2>4, <2>5, <2>6, MovesKeep
<1> QED BY <1>3, <1>4

LEMMA MoveToKeeps == InputsInv /\ I!MoveTo => InputsInv'
<1> SUFFICES ASSUME InputsInv, I!MoveTo PROVE InputsInv'
    OBVIOUS
<1>1. InputsTypes
      BY DEF InputsInv
<1>2. /\ ready /\ ready' /\ dx' = dx /\ asked' = asked + 1 /\ wire' = wire /\ toClient' = toClient
      /\ server' = server /\ resets' = resets /\ locks' = locks /\ caps' = caps
      /\ moved' = moved
      BY DEF I!MoveTo, I!keys
<1>3. PICK d \in Int, n \in Int : d = 0 /\ n = 1
      OBVIOUS
<1>4. moved' = moved + d + dx' - dx
      BY <1>1, <1>2, <1>3 DEF InputsTypes
<1>5. CASE I!NotFull
  <2>1. PICK m : m = I!Msg("position", asked + 1)
        OBVIOUS
  <2>2. queued' = Append(queued, m) /\ dpy' = -1 /\ motion_count' = motion_count + n
        BY <1>3, <1>5, <2>1 DEF I!MoveTo
  <2>3. m \in Packets /\ m.kind = "position" /\ Weight(m) = 0
        BY <1>1, <2>1 DEF I!Msg, Packets, Weight, InputsTypes
  <2>4. Alike(Sent, Sent', d, n) /\ queued' \in Seq(Packets)
        BY <1>1, <1>2, <1>3, <2>2, <2>3, PutAtTheEnd DEF Sent, InputsTypes
  <2>5. I!HeldIsAwaited'
    <3>1. motion_count < 2 * AckBunch
          BY <1>5 DEF I!NotFull, I!Bunch
    <3>2. resets = 0 => ~(dx > 0)
      <4>1. resets = 0 /\ (dx > 0 \/ dpy > 0) => motion_count >= 2 * AckBunch
            BY DEF InputsInv, I!HeldIsAwaited, I!Bunch
      <4> QED BY <1>1, <3>1, <4>1, BunchIsPositive DEF InputsTypes
    <3> QED BY <1>2, <2>2, <3>2 DEF I!HeldIsAwaited
  <2>6. InputsTypes'
        BY <1>1, <1>2, <1>3, <2>2, <2>4 DEF InputsTypes
  <2> QED BY <1>2, <1>4, <2>2, <2>4, <2>5, <2>6, MovesKeep
<1>6. CASE ~I!NotFull
  <2>1. dpy' = asked + 1 /\ queued' = queued /\ motion_count' = motion_count
        BY <1>6 DEF I!MoveTo
  <2>2. Alike(Sent, Sent', d, d)
    <3>1. Sent' = Sent
          BY <1>2, <2>1 DEF Sent
    <3>2. Alike(Sent, Sent, 0, 0)
          BY <1>1, InputsSums, AlikeSame
    <3> QED BY <1>3, <3>1, <3>2
  <2>3. I!HeldIsAwaited'
    <3>1. motion_count >= 2 * AckBunch
          BY <1>1, <1>6, BunchIsPositive DEF I!NotFull, I!Bunch, InputsTypes
    <3> QED BY <2>1, <3>1 DEF I!HeldIsAwaited, I!Bunch
  <2>4. InputsTypes'
        BY <1>1, <1>2, <2>1 DEF InputsTypes
  <2>5. motion_count' = motion_count + d
        BY <1>1, <1>3, <2>1 DEF InputsTypes
  <2> QED BY <1>2, <1>4, <2>2, <2>3, <2>4, <2>5, MovesKeep
<1> QED BY <1>5, <1>6

LEMMA FlushKeeps == InputsInv /\ I!Flush => InputsInv'
<1> SUFFICES ASSUME InputsInv, I!Flush PROVE InputsInv'
    OBVIOUS
<1>1. InputsTypes
      BY DEF InputsInv
<1>2. /\ ready' = ready /\ dx' = dx /\ dpy' = dpy /\ asked' = asked /\ toClient' = toClient
      /\ server' = server /\ resets' = resets /\ locks' = locks /\ caps' = caps
      /\ moved' = moved /\ motion_count' = motion_count
      /\ queued # <<>> /\ wire' = wire \o queued /\ queued' = <<>>
      BY DEF I!Flush, I!keys, I!mouse
<1>3. PICK q \in Seq(Packets) : q = wire \o queued
      BY <1>1, ConcatProperties DEF InputsTypes
<1>4. Sent' = q /\ Sent = q /\ wire' \in Seq(Packets) /\ queued' \in Seq(Packets)
      BY <1>2, <1>3, ConcatEmptySeq DEF Sent
<1>5. PICK d \in Int : d = 0
      OBVIOUS
<1>6. Alike(Sent, Sent', d, d)
  <2>1. Alike(q, q, 0, 0)
        BY AlikeSame
  <2> QED BY <1>4, <1>5, <2>1
<1>7. InputsTypes'
      BY <1>1, <1>2, <1>4 DEF InputsTypes
<1>8. I!HeldIsAwaited'
      BY <1>2 DEF InputsInv, I!HeldIsAwaited
<1>9. ready /\ ready'
      BY <1>2 DEF InputsInv
<1>10. moved' = moved + d + dx' - dx /\ motion_count' = motion_count + d
      BY <1>1, <1>2, <1>5 DEF InputsTypes
<1> QED BY <1>2, <1>6, <1>7, <1>8, <1>9, <1>10, MovesKeep

LEMMA BeginReadKeeps == InputsInv /\ I!BeginRead => InputsInv'
<1> SUFFICES ASSUME InputsInv, I!BeginRead PROVE InputsInv'
    OBVIOUS
<1>1. /\ ready' = ready /\ dx' = dx /\ dpy' = dpy /\ asked' = asked /\ toClient' = toClient
      /\ server' = server /\ resets' = resets /\ locks' = locks /\ caps' = caps
      /\ moved' = moved /\ motion_count' = motion_count /\ wire' = wire /\ queued' = queued
      BY DEF I!BeginRead, I!keys, I!mouse, I!net
<1> QED BY <1>1 DEF InputsInv, InputsTypes, Sent, I!HeldIsAwaited, I!MotionConserved

LEMMA QueuedAfter ==
  ASSUME queued \in Seq(Packets), wire \in Seq(Packets), NEW h \in Seq(Packets)
  PROVE  (wire \o queued) \o h = wire \o (queued \o h)
BY ConcatAssociative

LEMMA ButtonKeeps == InputsInv /\ I!Button => InputsInv'
<1> SUFFICES ASSUME InputsInv, I!Button PROVE InputsInv'
    OBVIOUS
<1>1. InputsTypes /\ Sent \in Seq(Packets)
      BY InputsSums DEF InputsInv
<1>2. PICK h : h = I!Held
      OBVIOUS
<1>3. PICK b : b = I!Msg("button", moved)
      OBVIOUS
<1>4. /\ ready /\ ready' /\ asked' = asked /\ wire' = wire /\ toClient' = toClient
      /\ server' = server /\ resets' = resets /\ locks' = locks /\ caps' = caps
      /\ moved' = moved /\ dx' = 0 /\ dpy' = -1 /\ motion_count' = motion_count + Len(h)
      /\ queued' = (queued \o h) \o <<b>>
      BY <1>2, <1>3 DEF I!Button, I!keys, I!AllSent
<1>5. b \in Packets /\ b.kind = "button" /\ b.val = moved
      BY <1>1, <1>3 DEF I!Msg, Packets, InputsTypes
<1>6. PICK q \in Seq(Packets) : q = Sent
      BY <1>1
<1>7. /\ h \in Seq(Packets) /\ q \o h \in Seq(Packets) /\ Len(h) \in 0 .. 2
      /\ Alike(q, q \o h, dx, Len(h))
  <2>1. h = I!Motion(dx) \o I!Position(dpy)
        BY <1>2 DEF I!Held
  <2>2. <<>> \in Seq(Packets) /\ dx \in Nat /\ dpy \in Nat \cup {-1}
        BY <1>1 DEF InputsTypes
  <2>3. /\ h \in Seq(Packets) /\ q \o h \in Seq(Packets) /\ Len(h) \in 0 .. 2
        /\ Alike(q \o <<>>, (q \o h) \o <<>>, dx, Len(h))
        BY <2>1, <2>2, HeldPut
  <2>4. q \o <<>> = q /\ (q \o h) \o <<>> = q \o h
        BY <2>3, ConcatEmptySeq
  <2> QED BY <2>3, <2>4
<1>8. PICK r \in Seq(Packets) : r = q \o h
      BY <1>7
<1>9. Sent' = Append(r, b) /\ queued' \in Seq(Packets)
  <2>1. queued \in Seq(Packets) /\ wire \in Seq(Packets)
        BY <1>1 DEF InputsTypes
  <2>2. PICK z \in Seq(Packets) : z = queued \o h
        BY <1>7, <2>1, ConcatProperties
  <2>3. queued' = Append(z, b) /\ Append(z, b) \in Seq(Packets)
        BY <1>4, <1>5, <2>2, AppendIsConcat, AppendProperties
  <2>4. wire \o Append(z, b) = Append(wire \o z, b)
        BY <1>5, <2>1, AppendAfter
  <2>5. wire \o z = r
    <3>1. h \in Seq(Packets)
          BY <1>7
    <3>2. (wire \o queued) \o h = wire \o (queued \o h)
          BY <2>1, <3>1, QueuedAfter
    <3> QED BY <1>6, <1>8, <2>2, <3>2 DEF Sent
  <2> QED BY <1>4, <2>3, <2>4, <2>5 DEF Sent
<1>10. PICK x, y, z \in Int : /\ x = I!Sum(I!Motions(q)) /\ y = I!Sum(I!Counts(q))
                              /\ z = I!Sum(I!Acks(toClient))
       BY <1>1, <1>6, InputsSums
<1>11. PICK k \in Nat : k = Len(h)
       BY <1>7
<1>12. I!Sum(I!Motions(r)) = x + dx /\ I!Sum(I!Counts(r)) = y + k
       BY <1>7, <1>8, <1>10, <1>11 DEF Alike
<1>13. moved = server.motion + x + dx /\ motion_count = y + server.unacked + AckBunch * z
       BY <1>4, <1>6, <1>10 DEF InputsInv, I!MotionConserved, I!Bunch, Sent
<1>14. PICK base \in Nat : base = server.motion
       BY <1>1 DEF InputsTypes
<1>15. base + I!Sum(I!Motions(r)) >= b.val
  <2>1. dx \in Int /\ moved \in Int
        BY <1>1 DEF InputsTypes
  <2> QED BY <1>5, <1>12, <1>13, <1>14, <2>1
<1>16. Clicked(r, base)
       BY <1>6, <1>7, <1>8, <1>14 DEF Alike, InputsInv
<1>17. /\ I!Sum(I!Motions(Append(r, b))) = I!Sum(I!Motions(r))
       /\ I!Sum(I!Counts(Append(r, b))) = I!Sum(I!Counts(r))
       /\ \A v : Telling(r, v) <=> Telling(Append(r, b), v)
       /\ NoLocks(r) <=> NoLocks(Append(r, b))
       /\ Clicked(Append(r, b), base)
       BY <1>5, <1>15, <1>16, ButtonPut
<1>18. I!MotionConserved'
  <2>1. PICK e \in Int : e = AckBunch * z
        BY BunchIsPositive
  <2>2. moved' = server.motion + (x + dx) + dx'
    <3>1. dx \in Int /\ server.motion \in Int
          BY <1>1 DEF InputsTypes
    <3> QED BY <1>4, <1>13, <3>1
  <2>3. motion_count' = (y + k) + server.unacked + e
    <3>1. server.unacked \in Int /\ motion_count' = motion_count + k
          BY <1>1, <1>4, <1>11, BunchIsPositive DEF InputsTypes
    <3>2. motion_count = y + server.unacked + e
          BY <1>13, <2>1
    <3> QED BY <3>1, <3>2
  <2> QED BY <1>4, <1>9, <1>10, <1>12, <1>17, <2>1, <2>2, <2>3 DEF I!MotionConserved, I!Bunch, Sent
<1>19. I!HeldIsAwaited'
       BY <1>4 DEF I!HeldIsAwaited
<1>20. InputsTypes'
  <2>1. motion_count' \in Int
        BY <1>1, <1>4, <1>11 DEF InputsTypes
  <2> QED BY <1>1, <1>4, <1>9, <2>1 DEF InputsTypes
<1>21. Clicked(Sent', server.motion)
       BY <1>9, <1>14, <1>17
<1>22. /\ Telling(Sent', caps) /\ Telling(toClient, server.locks) /\ locks = caps
       /\ NoLocks(Sent') /\ NoLocks(toClient) => server.locks = caps
  <2>1. /\ Telling(q, caps) /\ Telling(toClient, server.locks) /\ locks = caps
        /\ NoLocks(q) /\ NoLocks(toClient) => server.locks = caps
        BY <1>4, <1>6 DEF InputsInv
  <2>2. Telling(r, caps) /\ (NoLocks(q) <=> NoLocks(r))
        BY <1>7, <1>8, <2>1 DEF Alike
  <2> QED BY <1>9, <1>17, <2>1, <2>2
<1> QED BY <1>4, <1>18, <1>19, <1>20, <1>21, <1>22 DEF InputsInv

\* The first message of the server is taken.
LEMMA ClientTakes ==
  ASSUME InputsTypes, toClient # <<>>, NEW t, t = Tail(toClient)
  PROVE  /\ t \in Seq(Packets) /\ Head(toClient) \in Packets
         /\ I!Sum(I!Acks(t)) \in Int
         /\ I!Sum(I!Acks(toClient)) = I!Sum(I!Acks(t)) + Ack(Head(toClient))
         /\ Head(toClient).kind # "locks" =>
              /\ \A v : Telling(t, v) <=> Telling(toClient, v)
              /\ NoLocks(t) <=> NoLocks(toClient)
         /\ Head(toClient).kind = "locks" =>
              \A v : Telling(toClient, v) =>
                       Telling(t, v) /\ (NoLocks(t) => Head(toClient).val = v)
<1>1. PICK s \in Seq(Packets) : s = toClient
      BY DEF InputsTypes
<1>2. PICK m \in Packets : m = Head(s)
      BY <1>1, TakeHead
<1>3. t \in Seq(Packets) /\ Inserted(t, s, 0, m)
      BY <1>1, <1>2, TakeHead
<1>4. PICK u \in Seq(Packets) : u = t
      BY <1>3
<1>5. PICK n \in Nat : n = Len(u)
      BY LenProperties
<1>6. PICK k \in 0 .. n : k = 0 /\ Inserted(u, s, k, m)
      BY <1>3, <1>4
<1>7. I!Sum(I!Acks(s)) = I!Sum(I!Acks(u)) + Ack(m)
      BY <1>5, <1>6, MessageInserted
<1>8. I!Sum(I!Acks(u)) \in Int
      BY <1>5, MotionSums
<1>9. m.kind # "locks" => /\ \A v : Telling(u, v) <=> Telling(s, v)
                          /\ NoLocks(u) <=> NoLocks(s)
      BY <1>5, <1>6, LocksInserted
<1>10. ASSUME m.kind = "locks", NEW v, Telling(s, v)
      PROVE  Telling(u, v) /\ (NoLocks(u) => m.val = v)
      BY <1>3, <1>4, <1>5, <1>10, LocksTaken
<1> QED BY <1>1, <1>2, <1>3, <1>4, <1>7, <1>8, <1>9, <1>10

LEMMA HandleAckKeeps == InputsInv /\ I!HandleAck => InputsInv'
<1> SUFFICES ASSUME InputsInv, I!HandleAck PROVE InputsInv'
    OBVIOUS
<1>1. InputsTypes
      BY DEF InputsInv
<1>2. PICK h : h = I!Held
      OBVIOUS
<1>3. PICK t : t = Tail(toClient)
      OBVIOUS
<1>4. /\ ready' = ready /\ asked' = asked /\ server' = server /\ resets' = resets
      /\ locks' = locks /\ caps' = caps /\ moved' = moved /\ queued' = queued
      /\ motion_count' = motion_count - AckBunch + Len(h) /\ wire' = wire \o h /\ toClient' = t
      /\ toClient # <<>> /\ Head(toClient).kind = "ack"
      /\ (h = <<>> => dx' = dx /\ dpy' = dpy) /\ (h # <<>> => dx' = 0 /\ dpy' = -1)
      BY <1>2, <1>3 DEF I!HandleAck, I!keys, I!AllSent, I!CanRead, I!Bunch
<1>5. ready
      BY <1>4 DEF InputsInv
<1>6. /\ wire' \in Seq(Packets) /\ Len(h) \in 0 .. 2 /\ (h = <<>> <=> dx = 0 /\ dpy = -1)
      /\ Alike(Sent, Sent', dx, Len(h))
  <2>1. h = I!Motion(dx) \o I!Position(dpy)
        BY <1>2 DEF I!Held
  <2>2. /\ wire \in Seq(Packets) /\ queued \in Seq(Packets)
        /\ dx \in Nat /\ dpy \in Nat \cup {-1}
        BY <1>1 DEF InputsTypes
  <2>3. PICK s, r \in Seq(Packets) : s = wire /\ r = queued
        BY <2>2
  <2>4. PICK d \in Nat, p \in Nat \cup {-1} : d = dx /\ p = dpy
        BY <2>2
  <2>5. h = I!Motion(d) \o I!Position(p)
        BY <2>1, <2>4
  <2>6. /\ s \o h \in Seq(Packets) /\ Len(h) \in 0 .. 2
        /\ Alike(s \o r, (s \o h) \o r, d, Len(h))
        BY <2>5, HeldPut
  <2>7. h = <<>> <=> d = 0 /\ p = -1
        BY <2>5, NothingHeld
  <2> QED BY <1>4, <2>3, <2>4, <2>6, <2>7 DEF Sent
<1>7. dx' = 0 /\ dpy' = -1
      BY <1>4, <1>6
<1>8. /\ t \in Seq(Packets) /\ I!Sum(I!Acks(toClient)) = I!Sum(I!Acks(t)) + 1
      /\ I!Sum(I!Acks(t)) \in Int
      /\ (\A v : Telling(t, v) <=> Telling(toClient, v)) /\ (NoLocks(t) <=> NoLocks(toClient))
  <2>1. Head(toClient).kind # "locks" /\ Ack(Head(toClient)) = 1
        BY <1>4 DEF Ack
  <2> QED BY <1>1, <1>3, <1>4, <2>1, ClientTakes
<1>9. PICK x, y, z, k \in Int : /\ x = I!Sum(I!Motions(Sent)) /\ y = I!Sum(I!Counts(Sent))
                                /\ z = I!Sum(I!Acks(t)) /\ k = Len(h)
      BY <1>1, <1>6, <1>8, InputsSums
<1>10. I!Sum(I!Motions(Sent')) = x + dx /\ I!Sum(I!Counts(Sent')) = y + k
       BY <1>6, <1>9 DEF Alike
<1>11. moved = server.motion + x + dx /\ motion_count = y + server.unacked + AckBunch * (z + 1)
       BY <1>5, <1>8, <1>9 DEF InputsInv, I!MotionConserved, I!Bunch, Sent
<1>12. PICK e, c \in Int : e = AckBunch * z /\ c = AckBunch
       BY BunchIsPositive
<1>13. AckBunch * (z + 1) = e + c
       BY <1>12, BunchIsPositive
<1>14. moved' = server.motion + (x + dx) + dx' /\ motion_count' = (y + k) + server.unacked + e
  <2>1. moved' = server.motion + (x + dx) + dx'
    <3>1. dx \in Int /\ server.motion \in Int
          BY <1>1 DEF InputsTypes
    <3> QED BY <1>4, <1>7, <1>11, <3>1
  <2>2. motion_count' = (y + k) + server.unacked + e
    <3>1. server.unacked \in Int /\ motion_count' = motion_count - c + k
          BY <1>1, <1>4, <1>9, <1>12, BunchIsPositive DEF InputsTypes
    <3>2. motion_count = y + server.unacked + (e + c)
          BY <1>11, <1>13
    <3> QED BY <3>1, <3>2
  <2> QED BY <2>1, <2>2
<1>15. I!MotionConserved'
       BY <1>4, <1>9, <1>10, <1>12, <1>14 DEF I!MotionConserved, I!Bunch, Sent
<1>16. InputsTypes'
  <2>1. motion_count' \in Int
        BY <1>1, <1>4, <1>9, BunchIsPositive DEF InputsTypes
  <2> QED BY <1>1, <1>4, <1>6, <1>7, <1>8, <2>1 DEF InputsTypes
<1>17. I!HeldIsAwaited'
       BY <1>7 DEF I!HeldIsAwaited
<1>18. Clicked(Sent', server.motion)
       BY <1>6 DEF Alike, InputsInv, InputsTypes
<1>19. /\ Telling(Sent', caps) /\ Telling(t, server.locks) /\ locks = caps
       /\ NoLocks(Sent') /\ NoLocks(t) => server.locks = caps
       BY <1>5, <1>6, <1>8 DEF Alike, InputsInv
<1> QED BY <1>4, <1>5, <1>15, <1>16, <1>17, <1>18, <1>19 DEF InputsInv

\* Lock keys are told: the last message of the queue
LEMMA LocksQueued ==
  ASSUME InputsTypes, NEW v \in 0 .. 1, queued' = Append(queued, I!Msg("locks", v)), wire' = wire
  PROVE  /\ queued' \in Seq(Packets)
         /\ I!Sum(I!Motions(Sent')) = I!Sum(I!Motions(Sent))
         /\ I!Sum(I!Counts(Sent')) = I!Sum(I!Counts(Sent))
         /\ Telling(Sent', v) /\ ~NoLocks(Sent')
         /\ \A base \in Nat : Clicked(Sent, base) => Clicked(Sent', base)
<1>1. PICK m : m = I!Msg("locks", v)
      OBVIOUS
<1>2. m \in Packets /\ m.kind = "locks" /\ m.val = v
      BY <1>1 DEF I!Msg, Packets
<1>3. wire \in Seq(Packets) /\ queued \in Seq(Packets)
      BY DEF InputsTypes
<1>4. PICK q \in Seq(Packets) : q = Sent
      BY InputsSums
<1>5. Sent' = Append(q, m) /\ queued' \in Seq(Packets)
  <2>1. wire \o Append(queued, m) = Append(wire \o queued, m) /\ Append(queued, m) \in Seq(Packets)
        BY <1>2, <1>3, AppendAfter, AppendProperties
  <2> QED BY <1>1, <1>4, <2>1 DEF Sent
<1> QED BY <1>2, <1>4, <1>5, LocksPut

LEMMA HandleModifiersKeeps == InputsInv /\ I!HandleModifiers => InputsInv'
<1> SUFFICES ASSUME InputsInv, I!HandleModifiers PROVE InputsInv'
    OBVIOUS
<1>1. InputsTypes
      BY DEF InputsInv
<1>2. PICK t : t = Tail(toClient)
      OBVIOUS
<1>3. PICK m : m = Head(toClient)
      OBVIOUS
<1>4. /\ ready' = ready /\ dx' = dx /\ dpy' = dpy /\ asked' = asked /\ server' = server
      /\ resets' = resets /\ caps' = caps /\ moved' = moved /\ motion_count' = motion_count
      /\ wire' = wire /\ toClient' = t /\ toClient # <<>> /\ m.kind = "locks"
      /\ m.val = caps => queued' = queued /\ locks' = locks
      /\ m.val # caps => queued' = Append(queued, I!Msg("locks", caps)) /\ locks' = caps
      BY <1>2, <1>3 DEF I!HandleModifiers, I!mouse, I!CanRead
<1>5. ready
      BY <1>4 DEF InputsInv
<1>6. /\ Telling(Sent, caps) /\ Telling(toClient, server.locks) /\ locks = caps
      /\ Clicked(Sent, server.motion)
      BY <1>5 DEF InputsInv
<1>7. /\ t \in Seq(Packets) /\ I!Sum(I!Acks(toClient)) = I!Sum(I!Acks(t))
      /\ Telling(t, server.locks) /\ (NoLocks(t) => m.val = server.locks)
  <2>1. Ack(m) = 0
        BY <1>4 DEF Ack
  <2>2. /\ t \in Seq(Packets) /\ I!Sum(I!Acks(t)) \in Int
        /\ I!Sum(I!Acks(toClient)) = I!Sum(I!Acks(t)) + Ack(m)
        BY <1>1, <1>2, <1>3, <1>4, ClientTakes
  <2>3. Telling(t, server.locks) /\ (NoLocks(t) => m.val = server.locks)
        BY <1>1, <1>2, <1>3, <1>4, <1>6, ClientTakes
  <2> QED BY <2>1, <2>2, <2>3
<1>8. /\ queued' \in Seq(Packets)
      /\ I!Sum(I!Motions(Sent')) = I!Sum(I!Motions(Sent))
      /\ I!Sum(I!Counts(Sent')) = I!Sum(I!Counts(Sent))
      /\ Telling(Sent', caps) /\ Clicked(Sent', server.motion)
      /\ NoLocks(Sent') /\ NoLocks(t) => server.locks = caps
  <2>1. CASE m.val = caps
    <3>1. Sent' = Sent /\ queued' \in Seq(Packets)
          BY <1>1, <1>4, <2>1 DEF Sent, InputsTypes
    <3> QED BY <1>6, <1>7, <2>1, <3>1
  <2>2. CASE m.val # caps
    <3>1. caps \in 0 .. 1 /\ server.motion \in Nat
          BY <1>1 DEF InputsTypes
    <3>2. queued' = Append(queued, I!Msg("locks", caps)) /\ wire' = wire
          BY <1>4, <2>2
    <3> QED BY <1>1, <1>6, <3>1, <3>2, LocksQueued
  <2> QED BY <2>1, <2>2
<1>9. locks' = caps
      BY <1>4, <1>6
<1>10. InputsTypes'
       BY <1>1, <1>4, <1>7, <1>8, <1>9 DEF InputsTypes
<1>11. I!MotionConserved'
       BY <1>4, <1>5, <1>7, <1>8 DEF InputsInv, I!MotionConserved, Sent
<1>12. I!HeldIsAwaited'
       BY <1>4 DEF InputsInv, I!HeldIsAwaited
<1> QED BY <1>4, <1>5, <1>7, <1>8, <1>9, <1>10, <1>11, <1>12 DEF InputsInv

LEMMA ClientTogglesKeeps == InputsInv /\ I!ClientToggles => InputsInv'
<1> SUFFICES ASSUME InputsInv, I!ClientToggles PROVE InputsInv'
    OBVIOUS
<1>1. InputsTypes
      BY DEF InputsInv
<1>2. /\ ready' = ready /\ dx' = dx /\ dpy' = dpy /\ asked' = asked /\ server' = server
      /\ resets' = resets /\ moved' = moved /\ motion_count' = motion_count
      /\ wire' = wire /\ toClient' = toClient /\ caps' = 1 - caps /\ locks' = caps'
      /\ ready => queued' = Append(queued, I!Msg("locks", caps'))
      /\ ~ready => queued' = queued
      BY DEF I!ClientToggles, I!mouse, I!Kept
<1>3. caps' \in 0 .. 1
      BY <1>1, <1>2 DEF InputsTypes
<1>4. I!HeldIsAwaited'
      BY <1>2 DEF InputsInv, I!HeldIsAwaited
<1>5. CASE ~ready
  <2>1. queued' = queued /\ Sent' = Sent
        BY <1>2, <1>5 DEF Sent
  <2>2. InputsTypes'
        BY <1>1, <1>2, <1>3, <2>1 DEF InputsTypes
  <2>3. I!MotionConserved'
        BY <1>2, <2>1 DEF InputsInv, I!MotionConserved
  <2> QED BY <1>2, <1>4, <1>5, <2>1, <2>2, <2>3 DEF InputsInv
<1>6. CASE ready
  <2>1. PICK v \in 0 .. 1 : v = caps'
        BY <1>3
  <2>2. queued' = Append(queued, I!Msg("locks", v)) /\ wire' = wire
        BY <1>2, <1>6, <2>1
  <2>3. /\ queued' \in Seq(Packets)
        /\ I!Sum(I!Motions(Sent')) = I!Sum(I!Motions(Sent))
        /\ I!Sum(I!Counts(Sent')) = I!Sum(I!Counts(Sent))
        /\ Telling(Sent', v) /\ ~NoLocks(Sent')
        /\ \A base \in Nat : Clicked(Sent, base) => Clicked(Sent', base)
        BY <1>1, <2>2, LocksQueued
  <2>4. Clicked(Sent', server.motion)
        BY <1>1, <2>3 DEF InputsInv, InputsTypes
  <2>5. InputsTypes'
        BY <1>1, <1>2, <1>3, <2>3 DEF InputsTypes
  <2>6. I!MotionConserved'
        BY <1>2, <1>6, <2>3 DEF InputsInv, I!MotionConserved, Sent
  <2>7. Telling(toClient, server.locks)
        BY <1>6 DEF InputsInv
  <2> QED BY <1>2, <1>4, <1>6, <2>1, <2>3, <2>4, <2>5, <2>6, <2>7 DEF InputsInv
<1> QED BY <1>5, <1>6

LEMMA UpKeeps == InputsInv /\ I!Up => InputsInv'
<1> SUFFICES ASSUME InputsInv, I!Up PROVE InputsInv'
    OBVIOUS
<1>1. InputsTypes /\ locks = caps
      BY DEF InputsInv
<1>2. PICK m : m = I!Msg("locks", locks)
      OBVIOUS
<1>3. /\ ~ready /\ ready' = TRUE /\ dx' = dx /\ dpy' = dpy /\ asked' = asked /\ server' = server
      /\ resets' = resets /\ moved' = moved /\ motion_count' = motion_count /\ caps' = caps
      /\ wire' = wire \o <<m>> /\ queued' = queued /\ toClient' = toClient /\ locks' = locks
      BY <1>2 DEF I!Up, I!mouse, I!keys
<1>4. /\ queued = <<>> /\ wire = <<>> /\ toClient = <<>> /\ motion_count = 0
      /\ server.unacked = 0
      BY <1>3 DEF InputsInv
<1>5. m \in Packets /\ m.kind = "locks" /\ m.val = caps
      BY <1>1, <1>2 DEF I!Msg, Packets, InputsTypes
<1>6. PICK q \in Seq(Packets) : q = <<>>
  <2>1. <<>> \in Seq(Packets)
        BY EmptySeq
  <2> QED BY <2>1
<1>7. Sent = q /\ Sent' = Append(q, m) /\ wire' = Append(q, m) /\ queued' = q
  <2>1. Append(q, m) = <<m>> /\ <<m>> \in Seq(Packets) /\ <<>> \o <<m>> = <<m>>
        BY <1>5, <1>6
  <2>2. <<m>> \o <<>> = <<m>> /\ <<>> \o <<>> = <<>>
        BY <2>1, ConcatEmptySeq
  <2> QED BY <1>3, <1>4, <1>6, <2>1, <2>2 DEF Sent
<1>8. /\ Append(q, m) \in Seq(Packets)
      /\ I!Sum(I!Motions(Append(q, m))) = I!Sum(I!Motions(q))
      /\ I!Sum(I!Counts(Append(q, m))) = I!Sum(I!Counts(q))
      /\ Telling(Append(q, m), m.val) /\ ~NoLocks(Append(q, m))
      /\ \A base \in Nat : Clicked(q, base) => Clicked(Append(q, m), base)
      BY <1>5, LocksPut
<1>9. I!HeldIsAwaited'
      BY <1>3 DEF InputsInv, I!HeldIsAwaited
<1>10. Telling(toClient, server.locks)
       BY <1>4, NothingSent
<1>11. Clicked(Sent', server.motion)
       BY <1>1, <1>7, <1>8 DEF InputsInv, InputsTypes
<1>12. InputsTypes'
       BY <1>1, <1>3, <1>6, <1>7, <1>8 DEF InputsTypes
<1>13. I!MotionConserved'
  <2>1. /\ I!Sum(I!Motions(q)) = 0 /\ I!Sum(I!Counts(q)) = 0
        /\ I!Sum(I!Acks(toClient)) = 0 /\ <<>> \o <<>> = <<>>
        BY <1>4, <1>6, NothingSent
  <2>2. motion_count' = 0 + server.unacked + AckBunch * 0
        BY <1>3, <1>4, BunchIsPositive
  <2>3. moved' = server.motion + I!Sum(I!Motions(q)) + dx'
        BY <1>3, <1>7 DEF InputsInv, I!MotionConserved, Sent
  <2>4. I!Sum(I!Motions(Sent')) = I!Sum(I!Motions(q)) /\ I!Sum(I!Counts(Sent')) = 0
        BY <1>7, <1>8, <2>1
  <2> QED BY <1>3, <2>1, <2>2, <2>3, <2>4 DEF I!MotionConserved, I!Bunch, Sent
<1> QED BY <1>1, <1>3, <1>5, <1>7, <1>8, <1>9, <1>10, <1>11, <1>12, <1>13 DEF InputsInv

LEMMA DownKeeps == InputsInv /\ I!Down => InputsInv'
<1> SUFFICES ASSUME InputsInv, I!Down PROVE InputsInv'
    OBVIOUS
<1>1. InputsTypes /\ locks = caps
      BY DEF InputsInv
<1>2. /\ ready' = FALSE /\ dx' = dx /\ dpy' = dpy /\ asked' = asked /\ resets' = resets + 1
      /\ moved' = server.motion + dx /\ motion_count' = 0 /\ caps' = caps /\ locks' = locks
      /\ wire' = <<>> /\ queued' = <<>> /\ toClient' = <<>>
      /\ server' = [server EXCEPT !.unacked = 0]
      BY DEF I!Down, I!keys
<1>3. /\ server'.motion = server.motion /\ server'.locks = server.locks /\ server'.unacked = 0
      /\ server' \in [motion : Int, position : Int, locks : Int, unacked : Int]
  <2>1. PICK s \in [motion : Int, position : Int, locks : Int, unacked : Int] : s = server
        BY <1>1 DEF InputsTypes
  <2>2. /\ [s EXCEPT !.unacked = 0].motion = s.motion /\ [s EXCEPT !.unacked = 0].locks = s.locks
        /\ [s EXCEPT !.unacked = 0].unacked = 0
        OBVIOUS
  <2>3. [s EXCEPT !.unacked = 0] \in [motion : Int, position : Int, locks : Int, unacked : Int]
        OBVIOUS
  <2> QED BY <1>2, <2>1, <2>2, <2>3
<1>4. InputsTypes'
  <2>1. <<>> \in Seq(Packets) /\ 0 \in 0 .. AckBunch - 1
        BY BunchIsPositive
  <2>2. moved' \in Nat /\ resets' \in Nat
        BY <1>1, <1>2, SMTT(20) DEF InputsTypes
  <2> QED BY <1>1, <1>2, <1>3, <2>1, <2>2 DEF InputsTypes
<1>5. I!HeldIsAwaited'
      BY <1>1, <1>2 DEF I!HeldIsAwaited, InputsTypes
<1>6. I!MotionConserved'
  <2>1. moved' = server'.motion + 0 + dx'
        BY <1>1, <1>2, <1>3 DEF InputsTypes
  <2> QED BY <1>2, <2>1, NothingSent DEF I!MotionConserved
<1>7. Clicked(Sent', server'.motion)
      BY <1>2, NothingSent DEF Sent
<1> QED BY <1>1, <1>2, <1>3, <1>4, <1>5, <1>6, <1>7 DEF InputsInv

LEMMA GuestTogglesKeeps == InputsInv /\ I!GuestToggles => InputsInv'
<1> SUFFICES ASSUME InputsInv, I!GuestToggles PROVE InputsInv'
    OBVIOUS
<1>1. InputsTypes
      BY DEF InputsInv
<1>2. PICK v \in 0 .. 1 : v = 1 - server.locks
      BY <1>1 DEF InputsTypes
<1>3. PICK m : m = I!Msg("locks", v)
      OBVIOUS
<1>4. PICK t \in Seq(Packets) : t = toClient
      BY <1>1 DEF InputsTypes
<1>5. /\ ready /\ ready' = ready /\ dx' = dx /\ dpy' = dpy /\ asked' = asked
      /\ resets' = resets /\ moved' = moved /\ motion_count' = motion_count /\ caps' = caps
      /\ locks' = locks /\ wire' = wire /\ queued' = queued /\ toClient' = Append(t, m)
      /\ server' = [server EXCEPT !.locks = v]
      BY <1>2, <1>3, <1>4 DEF I!GuestToggles, I!mouse
<1>6. /\ server'.motion = server.motion /\ server'.locks = v /\ server'.unacked = server.unacked
      /\ server' \in [motion : Int, position : Int, locks : Int, unacked : Int]
  <2>1. PICK s \in [motion : Int, position : Int, locks : Int, unacked : Int] : s = server
        BY <1>1 DEF InputsTypes
  <2>2. /\ [s EXCEPT !.locks = v].motion = s.motion /\ [s EXCEPT !.locks = v].locks = v
        /\ [s EXCEPT !.locks = v].unacked = s.unacked
        OBVIOUS
  <2>3. [s EXCEPT !.locks = v] \in [motion : Int, position : Int, locks : Int, unacked : Int]
        OBVIOUS
  <2> QED BY <1>5, <2>1, <2>2, <2>3
<1>7. m \in Packets /\ m.kind = "locks" /\ m.val = v
      BY <1>3 DEF I!Msg, Packets
<1>8. /\ Append(t, m) \in Seq(Packets) /\ I!Sum(I!Acks(Append(t, m))) = I!Sum(I!Acks(t))
      /\ Telling(Append(t, m), v) /\ ~NoLocks(Append(t, m))
      BY <1>7, LocksPut
<1>9. InputsTypes'
      BY <1>1, <1>5, <1>6, <1>8 DEF InputsTypes
<1>10. I!HeldIsAwaited'
       BY <1>5 DEF InputsInv, I!HeldIsAwaited
<1>11. I!MotionConserved'
       BY <1>4, <1>5, <1>6, <1>8 DEF InputsInv, I!MotionConserved
<1>12. Sent' = Sent
       BY <1>5 DEF Sent
<1>13. Telling(Sent, caps) /\ locks = caps /\ Clicked(Sent, server.motion)
       BY <1>5 DEF InputsInv
<1> QED BY <1>5, <1>6, <1>8, <1>9, <1>10, <1>11, <1>12, <1>13 DEF InputsInv

\* An acknowledgement, at the end
LEMMA AckPut ==
  ASSUME NEW q \in Seq(Packets)
  PROVE  /\ Append(q, I!Msg("ack", 0)) \in Seq(Packets)
         /\ I!Sum(I!Acks(Append(q, I!Msg("ack", 0)))) = I!Sum(I!Acks(q)) + 1
         /\ \A v : Telling(q, v) <=> Telling(Append(q, I!Msg("ack", 0)), v)
         /\ NoLocks(q) <=> NoLocks(Append(q, I!Msg("ack", 0)))
<1>1. PICK n \in Nat : n = Len(q)
      BY LenProperties
<1>2. PICK m : m = I!Msg("ack", 0)
      OBVIOUS
<1>3. m \in Packets /\ m.kind # "locks" /\ Ack(m) = 1
      BY <1>2 DEF I!Msg, Packets, Ack
<1>4. PICK r \in Seq(Packets) : r = Append(q, m) /\ Inserted(q, r, n, m)
      BY <1>1, <1>3, PutAtEnd
<1>5. PICK k \in 0 .. n : k = n /\ Inserted(q, r, k, m)
      BY <1>4
<1>6. I!Sum(I!Acks(r)) = I!Sum(I!Acks(q)) + Ack(m)
      BY <1>1, <1>3, <1>5, MessageInserted
<1>7. (\A v : Telling(q, v) <=> Telling(r, v)) /\ (NoLocks(q) <=> NoLocks(r))
      BY <1>1, <1>3, <1>5, LocksInserted
<1> QED BY <1>2, <1>3, <1>4, <1>6, <1>7

\* A remainder, when the dividend is at most the divisor
LEMMA Remainder ==
  ASSUME NEW b \in Nat \ {0}, NEW n \in 0 .. b - 1
  PROVE  (n + 1) % b = IF n + 1 = b THEN 0 ELSE n + 1
OBVIOUS

\* What the server has taken: message m off the front of what is under way to it
LEMMA ServerReads ==
  ASSUME InputsTypes, wire # <<>>, wire' = Tail(wire), queued' = queued, NEW m, m = Head(wire)
  PROVE  /\ m \in Packets /\ wire' \in Seq(Packets)
         /\ I!Sum(I!Motions(Sent')) \in Int /\ I!Sum(I!Counts(Sent')) \in Int
         /\ I!Sum(I!Motions(Sent)) = I!Sum(I!Motions(Sent')) + Weight(m)
         /\ I!Sum(I!Counts(Sent)) = I!Sum(I!Counts(Sent')) + One(m)
         /\ \A base \in Nat : Clicked(Sent, base) => Clicked(Sent', base + Weight(m))
         /\ m.kind # "locks" =>
              /\ \A v : Telling(Sent', v) <=> Telling(Sent, v)
              /\ NoLocks(Sent') <=> NoLocks(Sent)
         /\ m.kind = "locks" =>
              \A v : Telling(Sent, v) => Telling(Sent', v) /\ (NoLocks(Sent') => m.val = v)
<1>1. PICK s, t \in Seq(Packets) : s = wire /\ t = queued
      BY DEF InputsTypes
<1>2. /\ m \in Packets /\ Tail(s) \in Seq(Packets) /\ Tail(s) \o t \in Seq(Packets)
      /\ s \o t \in Seq(Packets) /\ Inserted(Tail(s) \o t, s \o t, 0, m)
      BY <1>1, TakeHeadBefore
<1>3. PICK p \in Packets : p = m
      BY <1>2
<1>4. PICK q, r \in Seq(Packets) : q = s \o t /\ r = Tail(s) \o t
      BY <1>2
<1>5. Sent = q /\ Sent' = r
      BY <1>1, <1>4 DEF Sent
<1>6. Inserted(r, q, 0, p)
      BY <1>2, <1>3, <1>4
<1>7. PICK n \in Nat : n = Len(r)
      BY LenProperties
<1>8. PICK k \in 0 .. n : k = 0 /\ Inserted(r, q, k, p)
      BY <1>6
<1>9. /\ I!Sum(I!Motions(q)) = I!Sum(I!Motions(r)) + Weight(p)
      /\ I!Sum(I!Counts(q)) = I!Sum(I!Counts(r)) + One(p)
      BY <1>7, <1>8, MessageInserted
<1>10. I!Sum(I!Motions(r)) \in Int /\ I!Sum(I!Counts(r)) \in Int
       BY <1>7, MotionSums
<1>11. ASSUME NEW base \in Nat, Clicked(q, base)
       PROVE  Clicked(r, base + Weight(p))
  <2>1. base \in Int
        OBVIOUS
  <2> QED BY <1>6, <1>11, <2>1, ClickedTaken
<1>12. p.kind # "locks" => /\ \A v : Telling(r, v) <=> Telling(q, v)
                           /\ NoLocks(r) <=> NoLocks(q)
       BY <1>7, <1>8, LocksInserted
<1>13. ASSUME p.kind = "locks", NEW v, Telling(q, v)
       PROVE  Telling(r, v) /\ (NoLocks(r) => p.val = v)
       BY <1>6, <1>7, <1>13, LocksTaken
<1>14. wire' \in Seq(Packets)
       BY <1>1, <1>2
<1> QED BY <1>3, <1>5, <1>9, <1>10, <1>11, <1>12, <1>13, <1>14

\* A motion or a position is counted, and a bunch of them acknowledged.
LEMMA ServerCounts ==
  ASSUME InputsTypes, toClient' = IF I!Counted = 0 THEN Append(toClient, I!Msg("ack", 0))
                                  ELSE toClient
  PROVE  /\ toClient' \in Seq(Packets) /\ I!Counted \in 0 .. AckBunch - 1
         /\ I!Counted + AckBunch * I!Sum(I!Acks(toClient')) =
              (server.unacked + 1) + AckBunch * I!Sum(I!Acks(toClient))
         /\ \A v : Telling(toClient, v) <=> Telling(toClient', v)
         /\ NoLocks(toClient) <=> NoLocks(toClient')
<1>1. PICK n \in 0 .. AckBunch - 1 : n = server.unacked
      BY DEF InputsTypes
<1>2. I!Counted = IF n + 1 = AckBunch THEN 0 ELSE n + 1
  <2>1. PICK b \in Nat \ {0} : b = AckBunch
        BY BunchIsPositive
  <2>2. (n + 1) % b = IF n + 1 = b THEN 0 ELSE n + 1
        BY <2>1, Remainder
  <2> QED BY <1>1, <2>1, <2>2 DEF I!Counted, I!Bunch
<1>3. I!Counted \in 0 .. AckBunch - 1
      BY <1>2, BunchIsPositive
<1>4. PICK t \in Seq(Packets) : t = toClient
      BY DEF InputsTypes
<1>5. PICK a \in Int : a = I!Sum(I!Acks(t))
  <2>1. PICK k \in Nat : k = Len(t)
        BY LenProperties
  <2> QED BY <2>1, MotionSums
<1>6. CASE n + 1 = AckBunch
  <2>1. I!Counted = 0 /\ toClient' = Append(t, I!Msg("ack", 0))
        BY <1>2, <1>4, <1>6
  <2>2. /\ toClient' \in Seq(Packets) /\ I!Sum(I!Acks(toClient')) = a + 1
        /\ \A v : Telling(t, v) <=> Telling(toClient', v)
        /\ NoLocks(t) <=> NoLocks(toClient')
        BY <1>5, <2>1, AckPut
  <2>3. 0 + AckBunch * (a + 1) = (n + 1) + AckBunch * a
    <3>1. PICK b \in Int : b = AckBunch
          BY BunchIsPositive
    <3>2. b * (a + 1) = b * a + b
          BY <1>5
    <3>3. PICK e \in Int : e = b * a
          OBVIOUS
    <3> QED BY <1>6, <3>1, <3>2, <3>3
  <2> QED BY <1>1, <1>3, <1>4, <1>5, <2>1, <2>2, <2>3
<1>7. CASE n + 1 # AckBunch
  <2>1. I!Counted = n + 1 /\ n + 1 # 0 /\ toClient' = t
        BY <1>2, <1>4, <1>7
  <2> QED BY <1>1, <1>3, <1>4, <2>1
<1> QED BY <1>6, <1>7

LEMMA ServerTakesKeeps == InputsInv /\ I!ServerTakes => InputsInv'
<1> SUFFICES ASSUME InputsInv, I!ServerTakes PROVE InputsInv'
    OBVIOUS
<1>1. InputsTypes
      BY DEF InputsInv
<1>2. PICK m : m = Head(wire)
      OBVIOUS
<1>3. /\ ready' = ready /\ dx' = dx /\ dpy' = dpy /\ asked' = asked /\ resets' = resets
      /\ moved' = moved /\ motion_count' = motion_count /\ caps' = caps /\ locks' = locks
      /\ wire # <<>> /\ wire' = Tail(wire) /\ queued' = queued
      BY DEF I!ServerTakes, I!mouse, I!keys
<1>4. ready
      BY <1>3 DEF InputsInv
<1>5. /\ m \in Packets /\ wire' \in Seq(Packets)
      /\ I!Sum(I!Motions(Sent')) \in Int /\ I!Sum(I!Counts(Sent')) \in Int
      /\ I!Sum(I!Motions(Sent)) = I!Sum(I!Motions(Sent')) + Weight(m)
      /\ I!Sum(I!Counts(Sent)) = I!Sum(I!Counts(Sent')) + One(m)
      /\ \A base \in Nat : Clicked(Sent, base) => Clicked(Sent', base + Weight(m))
      /\ m.kind # "locks" => /\ \A v : Telling(Sent', v) <=> Telling(Sent, v)
                             /\ NoLocks(Sent') <=> NoLocks(Sent)
      /\ m.kind = "locks" =>
           \A v : Telling(Sent, v) => Telling(Sent', v) /\ (NoLocks(Sent') => m.val = v)
      BY <1>1, <1>2, <1>3, ServerReads
<1>6. /\ Telling(Sent, caps) /\ Telling(toClient, server.locks) /\ locks = caps
      /\ NoLocks(Sent) /\ NoLocks(toClient) => server.locks = caps
      /\ Clicked(Sent, server.motion)
      BY <1>4 DEF InputsInv
<1>7. PICK x, y, z \in Int : /\ x = I!Sum(I!Motions(Sent')) /\ y = I!Sum(I!Counts(Sent'))
                             /\ z = AckBunch * I!Sum(I!Acks(toClient))
      BY <1>1, <1>5, InputsSums, BunchIsPositive
<1>8. moved = server.motion + (x + Weight(m)) + dx /\ motion_count = (y + One(m)) + server.unacked + z
      BY <1>4, <1>5, <1>7 DEF InputsInv, I!MotionConserved, I!Bunch, Sent
<1>9. I!HeldIsAwaited'
      BY <1>3 DEF InputsInv, I!HeldIsAwaited
<1>10. m.val \in Nat
       BY <1>5 DEF Packets
<1>11. PICK s \in [motion : Int, position : Int, locks : Int, unacked : Int] : s = server
       BY <1>1 DEF InputsTypes
<1>12. s.motion \in Nat /\ s.locks \in 0 .. 1 /\ s.unacked \in 0 .. AckBunch - 1 /\ dx \in Nat
       BY <1>1, <1>11 DEF InputsTypes
\* What is left to show, of the parts of server and of toClient that may change
<1>13. SUFFICES
         /\ server' \in [motion : Int, position : Int, locks : Int, unacked : Int]
         /\ server'.motion = s.motion + Weight(m) /\ server'.locks \in 0 .. 1
         /\ server'.unacked \in 0 .. AckBunch - 1 /\ toClient' \in Seq(Packets)
         /\ server'.unacked + AckBunch * I!Sum(I!Acks(toClient')) = One(m) + s.unacked + z
         /\ Telling(Sent', caps) /\ Telling(toClient', server'.locks)
         /\ NoLocks(Sent') /\ NoLocks(toClient') => server'.locks = caps
  <2>1. Weight(m) \in Nat
        BY <1>10 DEF Weight
  <2>2. server'.motion \in Nat
        BY <1>12, <1>13, <2>1
  <2>3. InputsTypes'
        BY <1>1, <1>3, <1>5, <1>13, <2>2 DEF InputsTypes
  <2>4. Clicked(Sent', server'.motion)
        BY <1>5, <1>6, <1>11, <1>12, <1>13
  <2>5. I!Sum(I!Acks(toClient')) \in Int
    <3>1. PICK t \in Seq(Packets) : t = toClient'
          BY <1>13
    <3>2. PICK k \in Nat : k = Len(t)
          BY LenProperties
    <3> QED BY <3>1, <3>2, MotionSums
  <2>6. PICK f, e \in Int : f = Weight(m) /\ e = AckBunch * I!Sum(I!Acks(toClient'))
        BY <2>1, <2>5, BunchIsPositive
  <2>7. PICK o \in Int : o = One(m)
        BY DEF One
  <2>8. moved' = server'.motion + x + dx'
    <3>1. moved' = s.motion + (x + f) + dx /\ server'.motion = s.motion + f
          BY <1>3, <1>8, <1>11, <1>13, <2>6
    <3> QED BY <1>3, <1>12, <3>1
  <2>9. motion_count' = y + server'.unacked + e
    <3>1. motion_count' = (y + o) + s.unacked + z /\ server'.unacked + e = o + s.unacked + z
          BY <1>3, <1>8, <1>11, <1>13, <2>6, <2>7
    <3>2. PICK u, v \in Int : u = s.unacked /\ v = server'.unacked
          BY <1>12, <1>13, BunchIsPositive
    <3>3. motion_count' = (y + o) + u + z /\ v + e = o + u + z
          BY <3>1, <3>2
    <3>4. motion_count' = y + v + e
          BY <3>3
    <3> QED BY <3>2, <3>4
  <2>10. I!MotionConserved'
         BY <1>7, <2>6, <2>8, <2>9 DEF I!MotionConserved, I!Bunch, Sent
  <2> QED BY <1>3, <1>4, <1>6, <1>9, <1>13, <2>3, <2>4, <2>10 DEF InputsInv
<1>14. ASSUME toClient' = toClient, server'.unacked = s.unacked, One(m) = 0
       PROVE  /\ server'.unacked \in 0 .. AckBunch - 1 /\ toClient' \in Seq(Packets)
              /\ server'.unacked + AckBunch * I!Sum(I!Acks(toClient')) = One(m) + s.unacked + z
  <2>1. s.unacked \in Int
        BY <1>12, BunchIsPositive
  <2> QED BY <1>1, <1>7, <1>12, <1>14, <2>1 DEF InputsTypes
<1>15. ASSUME m.kind \in {"motion", "position"}, server'.unacked = I!Counted, server'.locks = s.locks,
              toClient' = IF I!Counted = 0 THEN Append(toClient, I!Msg("ack", 0)) ELSE toClient
       PROVE  /\ server'.unacked \in 0 .. AckBunch - 1 /\ toClient' \in Seq(Packets)
              /\ server'.unacked + AckBunch * I!Sum(I!Acks(toClient')) = One(m) + s.unacked + z
              /\ Telling(Sent', caps) /\ Telling(toClient', server'.locks)
              /\ NoLocks(Sent') /\ NoLocks(toClient') => server'.locks = caps
              /\ server'.locks \in 0 .. 1
  <2>1. /\ toClient' \in Seq(Packets) /\ I!Counted \in 0 .. AckBunch - 1
        /\ I!Counted + AckBunch * I!Sum(I!Acks(toClient')) =
             (server.unacked + 1) + AckBunch * I!Sum(I!Acks(toClient))
        /\ \A v : Telling(toClient, v) <=> Telling(toClient', v)
        /\ NoLocks(toClient) <=> NoLocks(toClient')
        BY <1>1, <1>15, ServerCounts
  <2>2. One(m) = 1 /\ m.kind # "locks"
        BY <1>15 DEF One
  <2>3. server'.unacked + AckBunch * I!Sum(I!Acks(toClient')) = (s.unacked + 1) + z
        BY <1>7, <1>11, <1>15, <2>1
  <2>4. s.unacked \in Int
        BY <1>12, BunchIsPositive
  <2>5. /\ Telling(Sent', caps) /\ Telling(toClient', server.locks)
        /\ NoLocks(Sent') /\ NoLocks(toClient') => server.locks = caps
        BY <1>5, <1>6, <2>1, <2>2
  <2> QED BY <1>7, <1>11, <1>12, <1>15, <2>1, <2>2, <2>3, <2>4, <2>5
<1>16. CASE m.kind = "motion"
  <2>1. PICK c : c = I!Counted
        OBVIOUS
  <2>2. /\ server' = [s EXCEPT !.motion = s.motion + m.val, !.unacked = c]
        /\ toClient' = IF I!Counted = 0 THEN Append(toClient, I!Msg("ack", 0)) ELSE toClient
        BY <1>2, <1>11, <1>16, <2>1 DEF I!ServerTakes
  <2>3. /\ server'.motion = s.motion + m.val /\ server'.unacked = c /\ server'.locks = s.locks
        BY <2>2
  <2>4. c \in Int
        BY <1>1, <2>1, <2>2, ServerCounts
  <2>5. server' \in [motion : Int, position : Int, locks : Int, unacked : Int]
    <3>1. PICK a \in Int : a = s.motion + m.val
          BY <1>10, <1>12
    <3>2. [s EXCEPT !.motion = a, !.unacked = c]
            \in [motion : Int, position : Int, locks : Int, unacked : Int]
          BY <2>4
    <3> QED BY <2>2, <3>1, <3>2
  <2>6. Weight(m) = m.val
        BY <1>16 DEF Weight
  <2> QED BY <1>15, <1>16, <2>1, <2>2, <2>3, <2>5, <2>6
<1>17. CASE m.kind = "position"
  <2>1. PICK c : c = I!Counted
        OBVIOUS
  <2>2. /\ server' = [s EXCEPT !.position = m.val, !.unacked = c]
        /\ toClient' = IF I!Counted = 0 THEN Append(toClient, I!Msg("ack", 0)) ELSE toClient
        BY <1>2, <1>11, <1>17, <2>1 DEF I!ServerTakes
  <2>3. /\ server'.motion = s.motion /\ server'.unacked = c /\ server'.locks = s.locks
        BY <2>2
  <2>4. c \in Int
        BY <1>1, <2>1, <2>2, ServerCounts
  <2>5. server' \in [motion : Int, position : Int, locks : Int, unacked : Int]
    <3>1. PICK a \in Int : a = m.val
          BY <1>10
    <3>2. [s EXCEPT !.position = a, !.unacked = c]
            \in [motion : Int, position : Int, locks : Int, unacked : Int]
          BY <2>4
    <3> QED BY <2>2, <3>1, <3>2
  <2>6. s.motion = s.motion + Weight(m)
        BY <1>12, <1>17 DEF Weight
  <2> QED BY <1>15, <1>17, <2>1, <2>2, <2>3, <2>5, <2>6
<1>18. CASE m.kind = "button"
  <2>1. server' = s /\ toClient' = toClient
        BY <1>2, <1>11, <1>18 DEF I!ServerTakes
  <2>2. Weight(m) = 0 /\ One(m) = 0 /\ m.kind # "locks"
        BY <1>18 DEF Weight, One
  <2>3. /\ Telling(Sent', caps) /\ Telling(toClient', server'.locks)
        /\ NoLocks(Sent') /\ NoLocks(toClient') => server'.locks = caps
        BY <1>5, <1>6, <1>11, <2>1, <2>2
  <2>4. s.motion = s.motion + Weight(m)
        BY <1>12, <2>2
  <2> QED BY <1>12, <1>14, <2>1, <2>2, <2>3, <2>4
<1>19. CASE m.kind = "locks"
  <2>1. /\ server' = [s EXCEPT !.locks = m.val]
        /\ toClient' = IF m.val = s.locks THEN toClient
                       ELSE Append(toClient, I!Msg("locks", m.val))
        BY <1>2, <1>11, <1>19 DEF I!ServerTakes
  <2>2. /\ server'.motion = s.motion /\ server'.unacked = s.unacked /\ server'.locks = m.val
        BY <2>1
  <2>3. server' \in [motion : Int, position : Int, locks : Int, unacked : Int]
        BY <1>10, <2>1
  <2>4. Weight(m) = 0 /\ One(m) = 0 /\ m.val \in 0 .. 1
        BY <1>5, <1>19 DEF Weight, One, Packets
  <2>5. Telling(Sent', caps) /\ (NoLocks(Sent') => m.val = caps)
        BY <1>5, <1>6, <1>19
  <2>6. s.motion = s.motion + Weight(m) /\ s.unacked \in Int
        BY <1>12, <2>4, BunchIsPositive
  <2>7. CASE m.val = s.locks
    <3>1. toClient' = toClient
          BY <2>1, <2>7
    <3>2. Telling(toClient', server'.locks)
          BY <1>6, <1>11, <2>2, <2>7, <3>1
    <3> QED BY <1>14, <2>2, <2>3, <2>4, <2>5, <2>6, <3>1, <3>2
  <2>8. CASE m.val # s.locks
    <3>1. PICK t \in Seq(Packets) : t = toClient
          BY <1>1 DEF InputsTypes
    <3>2. PICK p : p = I!Msg("locks", m.val)
          OBVIOUS
    <3>3. p \in Packets /\ p.kind = "locks" /\ p.val = m.val
          BY <2>4, <3>2 DEF I!Msg, Packets
    <3>4. toClient' = Append(t, p)
          BY <2>1, <2>8, <3>1, <3>2
    <3>5. /\ toClient' \in Seq(Packets) /\ I!Sum(I!Acks(toClient')) = I!Sum(I!Acks(t))
          /\ Telling(toClient', m.val)
          BY <3>3, <3>4, LocksPut
    <3>6. server'.unacked + AckBunch * I!Sum(I!Acks(toClient')) = One(m) + s.unacked + z
          BY <1>7, <2>2, <2>4, <2>6, <3>1, <3>5
    <3> QED BY <1>12, <2>2, <2>3, <2>4, <2>5, <2>6, <3>5, <3>6
  <2> QED BY <2>7, <2>8
<1>20. m.kind \in {"motion", "position", "button", "locks"}
       BY <1>2 DEF I!ServerTakes
<1> QED BY <1>16, <1>17, <1>18, <1>19, <1>20

LEMMA InputsStep == [MCNext]_mcvars => [I!Next]_(I!vars)
<1> SUFFICES ASSUME [MCNext]_mcvars PROVE [I!Next]_(I!vars)
    OBVIOUS
<1>1. UNCHANGED inputsVars => UNCHANGED I!vars
      BY DEF inputsVars, I!vars, I!mouse, I!keys, I!net
<1>2. CASE UNCHANGED inputsVars
      BY <1>1, <1>2
<1>3. CASE ~UNCHANGED inputsVars
  <2>1. MCNext
        BY <1>3 DEF mcvars
  <2>2. ASSUME NEW x \in {"config", "widget", "clipboard", "screen", "screen2", "scaling", "usb"},
               On(x)
        PROVE  FALSE
        BY <1>3, <2>2 DEF On
  <2> QED BY <2>1, <2>2 DEF MCNext, I!Next
<1> QED BY <1>2, <1>3

LEMMA InputsNext == InputsInv /\ [I!Next]_(I!vars) => InputsInv'
<1> SUFFICES ASSUME InputsInv, [I!Next]_(I!vars) PROVE InputsInv'
    OBVIOUS
<1>1. CASE UNCHANGED I!vars
  <2>1. /\ ready' = ready /\ dx' = dx /\ dpy' = dpy /\ asked' = asked /\ toClient' = toClient
        /\ server' = server /\ resets' = resets /\ locks' = locks /\ caps' = caps
        /\ moved' = moved /\ motion_count' = motion_count /\ wire' = wire /\ queued' = queued
        BY <1>1 DEF I!vars, I!keys, I!mouse, I!net
  <2> QED BY <2>1 DEF InputsInv, InputsTypes, Sent, I!HeldIsAwaited, I!MotionConserved
<1>2. CASE I!Next
      BY <1>2, MoveByKeeps, MoveToKeeps, ButtonKeeps, FlushKeeps, BeginReadKeeps, HandleAckKeeps,
         HandleModifiersKeeps, ClientTogglesKeeps, UpKeeps, DownKeeps, ServerTakesKeeps,
         GuestTogglesKeeps DEF I!Next
<1> QED BY <1>1, <1>2

\* The inputs channel (spice_inputs_channel_motion, _position, _button_press,
\* inputs_handle_ack, set_key_locks, spice_inputs_channel_reset), for any size of a bunch
\* and any number of motions, clicks, toggles and resets: no motion is lost or made twice,
\* one held back has an acknowledgement to come, no button overtakes the motion made before
\* it, and the lock keys of client and guest agree when nothing is under way.
THEOREM InputsSafeTheorem == MCSpec => []InputsSafe
<1>1. MCInit => InputsInv
      BY InitInputsInv DEF MCInit
<1>2. InputsInv /\ [MCNext]_mcvars => InputsInv'
      BY InputsStep, InputsNext
<1>3. InputsInv => InputsSafe
  <2> SUFFICES ASSUME InputsInv PROVE InputsSafe
      OBVIOUS
  <2>1. I!ClickedAfterMotion
    <3>1. Clicked(Sent, server.motion) /\ Sent \in Seq(Packets)
          BY InputsSums DEF InputsInv
    <3>2. DOMAIN Sent = 1 .. Len(Sent)
          BY <3>1
    <3> QED BY <3>1, <3>2 DEF Clicked, I!ClickedAfterMotion, Sent
  <2>2. I!LocksAgree
    <3> SUFFICES ASSUME ready, queued = <<>>, wire = <<>>, toClient = <<>>
                 PROVE  server.locks = caps
        BY DEF I!LocksAgree
    <3>1. Sent = <<>>
          BY DEF Sent
    <3> QED BY <3>1, NothingSent DEF InputsInv
  <2> QED BY <2>1, <2>2 DEF InputsInv, InputsSafe
<1> QED BY <1>1, <1>2, <1>3, PTL DEF MCSpec

=============================================================================
