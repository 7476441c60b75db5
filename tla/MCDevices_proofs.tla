------------------------- MODULE MCDevices_proofs -------------------------
(***************************************************************************)
(* Proofs about the machines of MCDevices, for every value of their        *)
(* constants.  Each machine has an inductive invariant, an "Inv" of its    *)
(* own, and a lemma that a step of MCNext is a step of the machine or      *)
(* leaves it alone.                                                        *)
(***************************************************************************)
EXTENDS MCDevices, FiniteSetTheorems, SequenceTheorems, TLAPS

-----------------------------------------------------------------------------
(* Pipes *)

PipeTypes ==
  /\ op \in [P!Ends -> {"none", "waits", "ready"}] /\ pipe_asked \in [P!Ends -> Nat]
  /\ closed \in [P!Ends -> BOOLEAN] /\ peer_closed \in [P!Ends -> BOOLEAN]
  /\ buffer \in Nat /\ read \in Nat \cup {-1} /\ told \in Nat /\ got \in Seq(Nat)

\* A closed end has no call, and its peer knows.
PipeEnds ==
  \A e \in P!Ends : /\ closed[e] => op[e] = "none"
                    /\ peer_closed[e] <=> closed[P!Peer(e)]

\* What waits has a reason to: a writer has lent its buffer and nobody read it, and
\* then a reader does not wait.
PipeCalls ==
  /\ read >= 0 => buffer = 0
  /\ op["out"] # "none" => pipe_asked["out"] > 0
  /\ buffer > 0 /\ ~peer_closed["out"] =>
       op["out"] # "none" /\ (read < 0 => buffer = pipe_asked["out"])
  /\ op["out"] = "waits" => buffer > 0 /\ read = -1 /\ ~peer_closed["out"]
  /\ op["in"] = "waits" => (buffer = 0 \/ read >= 0) /\ ~peer_closed["in"]

\* The reader has the numbered bytes in order, and the writer is about to be told of
\* those it was not told of yet.
PipeBytes ==
  /\ Len(got) = told + (IF read < 0 THEN 0 ELSE read)
  /\ \A i \in 1 .. Len(got) : got[i] = i
  /\ read >= 0 /\ ~peer_closed["out"] => op["out"] = "ready" /\ read <= pipe_asked["out"]

PipeInv == PipeTypes /\ PipeEnds /\ PipeCalls /\ PipeBytes

LEMMA InitPipeInv == P!Init => PipeInv
BY EmptySeq DEF P!Init, PipeInv, PipeTypes, PipeEnds, PipeCalls, PipeBytes, P!Ends, P!Peer

\* The numbered bytes go on where they ended.
LEMMA NumbersGoOn ==
  ASSUME NEW s \in Seq(Nat), NEW r \in Seq(Nat),
         \A i \in 1 .. Len(s) : s[i] = i, \A i \in 1 .. Len(r) : r[i] = Len(s) + i
  PROVE  /\ s \o r \in Seq(Nat) /\ Len(s \o r) = Len(s) + Len(r)
         /\ \A i \in 1 .. Len(s \o r) : (s \o r)[i] = i
<1> DEFINE u == s \o r
<1>1. u \in Seq(Nat) /\ Len(u) = Len(s) + Len(r) /\ Len(s) \in Nat /\ Len(r) \in Nat
      BY ConcatProperties, LenProperties
<1>2. \A i \in 1 .. Len(s) + Len(r) : u[i] = IF i <= Len(s) THEN s[i] ELSE r[i - Len(s)]
      BY ConcatProperties, Zenon
<1> HIDE DEF u
<1>3. ASSUME NEW i \in 1 .. Len(u) PROVE u[i] = i
  <2>1. CASE i <= Len(s)
        BY <1>1, <1>2, <2>1
  <2>2. CASE ~(i <= Len(s))
    <3>1. i - Len(s) \in 1 .. Len(r)
          BY <1>1, <2>2
    <3>2. u[i] = r[i - Len(s)] /\ r[i - Len(s)] = Len(s) + (i - Len(s))
          BY <1>1, <1>2, <2>2, <3>1
    <3> QED BY <1>1, <3>2
  <2> QED BY <2>1, <2>2
<1> QED BY <1>1, <1>3 DEF u

LEMMA PipeInvStep == PipeInv /\ [P!Next]_(P!vars) => PipeInv'
<1> SUFFICES ASSUME PipeInv, [P!Next]_(P!vars) PROVE PipeInv'
    OBVIOUS
<1> USE DEF P!Ends, P!Peer
<1>1. PipeTypes /\ PipeEnds /\ PipeCalls /\ PipeBytes
      BY DEF PipeInv
<1>2. MaxCount \in Nat \ {0} /\ MaxBytes \in Nat
      BY DevicesAssumption DEF P!PipeAssumption
<1>3. CASE P!Read
  <2>1. CASE UNCHANGED <<buffer, read, got>>
    <3>1. /\ op["in"] = "ready"
          /\ \/ peer_closed["in"] /\ op' = [op EXCEPT !["in"] = "none"]
             \/ /\ ~peer_closed["in"] /\ ~(buffer > 0 /\ read = -1)
                /\ op' = [op EXCEPT !["in"] = "waits"]
          /\ UNCHANGED <<pipe_asked, closed, peer_closed, told, buffer, read, got>>
          BY <1>1, <1>3, <2>1
             DEF P!Read, P!Blocks, P!Readable, PipeTypes
    <3> QED BY <1>1, <3>1 DEF PipeInv, PipeTypes, PipeEnds, PipeCalls, PipeBytes
  <2>2. CASE ~UNCHANGED <<buffer, read, got>>
    <3> DEFINE n == IF buffer < pipe_asked["in"] THEN buffer ELSE pipe_asked["in"]
               r == [i \in 1 .. n |-> told + i]
    <3>1. /\ op["in"] = "ready" /\ ~peer_closed["in"] /\ buffer > 0 /\ read = -1
          /\ read' = n /\ got' = got \o r /\ buffer' = 0
          /\ op' = P!Woken([op EXCEPT !["in"] = "none"], "out")
          /\ UNCHANGED <<pipe_asked, closed, peer_closed, told>>
          BY <1>3, <2>2 DEF P!Read, P!Readable
    <3>2. n \in Nat /\ n <= buffer /\ n <= pipe_asked["in"]
          BY <1>1 DEF PipeTypes
    <3>3. r \in Seq(Nat) /\ Len(r) = n /\ \A i \in 1 .. n : r[i] = told + i
      <4> HIDE DEF n
      <4>1. r \in [1 .. n -> Nat] /\ DOMAIN r = 1 .. n
            BY <1>1, <3>2 DEF PipeTypes
      <4> QED BY <3>2, <4>1, SeqDef, LenProperties
    <3> HIDE DEF n, r
    <3>4. Len(got) = told /\ told \in Nat /\ got \in Seq(Nat) /\ \A i \in 1 .. told : got[i] = i
          BY <1>1, <3>1 DEF PipeTypes, PipeBytes
    <3>5. got' \in Seq(Nat) /\ Len(got') = told + n /\ \A i \in 1 .. told + n : got'[i] = i
      <4>1. /\ got' \in Seq(Nat) /\ Len(got') = Len(got) + Len(r)
            /\ \A i \in 1 .. Len(got') : got'[i] = i
            BY <3>1, <3>3, <3>4, NumbersGoOn
      <4> QED BY <3>3, <3>4, <4>1
    <3>6. /\ op' = [op EXCEPT !["in"] = "none", !["out"] = op'["out"]]
          /\ op'["out"] = IF op["out"] = "waits" THEN "ready" ELSE op["out"]
          BY <1>1, <3>1 DEF P!Woken, PipeTypes
    <3>7. PipeTypes'
          BY <1>1, <3>1, <3>2, <3>5, <3>6 DEF PipeTypes
    <3>8. PipeEnds' /\ PipeCalls'
          BY <1>1, <3>1, <3>2, <3>6 DEF PipeTypes, PipeEnds, PipeCalls
    <3>9. PipeBytes'
          BY <1>1, <3>1, <3>2, <3>5, <3>6 DEF PipeTypes, PipeEnds, PipeCalls, PipeBytes
    <3> QED BY <3>7, <3>8, <3>9 DEF PipeInv
  <2> QED BY <2>1, <2>2
<1>4. CASE P!Write
  <2>1. op["out"] = "ready" /\ UNCHANGED <<pipe_asked, closed, peer_closed, got>>
        BY <1>4 DEF P!Write
  <2>2. \/ /\ buffer > 0 /\ read = -1 /\ ~peer_closed["out"]
           /\ op' = [op EXCEPT !["out"] = "waits"] /\ UNCHANGED <<buffer, read, told>>
        \/ /\ peer_closed["out"] /\ op' = [op EXCEPT !["out"] = "none"]
           /\ UNCHANGED <<buffer, read, told>>
        \/ /\ ~peer_closed["out"] /\ read = -1
           /\ op' = [(IF op["in"] = "waits" THEN [op EXCEPT !["in"] = "ready"] ELSE op)
                       EXCEPT !["out"] = "waits"]
           /\ buffer' = pipe_asked["out"] /\ UNCHANGED <<read, told>>
        \/ /\ ~peer_closed["out"] /\ read >= 0 /\ op'["in"] \in {op["in"], "ready"}
           /\ (op["in"] # "waits" => op'["in"] = op["in"])
           /\ op' = [op EXCEPT !["in"] = op'["in"], !["out"] = "none"]
           /\ told' = told + read /\ buffer' = 0 /\ read' = -1
    <3>1. CASE ~P!Writable(buffer, read, peer_closed["out"])
      <4>1. read = -1 /\ buffer > 0 /\ ~peer_closed["out"]
            BY <1>1, <3>1 DEF P!Writable, PipeTypes
      <4>2. ~P!Writable(buffer, read, FALSE)
            BY <3>1 DEF P!Writable
      <4> QED BY <1>4, <3>1, <4>1, <4>2 DEF P!Write, P!Blocks
    <3>2. CASE peer_closed["out"]
      <4>1. P!Writable(buffer, read, peer_closed["out"])
            BY <3>2 DEF P!Writable
      <4> QED BY <1>4, <3>2, <4>1 DEF P!Write
    <3>3. CASE P!Writable(buffer, read, peer_closed["out"]) /\ ~peer_closed["out"]
      <4> DEFINE woken == IF P!Readable(pipe_asked["out"], read, peer_closed["in"])
                          THEN P!Woken(op, "in") ELSE op
      <4>1. \/ /\ read < 0 /\ op' = [woken EXCEPT !["out"] = "waits"]
               /\ buffer' = pipe_asked["out"] /\ UNCHANGED <<read, told>>
            \/ /\ read >= 0 /\ op' = [woken EXCEPT !["out"] = "none"]
               /\ told' = told + read /\ buffer' = 0 /\ read' = -1
            BY <1>4, <3>3 DEF P!Write
      <4>2. /\ woken = [op EXCEPT !["in"] = woken["in"]] /\ woken["in"] \in {op["in"], "ready"}
            /\ op["in"] # "waits" => woken["in"] = op["in"]
            BY <1>1 DEF P!Woken, PipeTypes
      <4>3. read < 0 => read = -1 /\ P!Readable(pipe_asked["out"], read, peer_closed["in"])
            BY <1>1, <2>1 DEF P!Readable, PipeTypes, PipeCalls
      <4>4. CASE read < 0
        <5>1. woken = IF op["in"] = "waits" THEN [op EXCEPT !["in"] = "ready"] ELSE op
              BY <4>3, <4>4 DEF P!Woken
        <5> QED BY <3>3, <4>1, <4>3, <4>4, <5>1
      <4>5. CASE read >= 0
        <5> HIDE DEF woken
        <5>1. op' = [woken EXCEPT !["out"] = "none"]
              /\ told' = told + read /\ buffer' = 0 /\ read' = -1
              BY <1>1, <4>1, <4>5 DEF PipeTypes
        <5>2. op'["in"] = woken["in"] /\ op' = [op EXCEPT !["in"] = op'["in"], !["out"] = "none"]
              BY <1>1, <4>2, <5>1 DEF PipeTypes
        <5> QED BY <3>3, <4>2, <4>5, <5>1, <5>2
      <4> QED BY <1>1, <4>4, <4>5 DEF PipeTypes
    <3> QED BY <3>1, <3>2, <3>3
  <2>3. PipeTypes'
        BY <1>1, <2>1, <2>2 DEF PipeTypes
  <2>4. PipeEnds'
        BY <1>1, <2>1, <2>2 DEF PipeTypes, PipeEnds
  <2>5. PipeCalls'
        BY <1>1, <2>1, <2>2 DEF PipeTypes, PipeEnds, PipeCalls
  <2>6. PipeBytes'
        BY <1>1, <2>1, <2>2 DEF PipeTypes, PipeCalls, PipeBytes
  <2> QED BY <2>3, <2>4, <2>5, <2>6 DEF PipeInv
<1>5. CASE \E e \in P!Ends : P!Begin(e)
      BY <1>1, <1>2, <1>5 DEF P!Begin, PipeInv, PipeTypes, PipeEnds, PipeCalls, PipeBytes
<1>6. CASE \E e \in P!Ends : P!Close(e)
      BY <1>1, <1>6 DEF P!Close, P!ClosedWith, P!Woken, PipeInv, PipeTypes, PipeEnds,
                        PipeCalls, PipeBytes
<1>7. CASE UNCHANGED P!vars
      BY <1>1, <1>7 DEF P!vars, PipeInv, PipeTypes, PipeEnds, PipeCalls, PipeBytes
<1> QED BY <1>3, <1>4, <1>5, <1>6, <1>7 DEF P!Next

LEMMA PipeStep == [MCNext]_mcvars => [P!Next]_(P!vars)
<1> SUFFICES ASSUME [MCNext]_mcvars PROVE [P!Next]_(P!vars)
    OBVIOUS
<1>1. UNCHANGED pipeVars => UNCHANGED P!vars
      BY DEF pipeVars, P!vars
<1>2. CASE UNCHANGED mcvars
      BY <1>1, <1>2 DEF mcvars
<1>3. CASE MCNext
  <2>1. ASSUME NEW x \in {"usb", "smartcard", "webdav", "pulse", "record", "playback"}, On(x)
        PROVE  UNCHANGED pipeVars
        BY <2>1 DEF On
  <2> QED BY <1>1, <1>3, <2>1 DEF MCNext, P!Next
<1> QED BY <1>2, <1>3

\* Pipes (pipe_input_stream_read, pipe_output_stream_write, the two closes), for any
\* number of bytes and any size of the reads and writes: every byte is taken once, in
\* order, the writer is told of it once, and no two ends wait for each other.
THEOREM PipeSafeTheorem == MCSpec => []PipeSafe
<1>1. MCInit => PipeInv
      BY InitPipeInv DEF MCInit
<1>2. PipeInv /\ [MCNext]_mcvars => PipeInv'
      BY PipeStep, PipeInvStep
<1>3. PipeInv => PipeSafe
  <2> SUFFICES ASSUME PipeInv PROVE P!TakenOnce /\ P!NobodyWaitsForBoth
      BY DEF PipeSafe
  <2>1. got = [i \in DOMAIN got |-> i]
    <3>1. got \in Seq(Nat) /\ \A i \in 1 .. Len(got) : got[i] = i
          BY DEF PipeInv, PipeTypes, PipeBytes
    <3>2. DOMAIN got = 1 .. Len(got) /\ got \in [1 .. Len(got) -> Nat]
          BY <3>1, LenProperties
    <3> QED BY <3>1, <3>2
  <2>2. P!TakenOnce
        BY <2>1 DEF PipeInv, PipeTypes, PipeCalls, PipeBytes, P!TakenOnce
  <2>3. P!NobodyWaitsForBoth
        BY DEF PipeInv, PipeTypes, PipeCalls, PipeEnds, P!NobodyWaitsForBoth, P!Ends, P!Peer
  <2> QED BY <2>2, <2>3
<1> QED BY <1>1, <1>2, <1>3, PTL DEF MCSpec

-----------------------------------------------------------------------------
(* Playing *)

\* What the coroutine of a channel does that is still of use to the server.
Receiving == {"idle", "start", "data", "volume"}

PbTypes ==
  /\ pb_life \in [B!Channels -> {"none", "listed", "dropped", "dead"}]
  /\ run \in [B!Channels -> {"off", "idle", "start", "data", "stop", "volume",
                             "ending", "ended", "over"}]
  /\ pb_on \in [B!Channels -> BOOLEAN] /\ codec \in [B!Channels -> BOOLEAN]
  /\ is_active \in [B!Channels -> BOOLEAN] /\ mode \in [B!Channels -> {"raw", "opus"}]
  /\ fmt \in [B!Channels -> Formats \cup {nobody}]
  /\ volume \in [B!Channels -> Volumes \cup {nobody}]
  /\ mmtime \in BOOLEAN /\ pb_playing \in BOOLEAN /\ pchannel \in B!Channels \cup {0}

\* The back end has the channel whose coroutine runs, and that one only.
PbLife(n) ==
  /\ pb_life[n] = "none" => run[n] = "off" /\ volume[n] = nobody
  /\ run[n] \notin {"off", "over"} => pchannel = n
  /\ pchannel = n => /\ pb_life[n] \in {"listed", "dropped"} /\ run[n] # "off"
                     /\ run[n] = "over" => pb_life[n] = "listed"

\* A channel is active while the server plays on it, and what it plays is heard.
PbSound(n) ==
  /\ run[n] = "start" => pb_on[n] /\ fmt[n] # nobody
  /\ run[n] \in Receiving => (is_active[n] <=> pb_on[n])
  /\ run[n] \notin Receiving => ~pb_on[n]
  /\ run[n] \in {"off", "ended", "over"} => ~is_active[n]
  /\ run[n] = "data" => pb_on[n] /\ B!Decodes(n)
  /\ run[n] \in Receiving \ {"start"} /\ pb_on[n] /\ B!Decodes(n) =>
       pipe = fmt[n] /\ pb_playing /\ mmtime

PbVolume(n) ==
  run[n] \notin {"off", "over", "volume"} /\ sink # nobody /\ volume[n] # nobody =>
    sink = volume[n]

\* The clock runs from the start of the playback to its end; the sink is in a pipeline.
PbClock ==
  /\ sink # nobody => pipe # nobody
  /\ mmtime => /\ pipe # nobody /\ pb_playing /\ pchannel # 0
               /\ \/ run[pchannel] \in {"stop", "ending"}
                  \/ /\ run[pchannel] \in Receiving /\ pb_on[pchannel]
                     /\ pb_life[pchannel] = "listed" => clock = pchannel

PbInv ==
  /\ PbTypes /\ PbClock
  /\ \A n \in B!Channels : PbLife(n) /\ PbSound(n) /\ PbVolume(n)

LEMMA PbConstants ==
  /\ nobody \notin Formats /\ nobody \notin Volumes
  /\ 0 \notin B!Channels /\ B!Channels \subseteq Nat
BY DevicesAssumption DEF B!PlaybackAssumption, B!Channels

USE DEF B!object, B!channel, B!backend, B!Nobody

LEMMA InitPbInv == B!Init => PbInv
<1> SUFFICES ASSUME B!Init PROVE PbInv
    OBVIOUS
<1>1. PbTypes /\ PbClock
      BY DEF B!Init, PbTypes, PbClock
<1>2. ASSUME NEW n \in B!Channels PROVE PbLife(n) /\ PbSound(n) /\ PbVolume(n)
      BY PbConstants DEF B!Init, PbLife, PbSound, PbVolume, Receiving
<1> QED BY <1>1, <1>2 DEF PbInv

\* The channels that come and go.
LEMMA PbSessionStep ==
  ASSUME PbInv, NEW n \in B!Channels,
         B!channel_new(n) \/ B!channel_destroy(n) \/ B!Unref(n) \/ B!Migrated(n)
  PROVE  PbInv'
<1>1. /\ PbTypes /\ PbClock /\ \A m \in B!Channels : PbLife(m) /\ PbSound(m) /\ PbVolume(m)
      /\ pchannel # 0 => PbLife(pchannel)
      BY DEF PbInv, PbTypes
<1>2. CASE B!channel_new(n)
  <2> USE <1>1, <1>2, PbConstants DEF B!channel_new, B!Connected, PbTypes
  <2>1. PbTypes'
        OBVIOUS
  <2>2. PbClock'
        BY DEF PbClock, PbLife, Receiving
  <2>3. ASSUME NEW m \in B!Channels PROVE (PbLife(m) /\ PbSound(m) /\ PbVolume(m))'
        BY DEF PbLife, PbSound, PbVolume, B!Decodes, Receiving
  <2> QED BY <2>1, <2>2, <2>3 DEF PbInv
<1>3. CASE B!channel_destroy(n) \/ B!Unref(n)
  <2> USE <1>1, <1>3, PbConstants
      DEF B!channel_destroy, B!Unref, B!Finalized, B!playback_stop, B!ClockStopped, PbTypes
  <2>1. PbTypes'
        OBVIOUS
  <2>2. PbClock'
    <3>1. CASE B!channel_destroy(n)
          BY <3>1 DEF PbClock, PbLife, Receiving
    <3>2. CASE B!Unref(n)
          BY <3>2 DEF PbClock, PbLife, Receiving
    <3> QED BY <3>1, <3>2
  <2>3. ASSUME NEW m \in B!Channels PROVE (PbLife(m) /\ PbSound(m) /\ PbVolume(m))'
        BY DEF PbLife, PbSound, PbVolume, B!Decodes, Receiving
  <2> QED BY <2>1, <2>2, <2>3 DEF PbInv
<1>4. CASE B!Migrated(n)
  <2> USE <1>1, <1>4, PbConstants
      DEF B!Migrated, B!Inactive, B!playback_stop, B!ClockStopped, PbTypes
  <2>1. PbTypes'
        OBVIOUS
  <2>2. PbClock'
        BY DEF PbClock
  <2>3. ASSUME NEW m \in B!Channels PROVE (PbLife(m) /\ PbSound(m) /\ PbVolume(m))'
        BY DEF PbLife, PbSound, PbVolume, B!Decodes, Receiving
  <2> QED BY <2>1, <2>2, <2>3 DEF PbInv
<1> QED BY <1>2, <1>3, <1>4

\* The back end by itself, and the clock of the server.
LEMMA PbClockStep ==
  ASSUME PbInv,
         \/ B!update_mmtime \/ B!main_handle_mm_time
         \/ \E f \in Formats : B!get_volume(f)
  PROVE  PbInv'
<1>1. /\ PbTypes /\ PbClock /\ \A m \in B!Channels : PbLife(m) /\ PbSound(m) /\ PbVolume(m)
      /\ pchannel # 0 => PbLife(pchannel)
      BY DEF PbInv, PbTypes
<1>2. CASE B!update_mmtime \/ B!main_handle_mm_time
  <2> USE <1>1, <1>2, PbConstants
      DEF B!update_mmtime, B!main_handle_mm_time, B!ClockSet, PbTypes
  <2>1. PbTypes'
        OBVIOUS
  <2>2. PbClock'
        BY DEF PbClock
  <2>3. ASSUME NEW m \in B!Channels PROVE (PbLife(m) /\ PbSound(m) /\ PbVolume(m))'
        BY DEF PbLife, PbSound, PbVolume, B!Decodes, Receiving
  <2> QED BY <2>1, <2>2, <2>3 DEF PbInv
<1>3. CASE \E f \in Formats : B!get_volume(f)
  <2> USE <1>1, <1>3, PbConstants DEF B!get_volume, PbTypes
  <2>1. PbTypes'
        OBVIOUS
  <2>2. PbClock'
        BY DEF PbClock
  <2>3. ASSUME NEW m \in B!Channels PROVE (PbLife(m) /\ PbSound(m) /\ PbVolume(m))'
        BY DEF PbClock, PbLife, PbSound, PbVolume, B!Decodes, Receiving
  <2> QED BY <2>1, <2>2, <2>3 DEF PbInv
<1> QED BY <1>2, <1>3

\* The messages of the server.
LEMMA PbReceiveStep ==
  ASSUME PbInv, NEW n \in B!Channels,
         \/ \E m \in {"raw", "opus"} : B!playback_handle_mode(n, m)
         \/ \E f \in Formats, ok \in BOOLEAN : B!playback_handle_start(n, f, ok)
         \/ \E v \in Volumes : B!playback_handle_set_volume(n, v)
         \/ B!playback_handle_data(n) \/ B!playback_handle_stop(n)
  PROVE  PbInv'
<1>1. /\ PbTypes /\ PbClock /\ \A m \in B!Channels : PbLife(m) /\ PbSound(m) /\ PbVolume(m)
      /\ pchannel # 0 => PbLife(pchannel)
      BY DEF PbInv, PbTypes
<1> USE DEF B!Receive
<1>2. CASE \E m \in {"raw", "opus"} : B!playback_handle_mode(n, m)
  <2> USE <1>1, <1>2, PbConstants DEF B!playback_handle_mode, PbTypes
  <2>1. PbTypes'
        OBVIOUS
  <2>2. PbClock'
        BY DEF PbClock
  <2>3. ASSUME NEW m \in B!Channels PROVE (PbLife(m) /\ PbSound(m) /\ PbVolume(m))'
        BY DEF PbLife, PbSound, PbVolume, B!Decodes, Receiving
  <2> QED BY <2>1, <2>2, <2>3 DEF PbInv
<1>3. CASE \E f \in Formats, ok \in BOOLEAN : B!playback_handle_start(n, f, ok)
  <2> USE <1>1, <1>3, PbConstants DEF B!playback_handle_start, PbTypes
  <2>1. PbTypes'
        OBVIOUS
  <2>2. PbClock'
        BY DEF PbClock, PbLife, Receiving
  <2>3. ASSUME NEW m \in B!Channels PROVE (PbLife(m) /\ PbSound(m) /\ PbVolume(m))'
        BY DEF PbLife, PbSound, PbVolume, B!Decodes, Receiving
  <2> QED BY <2>1, <2>2, <2>3 DEF PbInv
<1>4. CASE \E v \in Volumes : B!playback_handle_set_volume(n, v)
  <2> USE <1>1, <1>4, PbConstants DEF B!playback_handle_set_volume, PbTypes
  <2>1. PbTypes'
        OBVIOUS
  <2>2. PbClock'
        BY DEF PbClock, PbLife, Receiving
  <2>3. ASSUME NEW m \in B!Channels PROVE (PbLife(m) /\ PbSound(m) /\ PbVolume(m))'
        BY DEF PbClock, PbLife, PbSound, PbVolume, B!Decodes, Receiving
  <2> QED BY <2>1, <2>2, <2>3 DEF PbInv
<1>5. CASE B!playback_handle_data(n)
  <2> USE <1>1, <1>5, PbConstants DEF B!playback_handle_data, PbTypes
  <2>1. PbTypes'
        OBVIOUS
  <2>2. PbClock'
        BY DEF PbClock, PbSound, PbLife, Receiving
  <2>3. ASSUME NEW m \in B!Channels PROVE (PbLife(m) /\ PbSound(m) /\ PbVolume(m))'
        BY DEF PbClock, PbLife, PbSound, PbVolume, B!Decodes, Receiving
  <2> QED BY <2>1, <2>2, <2>3 DEF PbInv
<1>6. CASE B!playback_handle_stop(n)
  <2> USE <1>1, <1>6, PbConstants DEF B!playback_handle_stop, PbTypes
  <2>1. PbTypes'
        OBVIOUS
  <2>2. PbClock'
        BY DEF PbClock, PbLife, Receiving
  <2>3. ASSUME NEW m \in B!Channels PROVE (PbLife(m) /\ PbSound(m) /\ PbVolume(m))'
        BY DEF PbClock, PbLife, PbSound, PbVolume, B!Decodes, Receiving
  <2> QED BY <2>1, <2>2, <2>3 DEF PbInv
<1> QED BY <1>2, <1>3, <1>4, <1>5, <1>6

\* The ends of the emissions, and of the coroutine.
LEMMA PbEmitStep ==
  ASSUME PbInv, NEW n \in B!Channels,
         B!Started(n) \/ B!Pushed(n) \/ B!VolumeTold(n) \/ B!Stopped(n) \/ B!Ends(n)
  PROVE  PbInv'
<1>1. /\ PbTypes /\ PbClock /\ \A m \in B!Channels : PbLife(m) /\ PbSound(m) /\ PbVolume(m)
      /\ pchannel # 0 => PbLife(pchannel)
      BY DEF PbInv, PbTypes
<1>2. CASE B!Started(n)
  <2> USE <1>1, <1>2, PbConstants DEF B!Started, B!playback_start, B!ClockSet, PbTypes
  <2>1. PbTypes'
        OBVIOUS
  <2>2. PbClock'
        BY DEF PbClock, PbLife, PbSound, Receiving
  <2>3. ASSUME NEW m \in B!Channels PROVE (PbLife(m) /\ PbSound(m) /\ PbVolume(m))'
        BY DEF PbLife, PbSound, PbVolume, B!Decodes, Receiving
  <2> QED BY <2>1, <2>2, <2>3 DEF PbInv
<1>3. CASE B!Pushed(n)
  <2> USE <1>1, <1>3, PbConstants DEF B!Pushed, PbTypes
  <2>1. PbTypes'
        OBVIOUS
  <2>2. PbClock'
        BY DEF PbClock, PbSound, PbLife, Receiving
  <2>3. ASSUME NEW m \in B!Channels PROVE (PbLife(m) /\ PbSound(m) /\ PbVolume(m))'
        BY DEF PbClock, PbLife, PbSound, PbVolume, B!Decodes, Receiving
  <2> QED BY <2>1, <2>2, <2>3 DEF PbInv
<1>6. CASE B!VolumeTold(n)
  <2> USE <1>1, <1>6, PbConstants DEF B!VolumeTold, B!volume_changed, PbTypes
  <2>1. PbTypes'
        OBVIOUS
  <2>2. PbClock'
        BY DEF PbClock, PbLife, Receiving
  <2>3. ASSUME NEW m \in B!Channels PROVE (PbLife(m) /\ PbSound(m) /\ PbVolume(m))'
        BY DEF PbClock, PbLife, PbSound, PbVolume, B!Decodes, Receiving
  <2> QED BY <2>1, <2>2, <2>3 DEF PbInv
<1>4. CASE B!Stopped(n)
  <2> USE <1>1, <1>4, PbConstants
      DEF B!Stopped, B!Inactive, B!playback_stop, B!ClockStopped, PbTypes
  <2>1. PbTypes'
        OBVIOUS
  <2>2. PbClock'
        BY DEF PbClock
  <2>3. ASSUME NEW m \in B!Channels PROVE (PbLife(m) /\ PbSound(m) /\ PbVolume(m))'
        BY DEF PbLife, PbSound, PbVolume, B!Decodes, Receiving
  <2> QED BY <2>1, <2>2, <2>3 DEF PbInv
<1>5. CASE B!Ends(n)
  <2> USE <1>1, <1>5, PbConstants DEF B!Ends, PbTypes
  <2>1. PbTypes'
        OBVIOUS
  <2>2. PbClock'
        BY DEF PbClock, PbLife, Receiving
  <2>3. ASSUME NEW m \in B!Channels PROVE (PbLife(m) /\ PbSound(m) /\ PbVolume(m))'
        BY DEF PbLife, PbSound, PbVolume, B!Decodes, Receiving
  <2> QED BY <2>1, <2>2, <2>3 DEF PbInv
<1> QED BY <1>2, <1>3, <1>4, <1>5, <1>6

LEMMA PbInvStep == PbInv /\ [B!Next]_(B!vars) => PbInv'
<1> SUFFICES ASSUME PbInv, [B!Next]_(B!vars) PROVE PbInv'
    OBVIOUS
<1>1. CASE UNCHANGED B!vars
  <2>1. (PbTypes /\ PbClock)'
        BY <1>1 DEF B!vars, PbInv, PbTypes, PbClock
  <2>2. ASSUME NEW n \in B!Channels PROVE (PbLife(n) /\ PbSound(n) /\ PbVolume(n))'
        BY <1>1 DEF B!vars, PbInv, PbLife, PbSound, PbVolume, B!Decodes
  <2> QED BY <2>1, <2>2 DEF PbInv
<1>2. CASE B!update_mmtime \/ B!main_handle_mm_time \/ \E f \in Formats : B!get_volume(f)
      BY <1>2, PbClockStep
<1>3. ASSUME NEW n \in B!Channels,
             \/ B!channel_new(n) \/ B!channel_destroy(n) \/ B!Unref(n) \/ B!Migrated(n)
             \/ \E m \in {"raw", "opus"} : B!playback_handle_mode(n, m)
             \/ \E f \in Formats, ok \in BOOLEAN : B!playback_handle_start(n, f, ok)
             \/ \E v \in Volumes : B!playback_handle_set_volume(n, v)
             \/ B!playback_handle_data(n) \/ B!playback_handle_stop(n)
             \/ B!Started(n) \/ B!Pushed(n) \/ B!VolumeTold(n) \/ B!Stopped(n) \/ B!Ends(n)
      PROVE  PbInv'
      BY <1>3, PbSessionStep, PbReceiveStep, PbEmitStep
<1> QED BY <1>1, <1>2, <1>3 DEF B!Next

LEMMA PlaybackStep == [MCNext]_mcvars => [B!Next]_(B!vars)
<1> SUFFICES ASSUME [MCNext]_mcvars PROVE [B!Next]_(B!vars)
    OBVIOUS
<1>1. UNCHANGED playbackVars => UNCHANGED B!vars
      BY DEF playbackVars, B!vars
<1>2. CASE UNCHANGED mcvars
      BY <1>1, <1>2 DEF mcvars
<1>3. CASE MCNext
  <2>1. ASSUME NEW x \in {"usb", "smartcard", "webdav", "pipe", "pulse", "record"}, On(x)
        PROVE  UNCHANGED playbackVars
        BY <2>1 DEF On
  <2> QED BY <1>1, <1>3, <2>1 DEF MCNext, B!Next
<1> QED BY <1>2, <1>3

\* Playing (playback_handle_start and the other messages, spice-gstaudio.c), for any
\* number of channels that come and go, formats, volumes and messages: the clock of the
\* session is set by a live channel, only while one plays, and what is played is in the
\* format and at the volume that the server last told.
THEOREM PlaybackSafeTheorem == MCSpec => []PlaybackSafe
<1>1. MCInit => PbInv
      BY InitPbInv DEF MCInit
<1>2. PbInv /\ [MCNext]_mcvars => PbInv'
      BY PlaybackStep, PbInvStep
<1>3. PbInv => PlaybackSafe
  <2> SUFFICES ASSUME PbInv
      PROVE  B!ClockHasChannel /\ B!PlaysInFormat /\ B!ActiveSetsClock /\ B!VolumeHeard
      BY DEF PlaybackSafe
  <2>1. /\ PbTypes /\ PbClock /\ \A n \in B!Channels : PbLife(n) /\ PbSound(n) /\ PbVolume(n)
        /\ pchannel # 0 => PbLife(pchannel)
        BY DEF PbInv, PbTypes
  <2>2. B!ClockHasChannel
        BY <2>1 DEF PbClock, PbLife, B!ClockHasChannel
  <2>3. B!PlaysInFormat
        BY <2>1 DEF PbLife, PbSound, Receiving, B!PlaysInFormat
  <2>4. B!ActiveSetsClock
        BY <2>1 DEF PbTypes, PbClock, PbLife, PbSound, Receiving, B!ActiveSetsClock
  <2>5. B!VolumeHeard
        BY <2>1 DEF PbVolume, B!VolumeHeard
  <2> QED BY <2>2, <2>3, <2>4, <2>5
<1> QED BY <1>1, <1>2, <1>3, PTL DEF MCSpec

-----------------------------------------------------------------------------
(* The PulseAudio back end *)

Ops == [next : {"none", "flush", "nothing"}, on : Nat]

PulseTypes ==
  /\ started \in [A!Sides -> BOOLEAN] /\ stream \in [A!Sides -> 0 .. pulse_opened]
  /\ pulse_opened \in Nat /\ corked \in BOOLEAN /\ cork_op \in Ops /\ uncork_op \in Nat
  /\ restore \in BOOLEAN /\ pulse_pending \in BOOLEAN
  /\ results \in Seq(A!Sides \X {"own", "shared"})

\* Once the context is ready what was started has a stream; a stream that is corked is
\* not being uncorked, and one that is not corked is not being corked, unless it is
\* another one: a stopped playback is corked, or would be but for such an operation.
PulseStreams ==
  /\ context = "ready" => \A s \in A!Sides : started[s] => stream[s] # 0
  /\ corked => uncork_op = 0
  /\ cork_op # A!None => cork_op.on \in 1 .. pulse_opened
  /\ ~corked /\ cork_op # A!None => cork_op.on # stream["playback"]
  /\ stream["playback"] # 0 /\ ~started["playback"] /\ ~corked => cork_op # A!None

\* A request that shares the reading of the database waits for one.
PulseVolumes ==
  context # "failed" =>
    restore \/ pulse_pending \/ results \in Seq(A!Sides \X {"own"})

PulseInv == PulseTypes /\ PulseStreams /\ PulseVolumes

LEMMA InitPulseInv == A!Init => PulseInv
<1> SUFFICES ASSUME A!Init PROVE PulseInv
    OBVIOUS
<1>1. results \in Seq(A!Sides \X {"own", "shared"}) /\ results \in Seq(A!Sides \X {"own"})
      BY EmptySeq DEF A!Init
<1>2. PulseTypes /\ PulseVolumes
  <2>1. /\ started \in [A!Sides -> BOOLEAN] /\ stream \in [A!Sides -> 0 .. pulse_opened]
        /\ pulse_opened \in Nat /\ uncork_op \in Nat
        BY DEF A!Init
  <2>2. cork_op \in Ops
        BY DEF A!Init, A!None, Ops
  <2>3. corked \in BOOLEAN /\ restore \in BOOLEAN /\ pulse_pending \in BOOLEAN
        BY DEF A!Init
  <2> QED BY <1>1, <2>1, <2>2, <2>3 DEF PulseTypes, PulseVolumes
<1>3. PulseStreams
      BY DEF A!Init, A!Sides, PulseStreams
<1> QED BY <1>2, <1>3 DEF PulseInv

\* After stream_cork the stream is corked, or an operation on another one is known of;
\* after stream_uncork neither.
LEMMA Corks ==
  ASSUME PulseTypes, PulseStreams, stream["playback"] # 0,
         A!stream_cork("flush") \/ A!stream_cork("nothing")
  PROVE  /\ corked' \in BOOLEAN /\ cork_op' \in Ops /\ uncork_op' = 0
         /\ cork_op' # A!None => cork_op'.on \in 1 .. pulse_opened
         /\ ~corked' => cork_op' # A!None /\ cork_op'.on # stream["playback"]
<1> USE DEF A!Sides, A!None, Ops, PulseTypes
<1>1. stream["playback"] \in 1 .. pulse_opened
      OBVIOUS
<1>2. CASE ~corked /\ cork_op = A!None
  <2>1. PICK nx \in {"flush", "nothing"} : cork_op' = [next |-> nx, on |-> stream["playback"]]
        BY <1>2 DEF A!stream_cork
  <2>2. corked' = TRUE /\ uncork_op' = 0
        BY <1>2 DEF A!stream_cork
  <2>3. cork_op'.on = stream["playback"] /\ cork_op' \in Ops /\ A!None.on = 0
        BY <1>1, <2>1
  <2> QED BY <1>1, <2>2, <2>3
<1>3. CASE ~(~corked /\ cork_op = A!None)
  <2>1. uncork_op' = 0 /\ UNCHANGED <<corked, cork_op>>
        BY <1>3 DEF A!stream_cork
  <2> QED BY <1>3, <2>1 DEF PulseStreams
<1> QED BY <1>2, <1>3

LEMMA Uncorks ==
  ASSUME PulseTypes, PulseStreams, A!stream_uncork
  PROVE  /\ ~corked' /\ cork_op' = A!None /\ uncork_op' \in Nat
         /\ corked' \in BOOLEAN /\ cork_op' \in Ops
<1> USE DEF A!Sides, A!None, Ops, PulseTypes
<1>1. CASE corked /\ uncork_op = 0
  <2>1. corked' = FALSE /\ uncork_op' = stream["playback"] /\ cork_op' = A!None
        BY <1>1 DEF A!stream_uncork
  <2>2. stream["playback"] \in Nat /\ A!None \in Ops
        OBVIOUS
  <2> QED BY <2>1, <2>2
<1>2. CASE ~(corked /\ uncork_op = 0)
      BY <1>2 DEF A!stream_uncork, PulseStreams
<1> QED BY <1>1, <1>2

\* The streams, by the messages of the channels and the ends of the operations.
LEMMA PulseSoundStep ==
  ASSUME PulseTypes, PulseStreams,
         \/ A!playback_start \/ A!record_start \/ A!PlaybackStop \/ A!RecordStop
         \/ A!MinLatencyChanged \/ A!LatencyUpdated \/ A!CorkEnds \/ A!UncorkEnds
         \/ A!ContextReady
         \/ UNCHANGED A!sound /\ (context' = "ready" => context = "ready")
  PROVE  /\ started' \in [A!Sides -> BOOLEAN] /\ stream' \in [A!Sides -> 0 .. pulse_opened']
         /\ pulse_opened' \in Nat /\ corked' \in BOOLEAN /\ cork_op' \in Ops /\ uncork_op' \in Nat
         /\ PulseStreams'
<1> USE DEF A!Sides, A!None, Ops, PulseTypes, PulseStreams
<1>1. CASE A!playback_start
  <2>1. PICK v \in Specs :
          /\ A!Start("playback", v)
          /\ A!Fits("playback", v) => IF context = "ready" THEN A!stream_uncork
                                     ELSE UNCHANGED <<corked, cork_op, uncork_op>>
        BY <1>1 DEF A!playback_start
  <2>2. CASE A!Fits("playback", v)
    <3>1. /\ started' = [started EXCEPT !["playback"] = TRUE] /\ stream["playback"] # 0
          /\ UNCHANGED <<context, stream, pulse_opened>>
          BY <2>1, <2>2 DEF A!Start, A!Fits, A!sound
    <3>2. \/ A!stream_uncork
          \/ UNCHANGED <<corked, cork_op, uncork_op>>
          BY <2>1, <2>2
    <3> QED BY <3>1, <3>2, Uncorks
  <2>3. CASE ~A!Fits("playback", v) /\ context = "ready"
        BY <2>1, <2>3 DEF A!Start, A!Starts, A!Create
  <2>4. CASE ~A!Fits("playback", v) /\ context # "ready"
        BY <2>1, <2>4 DEF A!Start, A!Starts
  <2> QED BY <2>2, <2>3, <2>4
<1>2. CASE A!record_start
  <2>1. PICK v \in Specs :
          /\ A!Start("record", v)
          /\ A!Fits("record", v) => UNCHANGED <<corked, cork_op, uncork_op>>
        BY <1>2 DEF A!record_start
  <2>2. CASE A!Fits("record", v)
        BY <2>1, <2>2 DEF A!Start, A!Starts, A!Fits
  <2>3. CASE ~A!Fits("record", v) /\ context = "ready"
    <3>1. /\ started' = [started EXCEPT !["record"] = TRUE] /\ pulse_opened' = pulse_opened + 1
          /\ stream' = [s \in A!Sides |-> IF s = "record" THEN pulse_opened + 1 ELSE stream[s]]
          /\ UNCHANGED <<context, cork_op, uncork_op>> /\ (corked' <=> corked)
          /\ corked' \in BOOLEAN
          BY <2>1, <2>3 DEF A!Start, A!Create
    <3> QED BY <3>1
  <2>4. CASE ~A!Fits("record", v) /\ context # "ready"
        BY <2>1, <2>4 DEF A!Start, A!Starts
  <2> QED BY <2>2, <2>3, <2>4
<1>3. CASE A!PlaybackStop
  <2>1. /\ started' = [started EXCEPT !["playback"] = FALSE] /\ started["playback"]
        /\ UNCHANGED <<context, stream, pulse_opened>>
        BY <1>3 DEF A!PlaybackStop
  <2>2. CASE stream["playback"] # 0
    <3>1. A!stream_cork("flush")
          BY <1>3, <2>2 DEF A!PlaybackStop
    <3> QED BY <2>1, <2>2, <3>1, Corks
  <2>3. CASE stream["playback"] = 0
    <3>1. UNCHANGED <<corked, cork_op, uncork_op>>
          BY <1>3, <2>3 DEF A!PlaybackStop
    <3> QED BY <2>1, <2>3, <3>1
  <2> QED BY <2>2, <2>3
<1>4. CASE A!RecordStop
      BY <1>4 DEF A!RecordStop
<1>5. CASE A!MinLatencyChanged
      BY <1>5, Corks DEF A!MinLatencyChanged
<1>6. CASE A!LatencyUpdated
      BY <1>6, Uncorks DEF A!LatencyUpdated
<1>7. CASE A!CorkEnds
      BY <1>7 DEF A!CorkEnds
<1>8. CASE A!UncorkEnds
      BY <1>8 DEF A!UncorkEnds
<1>9. CASE A!ContextReady
      BY <1>9 DEF A!ContextReady, A!Create, A!Waiting
<1>10. CASE UNCHANGED A!sound /\ (context' = "ready" => context = "ready")
      BY <1>10 DEF A!sound
<1> QED BY <1>1, <1>2, <1>3, <1>4, <1>5, <1>6, <1>7, <1>8, <1>9, <1>10

\* What is left of a sequence when an element was removed has no other elements.
LEMMA RemovedSeq ==
  ASSUME NEW T, NEW s \in Seq(T), NEW i \in DOMAIN s
  PROVE  A!RemoveAt(s, i) \in Seq(T)
<1>1. i \in 1 .. Len(s) /\ Len(s) \in Nat /\ \A k \in 1 .. Len(s) : s[k] \in T
      BY LenProperties, ElementOfSeq
<1>2. SubSeq(s, 1, i - 1) \in Seq(T) /\ SubSeq(s, i + 1, Len(s)) \in Seq(T)
      BY <1>1, SubSeqProperties
<1> QED BY <1>2, ConcatProperties DEF A!RemoveAt

LEMMA PulseVolumeStep ==
  ASSUME Early = FALSE, PulseTypes, PulseVolumes,
         \/ \E side \in A!Sides : A!Ask(side)
         \/ A!RestoreEntry \/ A!RestoreEnds \/ A!OwnEnds \/ A!ContextReady \/ A!ContextFails
         \/ UNCHANGED <<context, A!volume>>
  PROVE  /\ restore' \in BOOLEAN /\ pulse_pending' \in BOOLEAN
         /\ results' \in Seq(A!Sides \X {"own", "shared"})
         /\ PulseVolumes'
<1> DEFINE Own == A!Sides \X {"own"}
           All == A!Sides \X {"own", "shared"}
<1>1. <<>> \in Seq(Own) /\ <<>> \in Seq(All)
      BY EmptySeq
<1>2. restore \in BOOLEAN /\ pulse_pending \in BOOLEAN /\ results \in Seq(All)
      BY DEF PulseTypes
<1>3. context # "failed" => restore \/ pulse_pending \/ results \in Seq(Own)
      BY DEF PulseVolumes
<1>4. CASE \E side \in A!Sides : A!Ask(side)
  <2>1. PICK side \in A!Sides : A!Ask(side)
        BY <1>4
  <2>2. /\ context # "failed" /\ UNCHANGED context
        /\ ~\E i \in DOMAIN results : results[i][2] = "own"
        BY <2>1 DEF A!Ask
  <2>3. <<side, "own">> \in Own /\ <<side, "own">> \in All /\ <<side, "shared">> \in All
        BY <2>1
  <2>4. results # <<>> => restore \/ pulse_pending
    <3>1. ASSUME results # <<>>, results \in Seq(Own) PROVE FALSE
      <4>1. Len(results) \in Nat \ {0} /\ DOMAIN results = 1 .. Len(results)
            BY <3>1, EmptySeq, LenProperties
      <4>2. results[1] \in Own
            BY <3>1, <4>1, ElementOfSeq
      <4> QED BY <2>2, <4>1, <4>2
    <3> QED BY <1>3, <2>2, <3>1
  <2>5. \/ results' = Append(results, <<side, "own">>) /\ UNCHANGED <<pulse_pending, restore>>
        \/ UNCHANGED <<results, pulse_pending, restore>>
        \/ /\ results # <<>> /\ results' = Append(results, <<side, "shared">>)
           /\ UNCHANGED <<pulse_pending, restore>>
        \/ /\ results = <<>> /\ results' = <<<<side, "shared">>>>
           /\ restore' = (context = "ready") /\ pulse_pending' = (context # "ready")
        BY <2>1 DEF A!Ask
  <2>6. CASE results' = Append(results, <<side, "own">>) /\ UNCHANGED <<pulse_pending, restore>>
    <3>1. results' \in Seq(All) /\ (results \in Seq(Own) => results' \in Seq(Own))
          BY <1>2, <2>3, <2>6, AppendProperties
    <3> QED BY <1>2, <1>3, <2>2, <2>6, <3>1 DEF PulseVolumes
  <2>7. CASE UNCHANGED <<results, pulse_pending, restore>>
        BY <1>2, <1>3, <2>2, <2>7 DEF PulseVolumes
  <2>8. CASE /\ results # <<>> /\ results' = Append(results, <<side, "shared">>)
             /\ UNCHANGED <<pulse_pending, restore>>
    <3>1. results' \in Seq(All)
          BY <1>2, <2>3, <2>8, AppendProperties
    <3> QED BY <1>2, <2>4, <2>8, <3>1 DEF PulseVolumes
  <2>9. CASE /\ results = <<>> /\ results' = <<<<side, "shared">>>>
             /\ restore' = (context = "ready") /\ pulse_pending' = (context # "ready")
    <3>1. results' \in Seq(All)
          BY <2>3, <2>9
    <3> QED BY <2>9, <3>1 DEF PulseVolumes
  <2> QED BY <2>5, <2>6, <2>7, <2>8, <2>9
<1>5. CASE A!RestoreEntry
      BY <1>2, <1>3, <1>5 DEF A!RestoreEntry, A!sound, PulseVolumes
<1>6. CASE A!RestoreEnds
      BY <1>1, <1>6 DEF A!RestoreEnds, A!RestoreCompletes, A!CompleteAll, PulseVolumes
<1>7. CASE A!OwnEnds
  <2>1. PICK i \in DOMAIN results : results' = A!RemoveAt(results, i)
        BY <1>7 DEF A!OwnEnds
  <2>2. results' \in Seq(All) /\ (results \in Seq(Own) => results' \in Seq(Own))
        BY <1>2, <2>1, RemovedSeq
  <2>3. UNCHANGED <<context, pulse_pending, restore>>
        BY <1>7 DEF A!OwnEnds
  <2> QED BY <1>2, <1>3, <2>2, <2>3 DEF PulseVolumes
<1>8. CASE A!ContextReady
  <2>1. /\ context # "failed" /\ pulse_pending' = FALSE /\ restore' = (restore \/ pulse_pending)
        /\ UNCHANGED results
        BY <1>8 DEF A!ContextReady
  <2> QED BY <1>2, <1>3, <2>1 DEF PulseVolumes
<1>9. CASE A!ContextFails
      BY <1>1, <1>2, <1>9 DEF A!ContextFails, A!CompleteAll, PulseVolumes
<1>10. CASE UNCHANGED <<context, A!volume>>
      BY <1>2, <1>3, <1>10 DEF A!volume, PulseVolumes
<1> QED BY <1>4, <1>5, <1>6, <1>7, <1>8, <1>9, <1>10

LEMMA PulseInvStep == Early = FALSE /\ PulseInv /\ [A!Next]_(A!vars) => PulseInv'
<1> SUFFICES ASSUME Early = FALSE, PulseInv, [A!Next]_(A!vars) PROVE PulseInv'
    OBVIOUS
<1>1. PulseTypes /\ PulseStreams /\ PulseVolumes
      BY DEF PulseInv
<1>2. \/ A!playback_start \/ A!record_start \/ A!PlaybackStop \/ A!RecordStop
      \/ A!MinLatencyChanged \/ A!LatencyUpdated \/ A!CorkEnds \/ A!UncorkEnds
      \/ A!ContextReady
      \/ UNCHANGED A!sound /\ (context' = "ready" => context = "ready")
  <2>1. ASSUME \/ \E side \in A!Sides : A!Ask(side)
               \/ A!ContextFails \/ A!RestoreEntry \/ A!RestoreEnds \/ A!OwnEnds
               \/ UNCHANGED A!vars
        PROVE  UNCHANGED A!sound /\ (context' = "ready" => context = "ready")
        BY <2>1 DEF A!Ask, A!ContextFails, A!RestoreEntry, A!RestoreEnds, A!OwnEnds, A!vars
  <2> QED BY <2>1 DEF A!Next
<1>3. \/ \E side \in A!Sides : A!Ask(side)
      \/ A!RestoreEntry \/ A!RestoreEnds \/ A!OwnEnds \/ A!ContextReady \/ A!ContextFails
      \/ UNCHANGED <<context, A!volume>>
  <2>1. ASSUME \/ A!playback_start \/ A!record_start \/ A!PlaybackStop \/ A!RecordStop
               \/ A!MinLatencyChanged \/ A!LatencyUpdated \/ A!CorkEnds \/ A!UncorkEnds
               \/ UNCHANGED A!vars
        PROVE  UNCHANGED <<context, A!volume>>
        BY <2>1 DEF A!playback_start, A!record_start, A!Start, A!PlaybackStop, A!RecordStop,
                    A!MinLatencyChanged, A!LatencyUpdated, A!CorkEnds, A!UncorkEnds, A!vars
  <2> QED BY <2>1 DEF A!Next
<1> QED BY <1>1, <1>2, <1>3, PulseSoundStep, PulseVolumeStep DEF PulseInv, PulseTypes

LEMMA PulseStep == [MCNext]_mcvars => [A!Next]_(A!vars)
<1> SUFFICES ASSUME [MCNext]_mcvars PROVE [A!Next]_(A!vars)
    OBVIOUS
<1>1. UNCHANGED pulseVars => UNCHANGED A!vars
      BY DEF pulseVars, A!vars, A!sound, A!volume
<1>2. CASE UNCHANGED mcvars
      BY <1>1, <1>2 DEF mcvars
<1>3. CASE MCNext
  <2>1. ASSUME NEW x \in {"usb", "smartcard", "webdav", "pipe", "record", "playback"}, On(x)
        PROVE  UNCHANGED pulseVars
        BY <2>1 DEF On
  <2> QED BY <1>1, <1>3, <2>1 DEF MCNext, A!Next
<1> QED BY <1>2, <1>3

\* The PulseAudio back end (playback_start, stream_cork, stream_uncork and their
\* callbacks, stream_restore_read_cb), for any formats and numbers of messages and
\* requests: what started plays and what stopped is silent, however the operations on the
\* streams end, and as long as no volume is asked for while another one is read from an
\* open stream, every request has an operation that answers it.
THEOREM PulseSafeTheorem == Early = FALSE /\ MCSpec => []PulseSafe
<1> SUFFICES ASSUME Early = FALSE PROVE MCSpec => []PulseSafe
    OBVIOUS
<1>1. MCInit => PulseInv
      BY InitPulseInv DEF MCInit
<1>2. PulseInv /\ [MCNext]_mcvars => PulseInv'
      BY PulseStep, PulseInvStep
<1>3. PulseInv => PulseSafe
  <2> SUFFICES ASSUME PulseInv
      PROVE  A!PlaysWhenStarted /\ A!SilentWhenStopped /\ A!VolumeAnswered
      BY DEF PulseSafe
  <2>1. A!PlaysWhenStarted /\ A!SilentWhenStopped
        BY DEF PulseInv, PulseStreams, A!PlaysWhenStarted, A!SilentWhenStopped
  <2>2. A!VolumeAnswered
    <3>1. ASSUME NEW i \in DOMAIN results, results \in Seq(A!Sides \X {"own"})
          PROVE  results[i][2] = "own"
      <4>1. results[i] \in A!Sides \X {"own"}
            BY <3>1, LenProperties, ElementOfSeq
      <4> QED BY <4>1
    <3> QED BY <3>1 DEF PulseInv, PulseVolumes, A!VolumeAnswered
  <2> QED BY <2>1, <2>2
<1> QED BY <1>1, <1>2, <1>3, PTL DEF MCSpec

-----------------------------------------------------------------------------
(* USB redirection *)

UsbTypes ==
  /\ polkit \in BOOLEAN /\ grab \in BOOLEAN /\ redirecting \in BOOLEAN /\ raced \in BOOLEAN
  /\ bus \in [UsbDevices -> {"away", "plugged", "gone"}]
  /\ devices \subseteq UsbDevices /\ channels \in Seq(UsbChannels)
  /\ life \in [UsbChannels -> {"new", "alive", "gone"}]
  /\ st \in [UsbChannels -> {"DISCONNECTED", "WAITING", "CONNECTED", "DISCONNECTING"}]
  /\ dev \in [UsbChannels -> UsbDevices \union {nobody}]
  /\ helper \in [UsbChannels -> {"none", "asking", "ok", "error"}]
  /\ request \in [UsbChannels -> {"none", "user", "manager"}] /\ answers \in Nat
  /\ job \in [U!Agents -> U!Jobs] /\ lock \in [UsbChannels -> U!Agents \union {nobody}]
  /\ listeners \in Int /\ reader \in [UsbChannels -> UsbDevices \union {nobody}]

\* A channel that does not exist yet has nothing; one that waits or is connected holds a
\* device, and it waits for the ACL helper only, which takes polkit.
UsbChannel(c) ==
  /\ life[c] = "new" => c \notin U!Listed /\ dev[c] = nobody /\ request[c] = "none"
  /\ st[c] # "DISCONNECTED" => dev[c] # nobody
  /\ st[c] \in {"WAITING", "DISCONNECTING"} => polkit
  /\ dev[c] # nobody => dev[c] \in devices \/ bus[dev[c]] = "gone"

\* What an agent does: only the main context opens a device that the ACL helper gave,
\* only threads open one without; a device is closed while it is connected, and the one
\* an error is about is closed unless another agent did.
UsbJob(a) ==
  LET c == job[a].chan IN
  /\ job[a].kind = "none" => job[a] = U!NoJob
  /\ job[a].kind # "none" => c \in UsbChannels /\ job[a].pc \in {"start", "store"}
  /\ job[a].kind = "open" =>
       /\ dev[c] # nobody /\ job[a].then = "none"
       /\ a = "main" => polkit /\ st[c] \in {"WAITING", "DISCONNECTING"}
       /\ a # "main" => ~polkit /\ st[c] = "DISCONNECTED"
  /\ job[a].kind = "close" /\ job[a].pc = "store" => st[c] = "CONNECTED"
  /\ a = "main" => job[a].then # "tell"
  /\ job[a].then = "error" =>
       a = "main" /\ job[a].kind = "close" /\ reader[c] # nobody /\ dev[c] \in {reader[c], nobody}

\* Whoever is about to store has the lock, but the main context when it opens; and a
\* channel has one agent that opens it.
UsbLocks ==
  /\ \A a \in U!Agents : job[a].pc = "store" /\ (a = "main" => job[a].kind = "close") =>
       lock[job[a].chan] = a
  /\ \A c \in UsbChannels : lock[c] # nobody =>
       job[lock[c]].chan = c /\ job[lock[c]].pc = "store"
  /\ \A a, b \in U!Agents : a # b /\ job[a].kind = "open" /\ job[b].kind = "open" =>
       job[a].chan # job[b].chan

\* A channel with a device that left the list is being closed by the main context, or
\* will find that it is to be closed, or that the device is gone.
UsbGone(c) ==
  c \in U!Listed /\ dev[c] # nobody /\ dev[c] \notin devices =>
    \/ job["main"].kind = "close" /\ job["main"].chan = c
    \/ st[c] = "DISCONNECTING" /\ ~(job["main"].kind = "open" /\ job["main"].chan = c)
    \/ st[c] = "DISCONNECTED" /\ \A a \in U!Agents :
         job[a].kind = "open" /\ job[a].chan = c => job[a].pc = "start"

\* What an agent saw of the listeners is still true when it stores, unless two raced.
UsbCount ==
  raced \/ /\ listeners = 1 + Cardinality({c \in UsbChannels : st[c] = "CONNECTED"})
           /\ \A a \in U!Agents : job[a].pc = "store" => job[a].saw = listeners

UsbInv ==
  /\ UsbTypes /\ UsbLocks /\ UsbCount
  /\ \A c \in UsbChannels : UsbChannel(c) /\ UsbGone(c)
  /\ \A a \in U!Agents : UsbJob(a)
  /\ U!OneHolder /\ U!Released

USE DEF U!lists, U!ui, U!ops, U!count, U!chan

LEMMA UsbConstants ==
  /\ "main" \notin Threads /\ nobody \notin UsbChannels /\ nobody \notin UsbDevices
  /\ nobody \notin U!Agents /\ "main" \in U!Agents /\ Threads \subseteq U!Agents
  /\ IsFiniteSet(UsbChannels)
<1>1. U!IsFiniteSet(UsbChannels) = IsFiniteSet(UsbChannels)
      BY DEF U!IsFiniteSet, IsFiniteSet
<1> QED BY <1>1, DevicesAssumption DEF U!UsbAssumption, U!Agents

LEMMA UsbCardSame == ASSUME NEW X PROVE U!Cardinality(X) = Cardinality(X)
BY DEF U!Cardinality, Cardinality

\* What the jobs are, and what a step may do to the job of an agent.
LEMMA JobIs ==
  ASSUME NEW k \in {"none", "open", "close"},  NEW c \in UsbChannels \union {nobody},
         NEW w \in {"none", "tell", "error"}, NEW p \in {"none", "start", "store"}, NEW n \in Int
  PROVE  [kind |-> k, chan |-> c, pc |-> p, saw |-> n, then |-> w] \in U!Jobs
BY DEF U!Jobs

LEMMA IdleJobs ==
  /\ U!NoJob.kind = "none" /\ U!NoJob.pc = "none" /\ U!NoJob.then = "none"
  /\ U!NoJob.chan = nobody /\ U!NoJob \in U!Jobs
BY DEF U!NoJob, U!Jobs

LEMMA JobFields ==
  ASSUME NEW k, NEW c, NEW p, NEW n, NEW w, NEW r,
         r = [kind |-> k, chan |-> c, pc |-> p, saw |-> n, then |-> w]
  PROVE  r.kind = k /\ r.chan = c /\ r.pc = p /\ r.saw = n /\ r.then = w
OBVIOUS

LEMMA JobStarts ==
  ASSUME NEW k, NEW c, NEW p, NEW n, NEW w, NEW r, NEW q,
         r = [kind |-> k, chan |-> c, pc |-> p, saw |-> n, then |-> w]
  PROVE  [r EXCEPT !.pc = q] = [kind |-> k, chan |-> c, pc |-> q, saw |-> n, then |-> w]
OBVIOUS

LEMMA JobSees ==
  ASSUME NEW k, NEW c, NEW p, NEW n, NEW w, NEW r, NEW m,
         r = [kind |-> k, chan |-> c, pc |-> p, saw |-> n, then |-> w]
  PROVE  [r EXCEPT !.saw = m] = [kind |-> k, chan |-> c, pc |-> p, saw |-> m, then |-> w]
OBVIOUS

LEMMA JobTaken ==
  ASSUME UsbTypes, NEW a \in U!Agents, NEW k \in {"open", "close"}, NEW c \in UsbChannels,
         NEW w \in {"none", "tell", "error"}, job' = [job EXCEPT ![a] = U!NewJob(k, c, w)]
  PROVE  /\ job' \in [U!Agents -> U!Jobs]
         /\ \A b \in U!Agents : b # a => job'[b] = job[b]
         /\ job'[a].kind = k /\ job'[a].chan = c /\ job'[a].pc = "start" /\ job'[a].then = w
<1>1. U!NewJob(k, c, w) = [kind |-> k, chan |-> c, pc |-> "start", saw |-> 0, then |-> w]
      BY DEF U!NewJob
<1>2. U!NewJob(k, c, w) \in U!Jobs
      BY <1>1, JobIs
<1>3. job'[a] = U!NewJob(k, c, w)
      BY DEF UsbTypes
<1>4. job' \in [U!Agents -> U!Jobs] /\ \A b \in U!Agents : b # a => job'[b] = job[b]
      BY <1>2 DEF UsbTypes
<1> QED BY <1>1, <1>3, <1>4

LEMMA JobEnds ==
  ASSUME UsbTypes, NEW a \in U!Agents, job' = [job EXCEPT ![a] = U!NoJob]
  PROVE  /\ job' \in [U!Agents -> U!Jobs]
         /\ \A b \in U!Agents : b # a => job'[b] = job[b]
         /\ job'[a] = U!NoJob
BY IdleJobs DEF UsbTypes

LEMMA JobStores ==
  ASSUME UsbTypes, NEW a \in U!Agents,
         job' = [job EXCEPT ![a].pc = "store", ![a].saw = listeners]
  PROVE  /\ job' \in [U!Agents -> U!Jobs]
         /\ \A b \in U!Agents : b # a => job'[b] = job[b]
         /\ job'[a].kind = job[a].kind /\ job'[a].chan = job[a].chan
         /\ job'[a].then = job[a].then /\ job'[a].pc = "store" /\ job'[a].saw = listeners
<1>1. job[a] \in U!Jobs /\ listeners \in Int
      BY DEF UsbTypes
<1> DEFINE k == job[a].kind
           c == job[a].chan
           w == job[a].then
           r == [job[a] EXCEPT !.pc = "store"]
<1>2. /\ job[a] = [kind |-> k, chan |-> c, pc |-> job[a].pc, saw |-> job[a].saw, then |-> w]
      /\ k \in {"none", "open", "close"} /\ c \in UsbChannels \union {nobody}
      /\ w \in {"none", "tell", "error"}
      BY <1>1 DEF U!Jobs
<1>3. job'[a] = [r EXCEPT !.saw = listeners]
      BY DEF UsbTypes
<1> HIDE DEF r, k, c, w
<1>4. r = [kind |-> k, chan |-> c, pc |-> "store", saw |-> job[a].saw, then |-> w]
      BY <1>2, JobStarts DEF r
<1>5. job'[a] = [kind |-> k, chan |-> c, pc |-> "store", saw |-> listeners, then |-> w]
      BY <1>3, <1>4, JobSees
<1>6. job'[a] \in U!Jobs
      BY <1>1, <1>2, <1>5, JobIs
<1>7. job' \in [U!Agents -> U!Jobs] /\ \A b \in U!Agents : b # a => job'[b] = job[b]
      BY <1>6 DEF UsbTypes
<1>8. /\ job'[a].kind = k /\ job'[a].chan = c /\ job'[a].pc = "store" /\ job'[a].saw = listeners
      /\ job'[a].then = w
      BY ONLY <1>5, JobFields
<1> QED BY <1>7, <1>8 DEF k, c, w

\* The list of the channels.
LEMMA ListedIs ==
  /\ U!Listed = {channels[i] : i \in DOMAIN channels}
  /\ UNCHANGED channels => U!Listed' = U!Listed
BY DEF U!Listed, U!ToSet

LEMMA ListedGrows ==
  ASSUME channels \in Seq(UsbChannels), NEW c \in UsbChannels, channels' = Append(channels, c)
  PROVE  channels' \in Seq(UsbChannels) /\ U!Listed' = U!Listed \union {c}
<1>1. /\ channels' \in Seq(UsbChannels) /\ Len(channels') = Len(channels) + 1
      /\ \A i \in 1 .. Len(channels) : channels'[i] = channels[i]
      /\ channels'[Len(channels) + 1] = c
      BY AppendProperties
<1>2. /\ DOMAIN channels = 1 .. Len(channels) /\ Len(channels) \in Nat
      /\ DOMAIN channels' = 1 .. Len(channels) + 1
      BY <1>1, LenProperties
<1>3. U!Listed' = {channels'[i] : i \in DOMAIN channels'}
      BY DEF U!Listed, U!ToSet
<1>4. \A x : x \in U!Listed' <=> \E i \in 1 .. Len(channels) + 1 : x = channels'[i]
      BY <1>2, <1>3
<1>5. \A x : x \in U!Listed <=> \E i \in 1 .. Len(channels) : x = channels[i]
      BY <1>2, ListedIs
<1>6. ASSUME NEW x PROVE x \in U!Listed' <=> x \in U!Listed \/ x = c
  <2>1. ASSUME NEW i \in 1 .. Len(channels) + 1 PROVE i \in 1 .. Len(channels) \/ i = Len(channels) + 1
        BY <1>2
  <2>2. ASSUME NEW i \in 1 .. Len(channels) PROVE i \in 1 .. Len(channels) + 1
        BY <1>2
  <2>3. Len(channels) + 1 \in 1 .. Len(channels) + 1
        BY <1>2
  <2> QED BY <1>1, <1>4, <1>5, <2>1, <2>2, <2>3
<1> QED BY <1>1, <1>6

LEMMA ListedShrinks ==
  ASSUME channels \in Seq(UsbChannels), NEW i \in DOMAIN channels,
         channels' = U!RemoveAt(channels, i)
  PROVE  channels' \in Seq(UsbChannels) /\ U!Listed' \subseteq U!Listed
<1> DEFINE T == {channels[k] : k \in DOMAIN channels}
           n == Len(channels)
<1>1. i \in 1 .. n /\ n \in Nat /\ DOMAIN channels = 1 .. n /\ \A k \in 1 .. n : channels[k] \in T
      BY LenProperties
<1>2. SubSeq(channels, 1, i - 1) \in Seq(T) /\ SubSeq(channels, i + 1, n) \in Seq(T)
  <2> HIDE DEF T
  <2> QED BY <1>1, SubSeqProperties
<1>3. channels' \in Seq(T)
  <2> HIDE DEF T
  <2> QED BY <1>2, ConcatProperties DEF U!RemoveAt
<1>4. \A k \in DOMAIN channels' : channels'[k] \in T
  <2> HIDE DEF T
  <2> QED BY <1>3, LenProperties, ElementOfSeq
<1>5. U!Listed' \subseteq T
      BY <1>4 DEF U!Listed, U!ToSet
<1>6. T \subseteq UsbChannels
      BY <1>1, ElementOfSeq
<1> QED BY <1>3, <1>5, <1>6, SeqMonotonic, ListedIs

LEMMA InitUsbInv == U!Init => UsbInv
<1> SUFFICES ASSUME U!Init PROVE UsbInv
    OBVIOUS
<1>1. U!Listed = {}
      BY EmptySeq, LenProperties, ListedIs DEF U!Init
<1>2. UsbTypes
  <2>1. /\ polkit \in BOOLEAN /\ grab \in BOOLEAN /\ redirecting \in BOOLEAN /\ raced \in BOOLEAN
        BY DEF U!Init
  <2>2. job \in [U!Agents -> U!Jobs] /\ channels \in Seq(UsbChannels)
        BY EmptySeq, IdleJobs DEF U!Init
  <2> QED BY <2>1, <2>2 DEF U!Init, UsbTypes
<1>3. UsbLocks
      BY IdleJobs DEF U!Init, UsbLocks
<1>4. UsbCount
  <2> DEFINE n == Cardinality({c \in UsbChannels : st[c] = "CONNECTED"})
  <2>1. {c \in UsbChannels : st[c] = "CONNECTED"} = {}
        BY DEF U!Init
  <2>2. n = 0
        BY <2>1, FS_EmptySet, Zenon
  <2>3. listeners = 1 /\ \A a \in U!Agents : job[a] = U!NoJob
        BY DEF U!Init
  <2>4. \A a \in U!Agents : job[a].pc # "store"
        BY <2>3, IdleJobs
  <2>5. listeners = 1 + n
        BY <2>2, <2>3
  <2> QED BY <2>4, <2>5 DEF UsbCount
<1>5. \A c \in UsbChannels : UsbChannel(c) /\ UsbGone(c)
      BY <1>1 DEF U!Init, UsbChannel, UsbGone
<1>6. \A a \in U!Agents : UsbJob(a)
      BY IdleJobs DEF U!Init, UsbJob
<1>7. U!OneHolder /\ U!Released
      BY <1>1 DEF U!Init, U!OneHolder, U!Released
<1> QED BY <1>2, <1>3, <1>4, <1>5, <1>6, <1>7 DEF UsbInv

LEMMA PlugKeeps ==
  ASSUME UsbInv, NEW d \in UsbDevices, U!Plug(d) \/ U!Unplug(d)
  PROVE  UsbInv'
<1>1. /\ bus' \in [UsbDevices -> {"away", "plugged", "gone"}]
      /\ \A e \in UsbDevices : bus[e] = "gone" => bus'[e] = "gone"
      BY DEF UsbInv, UsbTypes, U!Plug, U!Unplug
<1>2. /\ UNCHANGED <<polkit, channels, devices, life, st, dev, helper, grab, redirecting, request,
                     answers, job, lock, listeners, raced, reader>>
      BY DEF U!Plug, U!Unplug
<1>3. UsbTypes'
      BY <1>1, <1>2 DEF UsbInv, UsbTypes
<1>4. UsbLocks' /\ UsbCount'
      BY <1>2 DEF UsbInv, UsbLocks, UsbCount, U!Agents
<1>5. ASSUME NEW c \in UsbChannels PROVE UsbChannel(c)' /\ UsbGone(c)'
      BY <1>1, <1>2, ListedIs DEF UsbInv, UsbTypes, UsbChannel, UsbGone
<1>6. ASSUME NEW a \in U!Agents PROVE UsbJob(a)'
      BY <1>2 DEF UsbInv, UsbJob
<1>7. U!OneHolder' /\ U!Released'
      BY <1>2, ListedIs DEF UsbInv, U!OneHolder, U!Released
<1> QED BY <1>3, <1>4, <1>5, <1>6, <1>7 DEF UsbInv, U!Agents

LEMMA CloseTaken ==
  ASSUME UsbInv, NEW a \in U!Agents, NEW c \in UsbChannels, NEW w \in {"none", "tell", "error"},
         job[a] = U!NoJob, job' = [job EXCEPT ![a] = U!NewJob("close", c, w)],
         w = "tell" => a # "main",
         w = "error" => a = "main" /\ reader[c] # nobody /\ dev[c] = reader[c],
         UNCHANGED <<polkit, bus, channels, st, dev, helper, grab, request, answers, lock,
                     listeners, raced, reader>>,
         redirecting' \in BOOLEAN, redirecting' => redirecting \/ w = "tell",
         life' \in [UsbChannels -> {"new", "alive", "gone"}],
         \A x \in UsbChannels : life'[x] = "new" => life[x] = "new",
         devices' \subseteq devices,
         \A x \in UsbChannels : dev[x] \in devices /\ dev[x] \notin devices' =>
           bus[dev[x]] = "gone" /\ (x \in U!Listed => a = "main" /\ x = c)
  PROVE  UsbInv'
<1>1. /\ job' \in [U!Agents -> U!Jobs]
      /\ \A b \in U!Agents : b # a => job'[b] = job[b]
      /\ job'[a].kind = "close" /\ job'[a].chan = c /\ job'[a].pc = "start" /\ job'[a].then = w
  <2>1. /\ UsbTypes /\ "close" \in {"open", "close"} /\ a \in U!Agents /\ c \in UsbChannels
        /\ w \in {"none", "tell", "error"} /\ job' = [job EXCEPT ![a] = U!NewJob("close", c, w)]
        BY DEF UsbInv
  <2> QED BY ONLY <2>1, JobTaken
<1>2. /\ job[a].kind = "none" /\ job[a].pc = "none" /\ job[a].then = "none"
      /\ U!Listed' = U!Listed
      BY IdleJobs, ListedIs
<1>3. UsbTypes'
      BY <1>1 DEF UsbInv, UsbTypes, U!Agents
<1>4. UsbLocks'
      BY <1>1, <1>2, UsbConstants DEF UsbInv, UsbTypes, UsbLocks, U!Agents
<1>5. UsbCount'
      BY <1>1, <1>2, UsbConstants DEF UsbInv, UsbTypes, UsbCount, U!Agents
<1>6. ASSUME NEW x \in UsbChannels PROVE UsbChannel(x)' /\ UsbGone(x)'
  <2>1. UsbChannel(x)'
        BY <1>2 DEF UsbInv, UsbTypes, UsbChannel
  <2>2. UsbGone(x)'
        BY <1>1, <1>2, UsbConstants DEF UsbInv, UsbTypes, UsbGone, U!Agents
  <2> QED BY <2>1, <2>2
<1>7. ASSUME NEW b \in U!Agents PROVE UsbJob(b)'
      BY <1>1, <1>2 DEF UsbInv, UsbTypes, UsbJob
<1>8. U!OneHolder'
      BY <1>2 DEF UsbInv, U!OneHolder
<1>9. U!Released'
      BY <1>1, <1>2 DEF UsbInv, U!Released, U!Agents
<1> QED BY <1>3, <1>4, <1>5, <1>6, <1>7, <1>8, <1>9 DEF UsbInv, U!Agents

LEMMA ClosesKeep ==
  ASSUME UsbInv, NEW d, NEW c,
         \/ /\ d \in UsbDevices
            /\ U!DisconnectDevice(d) \/ U!DisconnectAsync(d) \/ U!RemoveDev(d)
         \/ /\ c \in UsbChannels
            /\ U!DeviceError(c) \/ U!ChannelReset(c) \/ U!Dispose(c)
  PROVE  UsbInv'
<1>1. /\ U!Listed \subseteq UsbChannels
      /\ UsbTypes /\ U!OneHolder
  <2>1. \A i \in DOMAIN channels : channels[i] \in UsbChannels
        BY LenProperties, ElementOfSeq DEF UsbInv, UsbTypes
  <2> QED BY <2>1, ListedIs DEF UsbInv
<1>2. CASE d \in UsbDevices /\ U!DisconnectDevice(d)
  <2>1. PICK x \in UsbChannels : job' = [job EXCEPT !["main"] = U!NewJob("close", x, "none")]
        BY <1>1, <1>2 DEF U!DisconnectDevice, U!Holders
  <2> QED BY <1>1, <1>2, <2>1, CloseTaken, UsbConstants
          DEF UsbTypes, U!DisconnectDevice, U!MainIdle
<1>3. CASE d \in UsbDevices /\ U!DisconnectAsync(d)
  <2>1. PICK t \in Threads, x \in UsbChannels :
          job[t] = U!NoJob /\ job' = [job EXCEPT ![t] = U!NewJob("close", x, "tell")]
        BY <1>1, <1>3 DEF U!DisconnectAsync, U!Holders, U!FreeThreads
  <2>2. t # "main" /\ t \in U!Agents
        BY UsbConstants
  <2> QED BY <1>1, <1>3, <2>1, <2>2, CloseTaken
          DEF UsbTypes, U!DisconnectAsync
<1>4. CASE d \in UsbDevices /\ U!RemoveDev(d)
  <2>1. /\ devices' = devices \ {d} /\ bus[d] = "gone" /\ job["main"] = U!NoJob
        /\ UNCHANGED <<polkit, bus, channels, life, st, dev, helper, grab, redirecting, request,
                       answers, lock, listeners, raced, reader>>
        BY <1>4 DEF U!RemoveDev, U!MainIdle
  <2>2. CASE U!IsConnected(d)
    <3>1. PICK x \in U!Listed : /\ dev[x] = d
                                /\ job' = [job EXCEPT !["main"] = U!NewJob("close", x, "none")]
          BY <1>4, <2>2 DEF U!RemoveDev, U!Holders
    <3>2. \A y \in U!Listed : dev[y] = d => y = x
          BY <1>1, <1>4, <3>1, UsbConstants DEF U!OneHolder
    <3> QED BY <1>1, <2>1, <3>1, <3>2, CloseTaken, UsbConstants DEF UsbTypes
  <2>3. CASE ~U!IsConnected(d)
    <3>1. UNCHANGED job /\ \A y \in U!Listed : dev[y] # d
          BY <1>4, <2>3 DEF U!RemoveDev, U!Holders, U!IsConnected
    <3>2. UsbTypes'
          BY <1>1, <2>1, <3>1 DEF UsbTypes
    <3>3. UsbLocks' /\ UsbCount' /\ U!OneHolder' /\ U!Released'
          BY <2>1, <3>1, ListedIs
          DEF UsbInv, UsbLocks, UsbCount, U!OneHolder, U!Released, U!Agents
    <3>4. ASSUME NEW x \in UsbChannels PROVE UsbChannel(x)' /\ UsbGone(x)'
          BY <1>1, <2>1, <3>1, ListedIs
          DEF UsbInv, UsbTypes, UsbChannel, UsbGone, U!Agents
    <3>5. ASSUME NEW a \in U!Agents PROVE UsbJob(a)'
          BY <2>1, <3>1 DEF UsbInv, UsbJob
    <3> QED BY <3>2, <3>3, <3>4, <3>5 DEF UsbInv, U!Agents
  <2> QED BY <2>2, <2>3
<1>5. CASE c \in UsbChannels /\ U!DeviceError(c)
  <2>1. CASE U!SameDevice(c)
    <3>1. /\ job' = [job EXCEPT !["main"] = U!NewJob("close", c, "error")]
          /\ reader[c] # nobody /\ dev[c] = reader[c]
          /\ UNCHANGED reader /\ job["main"] = U!NoJob
          BY <1>5, <2>1 DEF U!DeviceError, U!MainIdle, U!SameDevice
    <3> QED BY <1>1, <1>5, <3>1, CloseTaken, UsbConstants DEF UsbTypes, U!DeviceError
  <2>2. CASE ~U!SameDevice(c)
    <3>1. /\ reader' = [reader EXCEPT ![c] = nobody] /\ job["main"] = U!NoJob
          /\ UNCHANGED <<polkit, bus, devices, channels, life, st, dev, helper, grab, redirecting,
                         request, answers, job, lock, listeners, raced>>
          BY <1>5, <2>2 DEF U!DeviceError, U!MainIdle
    <3>2. UsbTypes'
          BY <1>1, <3>1 DEF UsbTypes
    <3>3. UsbLocks' /\ UsbCount' /\ U!OneHolder' /\ U!Released'
          BY <3>1, ListedIs
          DEF UsbInv, UsbLocks, UsbCount, U!OneHolder, U!Released, U!Agents
    <3>4. ASSUME NEW x \in UsbChannels PROVE UsbChannel(x)' /\ UsbGone(x)'
          BY <3>1, ListedIs DEF UsbInv, UsbChannel, UsbGone, U!Agents
    <3>5. ASSUME NEW a \in U!Agents PROVE UsbJob(a)'
      <4>1. a = "main" => job[a].then = "none" /\ job[a].kind = "none"
            BY <3>1, IdleJobs
      <4> QED BY <3>1, <4>1 DEF UsbInv, UsbJob
    <3> QED BY <3>2, <3>3, <3>4, <3>5 DEF UsbInv, U!Agents
  <2> QED BY <2>1, <2>2
<1>6. CASE c \in UsbChannels /\ U!ChannelReset(c)
  <2>1. PICK t \in Threads :
          job[t] = U!NoJob /\ job' = [job EXCEPT ![t] = U!NewJob("close", c, "none")]
        BY <1>6 DEF U!ChannelReset, U!FreeThreads
  <2>2. t # "main" /\ t \in U!Agents
        BY UsbConstants
  <2> QED BY <1>1, <1>6, <2>1, <2>2, CloseTaken DEF UsbTypes, U!ChannelReset
<1>7. CASE c \in UsbChannels /\ U!Dispose(c)
  <2>1. life' \in [UsbChannels -> {"new", "alive", "gone"}]
        BY <1>1, <1>7 DEF UsbTypes, U!Dispose
  <2>2. \A x \in UsbChannels : life'[x] = "new" => life[x] = "new"
        BY <1>1, <1>7 DEF UsbTypes, U!Dispose
  <2> QED BY <1>1, <1>7, <2>1, <2>2, CloseTaken, UsbConstants DEF UsbTypes, U!Dispose, U!MainIdle
<1> QED BY <1>2, <1>3, <1>4, <1>5, <1>6, <1>7

\* A free channel takes a device: it waits for the ACL helper, or a thread opens it.
LEMMA ConnectKeeps ==
  ASSUME UsbInv, NEW c \in UsbChannels, NEW d \in UsbDevices, NEW who \in {"user", "manager"},
         U!ChannelConnect(c, d, who), dev[c] = nobody, job["main"] = U!NoJob,
         d \in devices', devices \subseteq devices', devices' \subseteq UsbDevices,
         UNCHANGED <<polkit, bus, lock, listeners, raced, reader>>,
         \A x \in U!Listed : dev[x] # d,
         \/ c \in U!Listed /\ UNCHANGED <<channels, life>>
         \/ channels' = Append(channels, c) /\ life' = [life EXCEPT ![c] = "alive"],
         \/ who = "user" /\ redirecting' = TRUE
         \/ UNCHANGED redirecting /\ request[c] = "none"
  PROVE  UsbInv'
<1>1. /\ UsbTypes /\ UsbLocks /\ UsbChannel(c) /\ st[c] = "DISCONNECTED"
      /\ \A b \in U!Agents : UsbJob(b)
      BY DEF UsbInv, UsbChannel
<1>2. /\ dev' = [dev EXCEPT ![c] = d] /\ request' = [request EXCEPT ![c] = who]
      /\ UNCHANGED answers
      BY <1>1 DEF U!ChannelConnect
<1>3. /\ channels' \in Seq(UsbChannels) /\ life' \in [UsbChannels -> {"new", "alive", "gone"}]
      /\ \A x \in UsbChannels : x # c => (x \in U!Listed' <=> x \in U!Listed)
      /\ \A x \in UsbChannels : x # c => life'[x] = life[x]
      /\ life'[c] # "new"
  <2>1. CASE c \in U!Listed /\ UNCHANGED <<channels, life>>
        BY <1>1, <2>1, ListedIs DEF UsbTypes, UsbChannel
  <2>2. CASE channels' = Append(channels, c) /\ life' = [life EXCEPT ![c] = "alive"]
    <3>1. channels' \in Seq(UsbChannels) /\ U!Listed' = U!Listed \union {c}
          BY <1>1, <2>2, ListedGrows DEF UsbTypes
    <3> QED BY <1>1, <2>2, <3>1, ListedIs DEF UsbTypes
  <2> QED BY <2>1, <2>2
<1>4. \A x \in U!Listed' : x \in UsbChannels /\ (x # c => x \in U!Listed)
  <2>1. \A i \in DOMAIN channels' : channels'[i] \in UsbChannels
        BY <1>3, LenProperties, ElementOfSeq
  <2> QED BY <1>3, <2>1 DEF U!Listed, U!ToSet
<1>5. \A b \in U!Agents : (job[b].kind = "open" => job[b].chan # c)
                          /\ (job[b].pc = "store" => job[b].chan # c)
  <2> SUFFICES ASSUME NEW b \in U!Agents, job[b].chan = c
               PROVE  job[b].kind # "open" /\ job[b].pc # "store"
      OBVIOUS
  <2>1. UsbJob(b) /\ job[b] \in U!Jobs
        BY <1>1 DEF UsbTypes
  <2>2. job[b].kind # "open"
        BY <2>1 DEF UsbJob
  <2>3. job[b].kind = "close" => job[b].pc # "store"
        BY <1>1, <2>1 DEF UsbJob
  <2>4. job[b].kind = "none" => job[b].pc # "store"
        BY <2>1, IdleJobs DEF UsbJob
  <2> QED BY <2>1, <2>2, <2>3, <2>4 DEF U!Jobs
<1>6. U!OneHolder'
  <2>1. \A x \in U!Listed' : x # c => dev'[x] = dev[x] /\ dev[x] # d
        BY <1>1, <1>2, <1>4 DEF UsbTypes
  <2>2. dev'[c] = d /\ U!OneHolder
        BY <1>1, <1>2 DEF UsbInv, UsbTypes
  <2> QED BY <1>4, <2>1, <2>2 DEF U!OneHolder
<1>7. \A x \in UsbChannels : x # c => dev'[x] = dev[x] /\ request'[x] = request[x]
      BY <1>1, <1>2 DEF UsbTypes
<1>8. /\ dev'[c] = d /\ request'[c] = who /\ dev' \in [UsbChannels -> UsbDevices \union {nobody}]
      /\ request' \in [UsbChannels -> {"none", "user", "manager"}]
      /\ redirecting' \in BOOLEAN
      BY <1>1, <1>2 DEF UsbTypes
<1>9. CASE /\ polkit /\ st' = [st EXCEPT ![c] = "WAITING"]
           /\ helper' = [helper EXCEPT ![c] = "asking"] /\ grab' = TRUE /\ UNCHANGED job
  <2>1. UsbTypes'
        BY <1>1, <1>2, <1>3, <1>8, <1>9 DEF UsbTypes
  <2>2. UsbLocks'
        BY <1>1, <1>9 DEF UsbLocks, U!Agents
  <2>3. /\ st'[c] = "WAITING" /\ \A x \in UsbChannels : x # c => st'[x] = st[x]
        BY <1>1, <1>9 DEF UsbTypes
  <2>4. UsbCount'
    <3>1. {x \in UsbChannels : st'[x] = "CONNECTED"} = {x \in UsbChannels : st[x] = "CONNECTED"}
          BY <1>1, <2>3
    <3> QED BY <1>9, <3>1 DEF UsbInv, UsbCount, U!Agents
  <2>5. ASSUME NEW x \in UsbChannels PROVE UsbChannel(x)' /\ UsbGone(x)'
    <3>1. UsbChannel(x)'
      <4>1. CASE x = c
            BY <1>3, <1>8, <1>9, <2>3, <4>1, UsbConstants DEF UsbChannel
      <4>2. CASE x # c
        <5>1. dev'[x] = dev[x] /\ request'[x] = request[x] /\ st'[x] = st[x] /\ life'[x] = life[x]
              BY <1>3, <1>7, <2>3, <4>2
        <5> QED BY <1>3, <4>2, <5>1 DEF UsbInv, UsbChannel
      <4> QED BY <4>1, <4>2
    <3>2. UsbGone(x)'
          BY <1>3, <1>7, <1>8, <1>9, <2>3 DEF UsbInv, UsbGone, U!Agents
    <3> QED BY <3>1, <3>2
  <2>6. ASSUME NEW b \in U!Agents PROVE UsbJob(b)'
    <3>1. UsbJob(b) /\ job[b] \in U!Jobs /\ (b = "main" => job[b].then = "none")
          BY <1>1, IdleJobs DEF UsbTypes
    <3> QED BY <1>5, <1>7, <1>9, <2>3, <3>1 DEF UsbJob
  <2>7. U!Released'
        BY <1>2, <1>7, <1>8, <1>9, <2>3 DEF UsbInv, U!Released, U!Agents
  <2> QED BY <1>6, <2>1, <2>2, <2>4, <2>5, <2>6, <2>7 DEF UsbInv, U!Agents
<1>10. CASE /\ ~polkit /\ UNCHANGED <<st, helper, grab>>
            /\ \E t \in U!FreeThreads : job' = [job EXCEPT ![t] = U!NewJob("open", c, "none")]
  <2>1. PICK t \in Threads :
          job[t] = U!NoJob /\ job' = [job EXCEPT ![t] = U!NewJob("open", c, "none")]
        BY <1>10 DEF U!FreeThreads
  <2>2. t # "main" /\ t \in U!Agents /\ "open" \in {"open", "close"}
        BY UsbConstants
  <2>3. /\ job' \in [U!Agents -> U!Jobs]
        /\ \A b \in U!Agents : b # t => job'[b] = job[b]
        /\ job'[t].kind = "open" /\ job'[t].chan = c /\ job'[t].pc = "start"
        /\ job'[t].then = "none"
        BY <1>1, <2>1, <2>2, JobTaken
  <2>4. job[t].kind = "none" /\ job[t].pc = "none" /\ job[t].then = "none"
        BY <2>1, IdleJobs
  <2>5. UsbTypes'
        BY <1>1, <1>2, <1>3, <1>8, <1>10, <2>3 DEF UsbTypes, U!Agents
  <2>6. UsbLocks'
    <3>1. ASSUME NEW b \in U!Agents
          PROVE  job'[b].pc = "store" => b # t /\ job'[b] = job[b]
          BY <2>3
    <3>2. ASSUME NEW x \in UsbChannels, lock[x] # nobody
          PROVE  lock[x] \in U!Agents /\ lock[x] # t
          BY <1>1, <2>4, <3>2 DEF UsbTypes, UsbLocks
    <3>3. \A x \in UsbChannels : lock'[x] # nobody =>
            job'[lock'[x]].chan = x /\ job'[lock'[x]].pc = "store"
          BY <1>1, <2>3, <3>2 DEF UsbLocks
    <3>4. ASSUME NEW b \in U!Agents, NEW e \in U!Agents, b # e,
                 job'[b].kind = "open", job'[e].kind = "open"
          PROVE  job'[b].chan # job'[e].chan
          BY <1>1, <1>5, <2>3, <3>4 DEF UsbLocks
    <3> QED BY <1>1, <3>1, <3>3, <3>4 DEF UsbLocks, U!Agents
  <2>7. UsbCount'
        BY <1>10, <2>3 DEF UsbInv, UsbCount, U!Agents
  <2>8. ASSUME NEW x \in UsbChannels PROVE UsbChannel(x)' /\ UsbGone(x)'
    <3>1. UsbChannel(x)'
          BY <1>1, <1>3, <1>7, <1>8, <1>10 DEF UsbInv, UsbChannel
    <3>2. UsbGone(x)'
          BY <1>3, <1>7, <1>8, <1>10, <2>2, <2>3 DEF UsbInv, UsbGone, U!Agents
    <3> QED BY <3>1, <3>2
  <2>9. ASSUME NEW b \in U!Agents PROVE UsbJob(b)'
    <3>1. UsbJob(b) /\ job[b] \in U!Jobs /\ (b = "main" => job[b].then = "none")
          BY <1>1, IdleJobs DEF UsbTypes
    <3>2. CASE b = t
          BY <1>1, <1>8, <1>10, <2>2, <2>3, <3>2, UsbConstants DEF UsbJob
    <3>3. CASE b # t
          BY <1>5, <1>7, <1>10, <2>3, <3>1, <3>3 DEF UsbJob
    <3> QED BY <3>2, <3>3
  <2>10. U!Released'
        BY <1>2, <1>7, <1>8, <1>10, <2>3, <2>4 DEF UsbInv, U!Released, U!Agents
  <2> QED BY <1>6, <2>5, <2>6, <2>7, <2>8, <2>9, <2>10 DEF UsbInv, U!Agents
<1> QED BY <1>1, <1>9, <1>10 DEF U!ChannelConnect

LEMMA ConnectsKeep ==
  ASSUME UsbInv, NEW d, NEW c,
         \/ d \in UsbDevices /\ (U!ConnectDevice(d) \/ U!AddDev(d))
         \/ c \in UsbChannels /\ U!ChannelNew(c)
  PROVE  UsbInv'
<1>1. /\ UsbTypes /\ job["main"] = U!NoJob /\ UNCHANGED <<polkit, bus, lock, listeners, raced, reader>>
      BY DEF UsbInv, U!ConnectDevice, U!AddDev, U!ChannelNew, U!MainIdle
<1>2. \A i \in DOMAIN channels : channels[i] \in U!Listed /\ channels[i] \in UsbChannels
      BY <1>1, ListedIs, LenProperties, ElementOfSeq DEF UsbTypes
<1>3. ASSUME d \in UsbDevices, U!Connect(d), UNCHANGED <<channels, life>>,
             d \in devices', devices \subseteq devices', devices' \subseteq UsbDevices
      PROVE  UsbInv'
  <2>1. CASE /\ answers' = answers + 1 /\ redirecting' = TRUE
             /\ UNCHANGED <<st, dev, helper, job, grab, request>>
    <3>1. UsbTypes'
          BY <1>1, <1>3, <2>1 DEF UsbTypes
    <3>2. UsbLocks' /\ UsbCount' /\ U!OneHolder'
          BY <1>1, <1>3, <2>1, ListedIs
          DEF UsbInv, UsbLocks, UsbCount, U!OneHolder, U!Agents
    <3>3. U!Released'
          BY <1>1, <2>1 DEF UsbInv, UsbTypes, U!Released
    <3>4. ASSUME NEW x \in UsbChannels PROVE UsbChannel(x)' /\ UsbGone(x)'
          BY <1>1, <1>3, <2>1, ListedIs DEF UsbInv, UsbTypes, UsbChannel, UsbGone, U!Agents
    <3>5. ASSUME NEW a \in U!Agents PROVE UsbJob(a)'
          BY <1>1, <2>1 DEF UsbInv, UsbJob
    <3> QED BY <3>1, <3>2, <3>3, <3>4, <3>5 DEF UsbInv, U!Agents
  <2>2. CASE ~U!IsConnected(d) /\ redirecting' = TRUE
             /\ \E x \in UsbChannels : x \in U!Listed /\ dev[x] = nobody
                                       /\ U!ChannelConnect(x, d, "user")
    <3>1. PICK x \in UsbChannels : /\ x \in U!Listed /\ dev[x] = nobody
                                   /\ U!ChannelConnect(x, d, "user")
          BY <2>2
    <3>2. d \in UsbDevices /\ \A y \in U!Listed : dev[y] # d
          BY <1>3, <2>2 DEF U!IsConnected, U!Holders
    <3>3. "user" \in {"user", "manager"}
          OBVIOUS
    <3> QED BY <1>1, <1>3, <2>2, <3>1, <3>2, <3>3, ConnectKeeps
  <2> QED BY <1>2, <1>3, <2>1, <2>2 DEF U!Connect, U!Free
<1>4. CASE d \in UsbDevices /\ U!ConnectDevice(d)
      BY <1>1, <1>3, <1>4 DEF U!ConnectDevice, UsbTypes
<1>5. ASSUME NEW e \in UsbDevices,
             devices' \in {devices, devices \union {e}}, UNCHANGED <<channels, life>>,
             UNCHANGED <<st, dev, helper, grab, redirecting, request, answers, job>>
      PROVE  UsbInv'
  <2>1. UsbTypes'
        BY <1>1, <1>5 DEF UsbTypes
  <2>2. UsbLocks' /\ UsbCount' /\ U!OneHolder' /\ U!Released'
        BY <1>1, <1>5, ListedIs
        DEF UsbInv, UsbLocks, UsbCount, U!OneHolder, U!Released, U!Agents
  <2>3. ASSUME NEW x \in UsbChannels PROVE UsbChannel(x)' /\ UsbGone(x)'
        BY <1>1, <1>5, ListedIs DEF UsbInv, UsbTypes, UsbChannel, UsbGone, U!Agents
  <2>4. ASSUME NEW a \in U!Agents PROVE UsbJob(a)'
        BY <1>1, <1>5 DEF UsbInv, UsbJob
  <2> QED BY <2>1, <2>2, <2>3, <2>4 DEF UsbInv, U!Agents
<1>6. CASE d \in UsbDevices /\ U!AddDev(d)
  <2>1. devices' = devices \union {d} /\ UNCHANGED <<channels, life>>
        BY <1>6 DEF U!AddDev
  <2>2. CASE UNCHANGED <<st, dev, helper, grab, redirecting, request, answers, job>>
        BY <1>5, <1>6, <2>1, <2>2
  <2>3. CASE U!Connect(d)
        BY <1>1, <1>3, <1>6, <2>1, <2>3 DEF UsbTypes
  <2> QED BY <1>6, <2>2, <2>3 DEF U!AddDev
<1>7. CASE c \in UsbChannels /\ U!ChannelNew(c)
  <2>1. /\ life[c] = "new" /\ life' = [life EXCEPT ![c] = "alive"]
        /\ channels' = Append(channels, c) /\ UNCHANGED <<devices, redirecting>>
        BY <1>7 DEF U!ChannelNew
  <2>2. /\ UsbChannel(c) /\ dev[c] = nobody /\ request[c] = "none" /\ st[c] = "DISCONNECTED"
        BY <1>7, <2>1 DEF UsbInv, UsbChannel
  <2>3. channels' \in Seq(UsbChannels) /\ U!Listed' = U!Listed \union {c}
        BY <1>1, <1>7, <2>1, ListedGrows DEF UsbTypes
  <2>4. CASE UNCHANGED <<st, dev, helper, grab, request, answers, job>>
    <3>1. UsbTypes'
          BY <1>1, <2>1, <2>3, <2>4 DEF UsbTypes
    <3>2. UsbLocks' /\ UsbCount' /\ U!Released'
          BY <1>1, <2>1, <2>4 DEF UsbInv, UsbLocks, UsbCount, U!Released, U!Agents
    <3>3. U!OneHolder'
          BY <2>2, <2>3, <2>4 DEF UsbInv, U!OneHolder
    <3>4. ASSUME NEW x \in UsbChannels PROVE UsbChannel(x)' /\ UsbGone(x)'
          BY <1>1, <2>1, <2>2, <2>3, <2>4
          DEF UsbInv, UsbTypes, UsbChannel, UsbGone, U!Agents
    <3>5. ASSUME NEW a \in U!Agents PROVE UsbJob(a)'
          BY <1>1, <2>4 DEF UsbInv, UsbJob
    <3> QED BY <3>1, <3>2, <3>3, <3>4, <3>5 DEF UsbInv, U!Agents
  <2>5. CASE \E e \in devices : ~U!IsConnected(e) /\ U!ChannelConnect(c, e, "manager")
    <3>1. PICK e \in UsbDevices : /\ e \in devices /\ U!ChannelConnect(c, e, "manager")
                                  /\ \A y \in U!Listed : dev[y] # e
          BY <1>1, <2>5 DEF UsbTypes, U!IsConnected, U!Holders
    <3>2. "manager" \in {"user", "manager"} /\ devices \subseteq UsbDevices
          BY <1>1 DEF UsbTypes
    <3>3. devices \subseteq devices' /\ devices' \subseteq UsbDevices /\ e \in devices'
          BY <2>1, <3>1, <3>2
    <3>4. \/ "manager" = "user" /\ redirecting' = TRUE
          \/ UNCHANGED redirecting /\ request[c] = "none"
          BY <2>1, <2>2
    <3> QED BY <1>1, <1>7, <2>1, <2>2, <3>1, <3>2, <3>3, <3>4, ConnectKeeps
  <2> QED BY <1>7, <2>4, <2>5 DEF U!ChannelNew
<1> QED BY <1>4, <1>6, <1>7

LEMMA QuietKeep ==
  ASSUME UsbInv, NEW c,
         \/ /\ c \in UsbChannels
            /\ U!HelperAnswers(c) \/ U!HandleMsgFails(c) \/ U!ChannelDestroy(c)
         \/ U!Tell
  PROVE  UsbInv'
<1>1. /\ UsbTypes /\ job["main"] = U!NoJob
      /\ UNCHANGED <<polkit, bus, devices, life, st, dev, grab, request, job, lock,
                     listeners, raced>>
      BY DEF UsbInv, U!HelperAnswers, U!HandleMsgFails, U!ChannelDestroy, U!Tell, U!MainIdle
<1>2. /\ helper' \in [UsbChannels -> {"none", "asking", "ok", "error"}]
      /\ reader' \in [UsbChannels -> UsbDevices \union {nobody}]
      /\ redirecting' \in BOOLEAN /\ answers' \in Nat
      /\ redirecting' => redirecting /\ answers' = answers
  <2>1. CASE c \in UsbChannels /\ U!HelperAnswers(c)
        BY <1>1, <2>1 DEF UsbTypes, U!HelperAnswers
  <2>2. CASE c \in UsbChannels /\ U!HandleMsgFails(c)
        BY <1>1, <2>2 DEF UsbTypes, U!HandleMsgFails
  <2>3. CASE c \in UsbChannels /\ U!ChannelDestroy(c)
        BY <1>1, <2>3 DEF UsbTypes, U!ChannelDestroy
  <2>4. CASE U!Tell
    <3>1. redirecting' = FALSE /\ UNCHANGED <<helper, reader>>
          BY <2>4 DEF U!Tell
    <3>2. answers' \in Nat
          BY <1>1, <2>4 DEF UsbTypes, U!Tell
    <3> QED BY <1>1, <3>1, <3>2 DEF UsbTypes
  <2> QED BY <2>1, <2>2, <2>3, <2>4
<1>3. channels' \in Seq(UsbChannels) /\ U!Listed' \subseteq U!Listed
  <2>1. CASE UNCHANGED channels
        BY <1>1, <2>1, ListedIs DEF UsbTypes
  <2>2. CASE c \in UsbChannels /\ U!ChannelDestroy(c)
        BY <1>1, <2>2, ListedShrinks DEF UsbTypes, U!ChannelDestroy
  <2> QED BY <2>1, <2>2 DEF U!HelperAnswers, U!HandleMsgFails, U!Tell
<1>4. UsbTypes'
      BY <1>1, <1>2, <1>3 DEF UsbTypes
<1>5. UsbLocks' /\ UsbCount' /\ U!Released' /\ U!OneHolder'
      BY <1>1, <1>2, <1>3 DEF UsbInv, UsbLocks, UsbCount, U!Released, U!OneHolder, U!Agents
<1>6. ASSUME NEW x \in UsbChannels PROVE UsbChannel(x)' /\ UsbGone(x)'
      BY <1>1, <1>3 DEF UsbInv, UsbChannel, UsbGone, U!Agents
<1>7. ASSUME NEW a \in U!Agents PROVE UsbJob(a)'
  <2>1. UsbJob(a) /\ (a = "main" => job[a].then = "none")
        BY <1>1, IdleJobs DEF UsbInv
  <2> QED BY <1>1, <2>1 DEF UsbJob
<1> QED BY <1>4, <1>5, <1>6, <1>7 DEF UsbInv, U!Agents

\* What ends a connection: the channel lets the device go, or is connected.
LEMMA OpenFailsIs ==
  ASSUME UsbTypes, NEW c \in UsbChannels, U!OpenFails(c)
  PROVE  /\ dev' \in [UsbChannels -> UsbDevices \union {nobody}]
         /\ st' \in [UsbChannels -> {"DISCONNECTED", "WAITING", "CONNECTED", "DISCONNECTING"}]
         /\ helper' \in [UsbChannels -> {"none", "asking", "ok", "error"}]
         /\ request' \in [UsbChannels -> {"none", "user", "manager"}] /\ answers' \in Nat
         /\ grab' = FALSE /\ dev'[c] = nobody /\ st'[c] = "DISCONNECTED" /\ request'[c] = "none"
         /\ request[c] = "user" => answers' > 0
         /\ answers > 0 => answers' > 0
         /\ \A x \in UsbChannels : x # c =>
              dev'[x] = dev[x] /\ st'[x] = st[x] /\ request'[x] = request[x]
<1>1. /\ dev' = [dev EXCEPT ![c] = nobody] /\ st' = [st EXCEPT ![c] = "DISCONNECTED"]
      /\ helper' = [helper EXCEPT ![c] = "none"] /\ grab' = FALSE
      /\ request' = [request EXCEPT ![c] = "none"]
      /\ answers' = IF request[c] = "user" THEN answers + 1 ELSE answers
      BY DEF U!OpenFails, U!Answered
<1> QED BY <1>1 DEF UsbTypes

LEMMA OpenAclKeeps ==
  ASSUME UsbInv, NEW c \in UsbChannels, U!OpenAclCb(c)
  PROVE  UsbInv'
<1>1. /\ UsbTypes /\ UsbLocks /\ job["main"] = U!NoJob /\ st[c] \in {"WAITING", "DISCONNECTING"}
      /\ UNCHANGED <<polkit, bus, devices, channels, life, redirecting, lock, listeners, raced,
                     reader>>
      /\ U!Listed' = U!Listed /\ UsbChannel(c) /\ UsbGone(c)
      BY ListedIs DEF UsbInv, U!OpenAclCb, U!MainIdle
<1>2. /\ job["main"].kind = "none" /\ job["main"].pc = "none" /\ job["main"].then = "none"
      BY <1>1, IdleJobs
<1>3. ASSUME NEW b \in U!Agents
      PROVE  (job[b].kind = "open" => job[b].chan # c)
             /\ (job[b].pc = "store" => job[b].chan # c)
  <2>1. UsbJob(b) /\ job[b] \in U!Jobs
        BY <1>1 DEF UsbTypes, UsbInv
  <2>2. job[b].kind = "none" => job[b].pc = "none"
        BY <2>1, IdleJobs DEF UsbJob
  <2>3. b = "main" => job[b].kind = "none"
        BY <1>2
  <2> QED BY <1>1, <2>1, <2>2, <2>3 DEF U!Jobs, UsbJob
<1>4. CASE U!OpenFails(c) /\ UNCHANGED job
  <2>1. /\ UsbTypes'
        /\ grab' = FALSE /\ dev'[c] = nobody /\ st'[c] = "DISCONNECTED" /\ request'[c] = "none"
        /\ request[c] = "user" => answers' > 0
        /\ answers > 0 => answers' > 0
        /\ \A x \in UsbChannels : x # c =>
             dev'[x] = dev[x] /\ st'[x] = st[x] /\ request'[x] = request[x]
        BY <1>1, <1>4, OpenFailsIs DEF UsbTypes
  <2>2. UsbLocks'
        BY <1>1, <1>4 DEF UsbLocks, U!Agents
  <2>3. UsbCount'
    <3>1. {x \in UsbChannels : st'[x] = "CONNECTED"} = {x \in UsbChannels : st[x] = "CONNECTED"}
          BY <1>1, <2>1
    <3> QED BY <1>1, <1>4, <3>1 DEF UsbInv, UsbCount, U!Agents
  <2>4. ASSUME NEW x \in UsbChannels PROVE UsbChannel(x)' /\ UsbGone(x)'
        BY <1>1, <1>4, <2>1 DEF UsbInv, UsbChannel, UsbGone, U!Agents
  <2>5. ASSUME NEW b \in U!Agents PROVE UsbJob(b)'
        BY <1>1, <1>2, <1>3, <1>4, <2>1 DEF UsbInv, UsbJob
  <2>6. U!OneHolder'
    <3>1. \A x \in U!Listed : x \in UsbChannels
          BY <1>1, ListedIs, LenProperties, ElementOfSeq DEF UsbTypes
    <3> QED BY <1>1, <2>1, <3>1 DEF UsbInv, U!OneHolder
  <2>7. U!Released'
        BY <1>1, <1>4, <2>1 DEF UsbInv, UsbTypes, U!Released, U!Agents
  <2> QED BY <2>1, <2>2, <2>3, <2>4, <2>5, <2>6, <2>7 DEF UsbInv, U!Agents
<1>5. CASE /\ ~U!Refused(c) /\ job' = [job EXCEPT !["main"] = U!NewJob("open", c, "none")]
           /\ UNCHANGED <<st, dev, helper, request, answers, grab>>
  <2>1. st[c] = "WAITING" /\ dev[c] # nobody /\ polkit
        BY <1>1, <1>5 DEF U!Refused, UsbChannel
  <2>2. "main" \in U!Agents /\ "open" \in {"open", "close"}
        BY UsbConstants
  <2>3. /\ job' \in [U!Agents -> U!Jobs]
        /\ \A b \in U!Agents : b # "main" => job'[b] = job[b]
        /\ job'["main"].kind = "open" /\ job'["main"].chan = c /\ job'["main"].pc = "start"
        /\ job'["main"].then = "none"
        BY <1>1, <1>5, <2>2, JobTaken
  <2>4. UsbTypes'
        BY <1>1, <1>5, <2>3 DEF UsbTypes, U!Agents
  <2>5. UsbLocks'
    <3>1. ASSUME NEW b \in U!Agents
          PROVE  job'[b].pc = "store" => b # "main" /\ job'[b] = job[b]
          BY <2>3
    <3>2. ASSUME NEW x \in UsbChannels, lock[x] # nobody
          PROVE  lock[x] \in U!Agents /\ lock[x] # "main"
          BY <1>1, <1>2, <3>2 DEF UsbTypes, UsbLocks
    <3>3. \A x \in UsbChannels : lock'[x] # nobody =>
            job'[lock'[x]].chan = x /\ job'[lock'[x]].pc = "store"
          BY <1>1, <2>3, <3>2 DEF UsbLocks
    <3>4. ASSUME NEW b \in U!Agents, NEW e \in U!Agents, b # e,
                 job'[b].kind = "open", job'[e].kind = "open"
          PROVE  job'[b].chan # job'[e].chan
          BY <1>1, <1>3, <2>3, <3>4 DEF UsbLocks
    <3> QED BY <1>1, <3>1, <3>3, <3>4 DEF UsbLocks, U!Agents
  <2>6. UsbCount'
        BY <1>1, <1>5, <2>3 DEF UsbInv, UsbCount, U!Agents
  <2>7. ASSUME NEW x \in UsbChannels PROVE UsbChannel(x)' /\ UsbGone(x)'
    <3>1. UsbChannel(x)'
          BY <1>1, <1>5 DEF UsbInv, UsbChannel
    <3>2. UsbGone(x)'
          BY <1>1, <1>2, <1>5, <2>1, <2>2, <2>3 DEF UsbInv, UsbGone, U!Agents
    <3> QED BY <3>1, <3>2
  <2>8. ASSUME NEW b \in U!Agents PROVE UsbJob(b)'
    <3>1. UsbJob(b)
          BY DEF UsbInv
    <3>2. CASE b = "main"
          BY <1>1, <1>5, <2>1, <2>3, <3>2 DEF UsbJob
    <3>3. CASE b # "main"
          BY <1>1, <1>5, <2>3, <3>1, <3>3 DEF UsbJob
    <3> QED BY <3>2, <3>3
  <2>9. U!OneHolder' /\ U!Released'
        BY <1>1, <1>2, <1>5, <2>3 DEF UsbInv, U!OneHolder, U!Released, U!Agents
  <2> QED BY <2>4, <2>5, <2>6, <2>7, <2>8, <2>9 DEF UsbInv, U!Agents
<1> QED BY <1>4, <1>5 DEF U!OpenAclCb

LEMMA OpenKeeps ==
  ASSUME UsbInv, NEW a \in U!Agents, U!Open(a)
  PROVE  UsbInv'
<1> DEFINE c == job[a].chan
<1>1. /\ UsbTypes /\ UsbLocks /\ UsbJob(a) /\ job[a].kind = "open" /\ job[a].pc = "start"
      /\ c \in UsbChannels /\ job[a].then = "none" /\ dev[c] # nobody
      /\ a = "main" => st[c] \in {"WAITING", "DISCONNECTING"}
      /\ a # "main" => st[c] = "DISCONNECTED" /\ lock[c] = nobody
      /\ UNCHANGED <<polkit, bus, devices, channels, life, redirecting, listeners, raced, reader>>
      /\ U!Listed' = U!Listed /\ UsbChannel(c) /\ UsbGone(c)
      BY ListedIs DEF UsbInv, U!Open, UsbJob
<1>2. ASSUME NEW x \in UsbChannels, lock[x] # nobody
      PROVE  lock[x] \in U!Agents /\ lock[x] # a
      BY <1>1, <1>2 DEF UsbTypes, UsbLocks
<1>3. ASSUME NEW b \in U!Agents, b # a
      PROVE  (job[b].kind = "open" => job[b].chan # c)
             /\ (job[b].pc = "store" => job[b].chan # c)
  <2>1. UsbJob(b) /\ job[b] \in U!Jobs
        BY <1>1 DEF UsbTypes, UsbInv
  <2>2. job[b].kind = "none" => job[b].pc = "none"
        BY <2>1, IdleJobs DEF UsbJob
  <2>3. job[b].kind = "open" => job[b].chan # c
        BY <1>1, <1>3 DEF UsbLocks
  <2>4. job[b].kind = "close" /\ job[b].pc = "store" => job[b].chan # c
        BY <1>1, <2>1 DEF UsbJob
  <2> QED BY <2>1, <2>2, <2>3, <2>4 DEF U!Jobs
<1> HIDE DEF c
<1>4. CASE /\ bus[dev[c]] = "plugged"
           /\ job' = [job EXCEPT ![a].pc = "store", ![a].saw = listeners]
           /\ lock' = IF a = "main" THEN lock ELSE [lock EXCEPT ![c] = a]
           /\ UNCHANGED <<st, dev, helper, grab, request, answers>>
  <2>1. /\ job' \in [U!Agents -> U!Jobs]
        /\ \A b \in U!Agents : b # a => job'[b] = job[b]
        /\ job'[a].kind = "open" /\ job'[a].chan = c
        /\ job'[a].then = job[a].then /\ job'[a].pc = "store" /\ job'[a].saw = listeners
        BY <1>1, <1>4, JobStores DEF c
  <2>2. /\ lock' \in [UsbChannels -> U!Agents \union {nobody}]
        /\ a # "main" => lock'[c] = a
        /\ a = "main" => lock' = lock
        /\ \A x \in UsbChannels : x # c => lock'[x] = lock[x]
        BY <1>1, <1>4 DEF UsbTypes
  <2>3. UsbTypes'
        BY <1>1, <1>4, <2>1, <2>2 DEF UsbTypes, U!Agents
  <2>4. UsbLocks'
    <3>1. ASSUME NEW b \in U!Agents, job'[b].pc = "store", b = "main" => job'[b].kind = "close"
          PROVE  lock'[job'[b].chan] = b
      <4>1. CASE b = a
            BY <2>1, <2>2, <3>1, <4>1
      <4>2. CASE b # a
        <5>1. UsbJob(b) /\ job[b] \in U!Jobs /\ job'[b] = job[b]
              BY <1>1, <2>1, <4>2 DEF UsbTypes, UsbInv
        <5>2. job[b].kind # "none"
              BY <3>1, <5>1, IdleJobs DEF UsbJob
        <5>3. job[b].chan \in UsbChannels
              BY <5>1, <5>2 DEF UsbJob
        <5> QED BY <1>1, <1>3, <2>2, <3>1, <4>2, <5>1, <5>3 DEF UsbLocks
      <4> QED BY <4>1, <4>2
    <3>2. ASSUME NEW x \in UsbChannels, lock'[x] # nobody
          PROVE  job'[lock'[x]].chan = x /\ job'[lock'[x]].pc = "store"
      <4>1. CASE x = c /\ a # "main"
            BY <2>1, <2>2, <4>1
      <4>2. CASE ~(x = c /\ a # "main")
        <5>1. lock'[x] = lock[x]
              BY <2>2, <4>2
        <5> QED BY <1>1, <1>2, <2>1, <3>2, <5>1 DEF UsbLocks
      <4> QED BY <4>1, <4>2
    <3>3. ASSUME NEW b \in U!Agents, NEW e \in U!Agents, b # e,
                 job'[b].kind = "open", job'[e].kind = "open"
          PROVE  job'[b].chan # job'[e].chan
          BY <1>1, <1>3, <2>1, <3>3 DEF UsbLocks
    <3> QED BY <3>1, <3>2, <3>3 DEF UsbLocks, U!Agents
  <2>5. UsbCount'
        BY <1>1, <1>4, <2>1 DEF UsbInv, UsbCount, U!Agents
  <2>6. ASSUME NEW x \in UsbChannels PROVE UsbChannel(x)' /\ UsbGone(x)'
    <3>1. UsbChannel(x)'
          BY <1>1, <1>4 DEF UsbInv, UsbChannel
    <3>2. CASE x = c
      <4>1. dev[c] \in devices
            BY <1>1, <1>4 DEF UsbChannel
      <4> QED BY <1>1, <1>4, <3>1, <3>2, <4>1 DEF UsbGone
    <3>3. CASE x # c
          BY <1>1, <1>4, <2>1, <3>1, <3>3, UsbConstants DEF UsbInv, UsbGone, U!Agents
    <3> QED BY <3>2, <3>3
  <2>7. ASSUME NEW b \in U!Agents PROVE UsbJob(b)'
    <3>1. UsbJob(b)
          BY DEF UsbInv
    <3>2. CASE b = a
          BY <1>1, <1>4, <2>1, <3>1, <3>2 DEF UsbJob, c
    <3>3. CASE b # a
          BY <1>1, <1>4, <2>1, <3>1, <3>3 DEF UsbJob
    <3> QED BY <3>2, <3>3
  <2>8. U!OneHolder' /\ U!Released'
        BY <1>1, <1>4, <2>1 DEF UsbInv, U!OneHolder, U!Released, U!Agents
  <2> QED BY <2>3, <2>4, <2>5, <2>6, <2>7, <2>8 DEF UsbInv, U!Agents
<1>5. CASE /\ U!OpenFails(c) /\ job' = [job EXCEPT ![a] = U!NoJob] /\ UNCHANGED lock
  <2>1. /\ job' \in [U!Agents -> U!Jobs]
        /\ \A b \in U!Agents : b # a => job'[b] = job[b]
        /\ job'[a] = U!NoJob
        /\ job'[a].kind = "none" /\ job'[a].pc = "none" /\ job'[a].then = "none"
        BY <1>1, <1>5, JobEnds, IdleJobs
  <2>2. /\ dev' \in [UsbChannels -> UsbDevices \union {nobody}]
        /\ st' \in [UsbChannels -> {"DISCONNECTED", "WAITING", "CONNECTED", "DISCONNECTING"}]
        /\ helper' \in [UsbChannels -> {"none", "asking", "ok", "error"}]
        /\ request' \in [UsbChannels -> {"none", "user", "manager"}] /\ answers' \in Nat
        /\ grab' = FALSE /\ dev'[c] = nobody /\ st'[c] = "DISCONNECTED" /\ request'[c] = "none"
        /\ request[c] = "user" => answers' > 0
        /\ answers > 0 => answers' > 0
        /\ \A x \in UsbChannels : x # c =>
             dev'[x] = dev[x] /\ st'[x] = st[x] /\ request'[x] = request[x]
        BY <1>1, <1>5, OpenFailsIs
  <2>3. UsbTypes'
        BY <1>1, <1>5, <2>1, <2>2 DEF UsbTypes, U!Agents
  <2>4. UsbLocks'
        BY <1>1, <1>2, <1>5, <2>1 DEF UsbLocks, U!Agents
  <2>5. UsbCount'
    <3>1. {x \in UsbChannels : st'[x] = "CONNECTED"} = {x \in UsbChannels : st[x] = "CONNECTED"}
          BY <1>1, <2>2
    <3> QED BY <1>1, <2>1, <3>1 DEF UsbInv, UsbCount, U!Agents
  <2>6. ASSUME NEW x \in UsbChannels PROVE UsbChannel(x)' /\ UsbGone(x)'
    <3>1. CASE x = c
          BY <1>1, <2>2, <3>1 DEF UsbChannel, UsbGone
    <3>2. CASE x # c
          BY <1>1, <2>1, <2>2, <3>2, UsbConstants DEF UsbInv, UsbChannel, UsbGone, U!Agents
    <3> QED BY <3>1, <3>2
  <2>7. ASSUME NEW b \in U!Agents PROVE UsbJob(b)'
    <3>1. CASE b = a
          BY <2>1, <3>1 DEF UsbJob
    <3>2. CASE b # a
          BY <1>1, <1>3, <2>1, <2>2, <3>2 DEF UsbInv, UsbJob
    <3> QED BY <3>1, <3>2
  <2>8. U!OneHolder'
    <3>1. \A x \in U!Listed : x \in UsbChannels
          BY <1>1, ListedIs, LenProperties, ElementOfSeq DEF UsbTypes
    <3> QED BY <1>1, <2>2, <3>1 DEF UsbInv, U!OneHolder
  <2>9. U!Released'
        BY <1>1, <2>1, <2>2 DEF UsbInv, UsbTypes, U!Released, U!Agents
  <2> QED BY <2>3, <2>4, <2>5, <2>6, <2>7, <2>8, <2>9 DEF UsbInv, U!Agents
<1> QED BY <1>4, <1>5 DEF U!Open, c

LEMMA OneMore ==
  ASSUME NEW X, NEW Y, NEW c \in UsbChannels, X \subseteq UsbChannels, c \notin X,
         Y = X \union {c}
  PROVE  Cardinality(X) \in Nat /\ Cardinality(Y) = Cardinality(X) + 1
<1>1. IsFiniteSet(X)
      BY UsbConstants, FS_Subset
<1> QED BY <1>1, FS_AddElement, FS_CardinalityType

LEMMA OpenedKeeps ==
  ASSUME UsbInv, NEW a \in U!Agents, U!Opened(a)
  PROVE  UsbInv'
<1> DEFINE c == job[a].chan
<1>1. /\ UsbTypes /\ UsbLocks /\ UsbJob(a) /\ job[a].kind = "open" /\ job[a].pc = "store"
      /\ c \in UsbChannels /\ job[a].then = "none" /\ dev[c] # nobody
      /\ a = "main" => polkit /\ st[c] \in {"WAITING", "DISCONNECTING"}
      /\ a # "main" => ~polkit /\ st[c] = "DISCONNECTED" /\ lock[c] = a
      /\ UNCHANGED <<polkit, bus, devices, channels, life, dev, redirecting, reader>>
      /\ U!Listed' = U!Listed /\ UsbChannel(c) /\ UsbGone(c)
      BY ListedIs DEF UsbInv, U!Opened, UsbJob, UsbLocks
<1>2. ASSUME NEW b \in U!Agents, b # a
      PROVE  (job[b].kind = "open" => job[b].chan # c)
             /\ (job[b].pc = "store" => job[b].chan # c)
  <2>1. UsbJob(b) /\ job[b] \in U!Jobs
        BY <1>1 DEF UsbTypes, UsbInv
  <2>2. job[b].kind = "none" => job[b].pc = "none"
        BY <2>1, IdleJobs DEF UsbJob
  <2>3. job[b].kind = "open" => job[b].chan # c
        BY <1>1, <1>2 DEF UsbLocks
  <2>4. job[b].kind = "close" /\ job[b].pc = "store" => job[b].chan # c
        BY <1>1, <2>1 DEF UsbJob
  <2> QED BY <2>1, <2>2, <2>3, <2>4 DEF U!Jobs
<1>3. /\ job' = [job EXCEPT ![a] = U!NoJob]
      /\ listeners' = job[a].saw + 1 /\ raced' = (raced \/ U!Storing(a))
      /\ st' = [st EXCEPT ![c] = "CONNECTED"] /\ helper' = [helper EXCEPT ![c] = "none"]
      /\ grab' = IF a = "main" THEN FALSE ELSE grab
      /\ request' = [request EXCEPT ![c] = "none"]
      /\ answers' = IF request[c] = "user" THEN answers + 1 ELSE answers
      /\ lock' = IF lock[c] = a THEN [lock EXCEPT ![c] = nobody] ELSE lock
      BY DEF U!Opened, U!Answered
<1> HIDE DEF c
<1>4. /\ job' \in [U!Agents -> U!Jobs]
      /\ \A b \in U!Agents : b # a => job'[b] = job[b]
      /\ job'[a] = U!NoJob
      /\ job'[a].kind = "none" /\ job'[a].pc = "none" /\ job'[a].then = "none"
      BY <1>1, <1>3, JobEnds, IdleJobs
<1>5. /\ st' \in [UsbChannels -> {"DISCONNECTED", "WAITING", "CONNECTED", "DISCONNECTING"}]
      /\ helper' \in [UsbChannels -> {"none", "asking", "ok", "error"}]
      /\ request' \in [UsbChannels -> {"none", "user", "manager"}] /\ answers' \in Nat
      /\ lock' \in [UsbChannels -> U!Agents \union {nobody}]
      /\ grab' \in BOOLEAN /\ raced' \in BOOLEAN
      /\ st'[c] = "CONNECTED" /\ request'[c] = "none"
      /\ request[c] = "user" => answers' > 0
      /\ answers > 0 => answers' > 0
      /\ \A x \in UsbChannels : x # c =>
           st'[x] = st[x] /\ request'[x] = request[x] /\ lock'[x] = lock[x]
      /\ lock'[c] # a
      /\ lock'[c] # nobody => lock'[c] = lock[c]
  <2>1. /\ job[a].saw \in Int /\ nobody # a
        BY <1>1, UsbConstants DEF UsbTypes, U!Jobs
  <2>2. /\ st'[c] = "CONNECTED" /\ request'[c] = "none"
        /\ \A x \in UsbChannels : x # c => st'[x] = st[x] /\ request'[x] = request[x]
        /\ st' \in [UsbChannels -> {"DISCONNECTED", "WAITING", "CONNECTED", "DISCONNECTING"}]
        /\ helper' \in [UsbChannels -> {"none", "asking", "ok", "error"}]
        /\ request' \in [UsbChannels -> {"none", "user", "manager"}]
        BY <1>1, <1>3 DEF UsbTypes
  <2>3. /\ answers' \in Nat /\ (request[c] = "user" => answers' > 0)
        /\ answers > 0 => answers' > 0
        BY <1>1, <1>3 DEF UsbTypes
  <2>4. grab' \in BOOLEAN /\ raced' \in BOOLEAN
        BY <1>1, <1>3 DEF UsbTypes
  <2>5. /\ lock' \in [UsbChannels -> U!Agents \union {nobody}] /\ lock'[c] # a
        /\ lock'[c] # nobody => lock'[c] = lock[c]
        /\ \A x \in UsbChannels : x # c => lock'[x] = lock[x]
        BY <1>1, <1>3, <2>1 DEF UsbTypes
  <2> QED BY <2>2, <2>3, <2>4, <2>5
<1>6. UsbTypes'
  <2>1. job[a] \in U!Jobs
        BY <1>1 DEF UsbTypes
  <2>2. job[a].saw \in Int
        BY <2>1 DEF U!Jobs
  <2>3. listeners' \in Int
        BY <1>3, <2>2
  <2> QED BY <1>1, <1>4, <1>5, <2>3 DEF UsbTypes, U!Agents
<1>7. UsbLocks'
  <2>1. ASSUME NEW b \in U!Agents, job'[b].pc = "store", b = "main" => job'[b].kind = "close"
        PROVE  lock'[job'[b].chan] = b
    <3>1. b # a
          BY <1>4, <2>1
    <3>2. UsbJob(b) /\ job[b] \in U!Jobs /\ job'[b] = job[b]
          BY <1>1, <1>4, <3>1 DEF UsbTypes, UsbInv
    <3>3. job[b].chan \in UsbChannels
          BY <2>1, <3>2, IdleJobs DEF UsbJob
    <3> QED BY <1>1, <1>2, <1>5, <2>1, <3>1, <3>2, <3>3 DEF UsbLocks
  <2>2. ASSUME NEW x \in UsbChannels, lock'[x] # nobody
        PROVE  job'[lock'[x]].chan = x /\ job'[lock'[x]].pc = "store"
    <3>1. lock'[x] = lock[x]
          BY <1>5, <2>2
    <3>2. lock[x] \in U!Agents /\ job[lock[x]].chan = x /\ job[lock[x]].pc = "store"
          BY <1>1, <2>2, <3>1 DEF UsbTypes, UsbLocks
    <3>3. lock[x] # a
          BY <1>5, <3>1, <3>2 DEF c
    <3> QED BY <1>4, <3>1, <3>2, <3>3
  <2>3. ASSUME NEW b \in U!Agents, NEW e \in U!Agents, b # e,
               job'[b].kind = "open", job'[e].kind = "open"
        PROVE  job'[b].chan # job'[e].chan
        BY <1>1, <1>4, <2>3 DEF UsbLocks
  <2> QED BY <2>1, <2>2, <2>3 DEF UsbLocks, U!Agents
<1>8. UsbCount'
  <2>1. CASE raced' = FALSE
    <3> DEFINE X == {x \in UsbChannels : st[x] = "CONNECTED"}
               Y == {x \in UsbChannels : st'[x] = "CONNECTED"}
    <3>1. raced = FALSE /\ \A b \in U!Agents : b # a => job[b].pc # "store"
          BY <1>1, <1>3, <2>1 DEF U!Storing, UsbTypes
    <3>2. listeners = 1 + Cardinality(X) /\ job[a].saw = listeners
          BY <1>1, <3>1 DEF UsbInv, UsbCount
    <3>3. X \subseteq UsbChannels /\ c \notin X /\ Y = X \union {c}
          BY <1>1, <1>5
    <3> HIDE DEF X, Y
    <3>4. Cardinality(X) \in Nat /\ Cardinality(Y) = Cardinality(X) + 1
          BY <1>1, <3>3, OneMore
    <3>5. listeners' = 1 + Cardinality(Y)
          BY <1>3, <3>2, <3>4
    <3>6. \A b \in U!Agents : job'[b].pc # "store"
          BY <1>4, <3>1
    <3> QED BY <3>5, <3>6 DEF UsbCount, Y, U!Agents
  <2>2. CASE raced' # FALSE
        BY <1>5, <2>2 DEF UsbCount
  <2> QED BY <2>1, <2>2
<1>9. ASSUME NEW x \in UsbChannels PROVE UsbChannel(x)' /\ UsbGone(x)'
  <2>1. CASE x = c
    <3>1. job[a].chan = c
          BY DEF c
    <3>2. UsbChannel(x)'
          BY <1>1, <1>5, <2>1 DEF UsbChannel
    <3>3. c \in U!Listed /\ dev[c] \notin devices =>
            job["main"].kind = "close" /\ job["main"].chan = c
          BY <1>1, <3>1 DEF UsbGone
    <3>4. c \in U!Listed /\ dev[c] \notin devices =>
            job'["main"].kind = "close" /\ job'["main"].chan = c
          BY <1>1, <1>4, <3>3, UsbConstants
    <3> QED BY <1>1, <2>1, <3>2, <3>4 DEF UsbGone
  <2>2. CASE x # c
        BY <1>1, <1>4, <1>5, <2>2, UsbConstants DEF UsbInv, UsbChannel, UsbGone, U!Agents
  <2> QED BY <2>1, <2>2
<1>10. ASSUME NEW b \in U!Agents PROVE UsbJob(b)'
  <2>1. CASE b = a
        BY <1>4, <2>1 DEF UsbJob
  <2>2. CASE b # a
        BY <1>1, <1>2, <1>4, <1>5, <2>2 DEF UsbInv, UsbJob
  <2> QED BY <2>1, <2>2
<1>11. U!OneHolder'
       BY <1>1 DEF UsbInv, U!OneHolder
<1>12. U!Released'
  <2>1. grab' = FALSE
    <3>1. \A x \in UsbChannels : st[x] \in {"WAITING", "DISCONNECTING"} => polkit
          BY DEF UsbInv, UsbChannel
    <3> QED BY <1>1, <1>3, <3>1 DEF UsbInv, UsbTypes, U!Released
  <2> QED BY <1>1, <1>4, <1>5, <2>1 DEF UsbInv, UsbTypes, U!Released, U!Agents
<1> QED BY <1>6, <1>7, <1>8, <1>9, <1>10, <1>11, <1>12 DEF UsbInv, U!Agents

\* What follows the disconnection
LEMMA FinishedIs ==
  ASSUME UsbInv, NEW a \in U!Agents, NEW c \in UsbChannels, U!Finished(a, c), job[a].chan = c,
         job[a].kind = "close"
  PROVE  /\ job' \in [U!Agents -> U!Jobs]
         /\ \A b \in U!Agents : b # a => job'[b] = job[b]
         /\ job'[a] = U!NoJob
         /\ job'[a].kind = "none" /\ job'[a].pc = "none" /\ job'[a].then = "none"
         /\ answers' \in Nat /\ UNCHANGED request
         /\ job[a].then = "tell" \/ answers > 0 => answers' > 0
         /\ reader' \in [UsbChannels -> UsbDevices \union {nobody}]
         /\ a # "main" => UNCHANGED reader
<1>1. UsbTypes /\ UsbJob(a) /\ job' = [job EXCEPT ![a] = U!NoJob]
      BY DEF UsbInv, U!Finished
<1>2. /\ job' \in [U!Agents -> U!Jobs]
      /\ \A b \in U!Agents : b # a => job'[b] = job[b]
      /\ job'[a] = U!NoJob
      BY <1>1, JobEnds
<1>3. answers' \in Nat /\ UNCHANGED request /\ (job[a].then = "tell" \/ answers > 0 => answers' > 0)
      BY <1>1 DEF U!Finished, UsbTypes
<1>4. /\ reader' \in [UsbChannels -> UsbDevices \union {nobody}]
      /\ a # "main" => UNCHANGED reader
      BY <1>1 DEF U!Finished, UsbTypes, UsbJob
<1> QED BY <1>2, <1>3, <1>4, IdleJobs

LEMMA CloseKeeps ==
  ASSUME UsbInv, NEW a \in U!Agents, U!Close(a)
  PROVE  UsbInv'
<1>0. PICK c \in UsbChannels : c = job[a].chan
      BY DEF UsbInv, UsbJob, U!Close
<1>1. /\ UsbTypes /\ UsbLocks /\ UsbJob(a) /\ job[a].kind = "close" /\ job[a].pc = "start"
      /\ c \in UsbChannels /\ lock[c] = nobody /\ (a = "main" => job[a].then # "tell")
      /\ UNCHANGED <<polkit, bus, devices, channels, life, grab, redirecting, listeners, raced>>
      /\ U!Listed' = U!Listed
      BY <1>0, ListedIs DEF UsbInv, U!Close, UsbJob
<1>2. ASSUME NEW x \in UsbChannels, lock[x] # nobody
      PROVE  lock[x] \in U!Agents /\ lock[x] # a
      BY <1>1, <1>2 DEF UsbTypes, UsbLocks
<1>3. ASSUME NEW b \in U!Agents, b # "main", job[b].chan = c PROVE job[b].pc # "store"
      BY <1>0, <1>1, <1>3, UsbConstants DEF UsbLocks
<1>4. job[a].chan = c
      BY <1>0
<1>5. CASE /\ U!Finished(a, c) /\ UNCHANGED <<dev, lock>>
           /\ \/ st[c] \in {"DISCONNECTED", "DISCONNECTING"} /\ UNCHANGED <<st, helper>>
              \/ /\ st[c] = "WAITING" /\ st' = [st EXCEPT ![c] = "DISCONNECTING"]
                 /\ helper' = [helper EXCEPT ![c] = U!AfterCancel(c)]
  <2>1. /\ job' \in [U!Agents -> U!Jobs]
        /\ \A b \in U!Agents : b # a => job'[b] = job[b]
        /\ job'[a] = U!NoJob
        /\ job'[a].kind = "none" /\ job'[a].pc = "none" /\ job'[a].then = "none"
        /\ answers' \in Nat /\ UNCHANGED request
        /\ job[a].then = "tell" \/ answers > 0 => answers' > 0
        /\ reader' \in [UsbChannels -> UsbDevices \union {nobody}]
        /\ a # "main" => UNCHANGED reader
        BY <1>1, <1>4, <1>5, FinishedIs
  <2>2. /\ st' \in [UsbChannels -> {"DISCONNECTED", "WAITING", "CONNECTED", "DISCONNECTING"}]
        /\ helper' \in [UsbChannels -> {"none", "asking", "ok", "error"}]
        /\ \A x \in UsbChannels : x # c => st'[x] = st[x]
        /\ st'[c] = IF st[c] = "WAITING" THEN "DISCONNECTING" ELSE st[c]
        /\ st[c] # "CONNECTED"
    <3>1. CASE UNCHANGED <<st, helper>>
          BY <1>1, <1>5, <3>1 DEF UsbTypes
    <3>2. CASE /\ st[c] = "WAITING" /\ st' = [st EXCEPT ![c] = "DISCONNECTING"]
               /\ helper' = [helper EXCEPT ![c] = U!AfterCancel(c)]
      <4>1. U!AfterCancel(c) \in {"none", "asking", "ok", "error"}
            BY <1>1 DEF UsbTypes, U!AfterCancel
      <4> QED BY <1>1, <3>2, <4>1 DEF UsbTypes
    <3> QED BY <1>5, <3>1, <3>2
  <2>3. UsbTypes'
        BY <1>1, <1>5, <2>1, <2>2 DEF UsbTypes, U!Agents
  <2>4. UsbLocks'
        BY <1>1, <1>2, <1>5, <2>1 DEF UsbLocks, U!Agents
  <2>5. UsbCount'
    <3>1. {x \in UsbChannels : st'[x] = "CONNECTED"} = {x \in UsbChannels : st[x] = "CONNECTED"}
          BY <2>2
    <3> QED BY <1>1, <2>1, <3>1 DEF UsbInv, UsbCount, U!Agents
  <2>6. ASSUME NEW x \in UsbChannels PROVE UsbChannel(x)' /\ UsbGone(x)'
    <3>1. CASE x # c
          BY <1>1, <1>4, <1>5, <2>1, <2>2, <3>1, UsbConstants
          DEF UsbInv, UsbChannel, UsbGone, U!Agents
    <3>2. CASE x = c
      <4>1. UsbChannel(c) /\ UsbGone(c)
            BY <1>1 DEF UsbInv
      <4>2. UsbChannel(c)'
            BY <1>1, <1>5, <2>1, <2>2, <4>1 DEF UsbChannel
      <4> SUFFICES ASSUME c \in U!Listed, dev[c] # nobody, dev[c] \notin devices PROVE UsbGone(c)'
          BY <1>1, <1>5, <3>2, <4>2 DEF UsbGone
      <4>3. CASE a = "main"
        <5>1. st'[c] = "DISCONNECTED" \/ st'[c] = "DISCONNECTING"
              BY <1>1, <1>5, <2>2
        <5>2. \A b \in U!Agents : job'[b].kind = "open" /\ job'[b].chan = c => job'[b].pc = "start"
          <6> SUFFICES ASSUME NEW b \in U!Agents, job'[b].kind = "open", job'[b].chan = c
                       PROVE  job'[b].pc = "start"
              OBVIOUS
          <6>1. b # a /\ job'[b] = job[b] /\ UsbJob(b)
                BY <1>1, <2>1 DEF UsbInv
          <6> QED BY <1>3, <4>3, <6>1 DEF UsbJob
        <5> QED BY <2>1, <4>3, <5>1, <5>2 DEF UsbGone, U!Agents
      <4>4. CASE a # "main"
        <5>1. CASE job["main"].kind = "close" /\ job["main"].chan = c
              BY <1>1, <2>1, <4>4, <5>1, UsbConstants DEF UsbGone
        <5>2. CASE st[c] = "DISCONNECTING" /\ ~(job["main"].kind = "open" /\ job["main"].chan = c)
              BY <1>1, <2>1, <2>2, <4>4, <5>2, UsbConstants DEF UsbGone
        <5>3. CASE st[c] = "DISCONNECTED" /\ \A b \in U!Agents :
                     job[b].kind = "open" /\ job[b].chan = c => job[b].pc = "start"
              BY <1>1, <2>1, <2>2, <5>3 DEF UsbGone, U!Agents
        <5> QED BY <4>1, <5>1, <5>2, <5>3 DEF UsbGone
      <4> QED BY <4>3, <4>4
    <3> QED BY <3>1, <3>2
  <2>7. ASSUME NEW b \in U!Agents PROVE UsbJob(b)'
    <3>1. CASE b = a
          BY <2>1, <3>1 DEF UsbJob
    <3>2. CASE b # a
      <4>1. UsbJob(b) /\ job'[b] = job[b]
            BY <2>1, <3>2 DEF UsbInv
      <4>2. job[b].then = "error" => UNCHANGED reader
            BY <2>1, <3>2, <4>1 DEF UsbJob
      <4>3. \A x \in UsbChannels : /\ st[x] = "CONNECTED" => st'[x] = "CONNECTED"
                                   /\ st[x] = "DISCONNECTED" => st'[x] = "DISCONNECTED"
                                   /\ st[x] \in {"WAITING", "DISCONNECTING"} =>
                                        st'[x] \in {"WAITING", "DISCONNECTING"}
            BY <2>2
      <4> QED BY <1>1, <1>5, <4>1, <4>2, <4>3 DEF UsbJob
    <3> QED BY <3>1, <3>2
  <2>8. U!OneHolder' /\ U!Released'
    <3>1. \A x \in UsbChannels :
            st[x] \in {"WAITING", "DISCONNECTING"} => st'[x] \in {"WAITING", "DISCONNECTING"}
          BY <2>2
    <3> QED BY <1>1, <1>5, <2>1, <3>1 DEF UsbInv, UsbTypes, U!OneHolder, U!Released, U!Agents
  <2> QED BY <2>3, <2>4, <2>5, <2>6, <2>7, <2>8 DEF UsbInv, U!Agents
<1>6. CASE /\ st[c] = "CONNECTED" /\ lock' = [lock EXCEPT ![c] = a]
           /\ job' = [job EXCEPT ![a].pc = "store", ![a].saw = listeners]
           /\ UNCHANGED <<st, dev, helper, request, answers, reader>>
  <2>1. /\ job' \in [U!Agents -> U!Jobs]
        /\ \A b \in U!Agents : b # a => job'[b] = job[b]
        /\ job'[a].kind = "close" /\ job'[a].chan = c
        /\ job'[a].then = job[a].then /\ job'[a].pc = "store" /\ job'[a].saw = listeners
        BY <1>1, <1>4, <1>6, JobStores
  <2>2. /\ lock' \in [UsbChannels -> U!Agents \union {nobody}]
        /\ lock'[c] = a /\ \A x \in UsbChannels : x # c => lock'[x] = lock[x]
        BY <1>1, <1>6 DEF UsbTypes
  <2>3. UsbTypes'
        BY <1>1, <1>6, <2>1, <2>2 DEF UsbTypes, U!Agents
  <2>4. UsbLocks'
    <3>1. ASSUME NEW b \in U!Agents, job'[b].pc = "store", b = "main" => job'[b].kind = "close"
          PROVE  lock'[job'[b].chan] = b
      <4>1. CASE b = a
            BY <2>1, <2>2, <4>1
      <4>2. CASE b # a
        <5>1. UsbJob(b) /\ job[b] \in U!Jobs /\ job'[b] = job[b]
              BY <1>1, <2>1, <4>2 DEF UsbTypes, UsbInv
        <5>2. job[b].chan \in UsbChannels /\ lock[job[b].chan] = b
              BY <1>1, <3>1, <5>1, IdleJobs DEF UsbJob, UsbLocks
        <5>3. job[b].chan # c
              BY <1>1, <5>2, UsbConstants
        <5> QED BY <2>2, <5>1, <5>2, <5>3
      <4> QED BY <4>1, <4>2
    <3>2. ASSUME NEW x \in UsbChannels, lock'[x] # nobody
          PROVE  job'[lock'[x]].chan = x /\ job'[lock'[x]].pc = "store"
      <4>1. CASE x = c
            BY <2>1, <2>2, <4>1
      <4>2. CASE x # c
            BY <1>1, <1>2, <2>1, <2>2, <3>2, <4>2 DEF UsbLocks
      <4> QED BY <4>1, <4>2
    <3>3. ASSUME NEW b \in U!Agents, NEW e \in U!Agents, b # e,
                 job'[b].kind = "open", job'[e].kind = "open"
          PROVE  job'[b].chan # job'[e].chan
          BY <1>1, <2>1, <3>3 DEF UsbLocks
    <3> QED BY <3>1, <3>2, <3>3 DEF UsbLocks, U!Agents
  <2>5. UsbCount'
        BY <1>1, <1>6, <2>1 DEF UsbInv, UsbCount, U!Agents
  <2>6. ASSUME NEW x \in UsbChannels PROVE UsbChannel(x)' /\ UsbGone(x)'
    <3>1. UsbChannel(x) /\ UsbGone(x)
          BY DEF UsbInv
    <3>2. UsbChannel(x)'
          BY <1>1, <1>6, <3>1 DEF UsbChannel
    <3>3. \A b \in U!Agents : job'[b].kind = job[b].kind /\ job'[b].chan = job[b].chan
          BY <1>1, <1>4, <2>1
    <3>4. \A b \in U!Agents : job'[b].kind = "open" => job'[b].pc = job[b].pc
          BY <2>1
    <3>5. UsbGone(x)'
      <4> SUFFICES ASSUME x \in U!Listed, dev[x] # nobody, dev[x] \notin devices PROVE UsbGone(x)'
          BY <1>1, <1>6 DEF UsbGone
      <4>1. CASE job["main"].kind = "close" /\ job["main"].chan = x
            BY <3>3, <4>1, UsbConstants DEF UsbGone
      <4>2. CASE st[x] = "DISCONNECTING" /\ ~(job["main"].kind = "open" /\ job["main"].chan = x)
            BY <1>6, <3>3, <4>2, UsbConstants DEF UsbGone
      <4>3. CASE st[x] = "DISCONNECTED" /\ \A b \in U!Agents :
                   job[b].kind = "open" /\ job[b].chan = x => job[b].pc = "start"
            BY <1>6, <3>3, <3>4, <4>3 DEF UsbGone, U!Agents
      <4> QED BY <3>1, <4>1, <4>2, <4>3 DEF UsbGone
    <3> QED BY <3>2, <3>5
  <2>7. ASSUME NEW b \in U!Agents PROVE UsbJob(b)'
    <3>1. CASE b = a
          BY <1>1, <1>4, <1>6, <2>1, <3>1 DEF UsbJob
    <3>2. CASE b # a
          BY <1>1, <1>6, <2>1, <3>2 DEF UsbInv, UsbJob
    <3> QED BY <3>1, <3>2
  <2>8. U!OneHolder' /\ U!Released'
        BY <1>1, <1>6, <2>1 DEF UsbInv, U!OneHolder, U!Released, U!Agents
  <2> QED BY <2>3, <2>4, <2>5, <2>6, <2>7, <2>8 DEF UsbInv, U!Agents
<1> QED BY <1>0, <1>5, <1>6 DEF U!Close

LEMMA ClosedKeeps ==
  ASSUME UsbInv, NEW a \in U!Agents, U!Closed(a)
  PROVE  UsbInv'
<1> DEFINE c == job[a].chan
<1>1. /\ UsbTypes /\ UsbLocks /\ UsbJob(a) /\ job[a].kind = "close" /\ job[a].pc = "store"
      /\ c \in UsbChannels /\ lock[c] = a /\ st[c] = "CONNECTED"
      /\ UNCHANGED <<polkit, bus, devices, channels, life, helper, grab, redirecting>>
      /\ U!Listed' = U!Listed /\ U!Finished(a, c)
      BY ListedIs DEF UsbInv, U!Closed, UsbJob, UsbLocks
<1>2. ASSUME NEW b \in U!Agents, b # a
      PROVE  (job[b].kind = "open" => job[b].chan # c)
             /\ (job[b].pc = "store" => job[b].chan # c)
  <2>1. UsbJob(b) /\ job[b] \in U!Jobs
        BY <1>1 DEF UsbTypes, UsbInv
  <2>2. job[b].kind = "none" => job[b].pc = "none"
        BY <2>1, IdleJobs DEF UsbJob
  <2>3. job[b].kind = "open" => job[b].chan # c
        BY <1>1, <2>1 DEF UsbJob
  <2>4. job[b].kind = "close" /\ job[b].pc = "store" => job[b].chan # c
        BY <1>1, <1>2 DEF UsbLocks
  <2> QED BY <2>1, <2>2, <2>3, <2>4 DEF U!Jobs
<1>3. /\ listeners' = job[a].saw - 1 /\ raced' = (raced \/ U!Storing(a))
      /\ dev' = [dev EXCEPT ![c] = nobody] /\ st' = [st EXCEPT ![c] = "DISCONNECTED"]
      /\ lock' = [lock EXCEPT ![c] = nobody]
      BY DEF U!Closed
<1>4. /\ job' \in [U!Agents -> U!Jobs]
      /\ \A b \in U!Agents : b # a => job'[b] = job[b]
      /\ job'[a] = U!NoJob
      /\ job'[a].kind = "none" /\ job'[a].pc = "none" /\ job'[a].then = "none"
      /\ answers' \in Nat /\ UNCHANGED request
      /\ job[a].then = "tell" \/ answers > 0 => answers' > 0
      /\ reader' \in [UsbChannels -> UsbDevices \union {nobody}]
      /\ a # "main" => UNCHANGED reader
      BY <1>1, FinishedIs
<1> HIDE DEF c
<1>5. /\ st' \in [UsbChannels -> {"DISCONNECTED", "WAITING", "CONNECTED", "DISCONNECTING"}]
      /\ dev' \in [UsbChannels -> UsbDevices \union {nobody}]
      /\ lock' \in [UsbChannels -> U!Agents \union {nobody}]
      /\ st'[c] = "DISCONNECTED" /\ dev'[c] = nobody /\ lock'[c] = nobody
      /\ \A x \in UsbChannels : x # c => st'[x] = st[x] /\ dev'[x] = dev[x] /\ lock'[x] = lock[x]
      BY <1>1, <1>3 DEF UsbTypes
<1>6. UsbTypes'
  <2>1. job[a] \in U!Jobs
        BY <1>1 DEF UsbTypes
  <2>2. job[a].saw \in Int
        BY <2>1 DEF U!Jobs
  <2>3. listeners' \in Int
        BY <1>3, <2>2
  <2>4. raced' \in BOOLEAN
        BY <1>1, <1>3 DEF UsbTypes
  <2> QED BY <1>1, <1>4, <1>5, <2>3, <2>4 DEF UsbTypes, U!Agents
<1>7. UsbLocks'
  <2>1. ASSUME NEW b \in U!Agents, job'[b].pc = "store", b = "main" => job'[b].kind = "close"
        PROVE  lock'[job'[b].chan] = b
    <3>1. b # a
          BY <1>4, <2>1
    <3>2. UsbJob(b) /\ job[b] \in U!Jobs /\ job'[b] = job[b]
          BY <1>1, <1>4, <3>1 DEF UsbTypes, UsbInv
    <3>3. job[b].chan \in UsbChannels
          BY <2>1, <3>2, IdleJobs DEF UsbJob
    <3> QED BY <1>1, <1>2, <1>5, <2>1, <3>1, <3>2, <3>3 DEF UsbLocks
  <2>2. ASSUME NEW x \in UsbChannels, lock'[x] # nobody
        PROVE  job'[lock'[x]].chan = x /\ job'[lock'[x]].pc = "store"
    <3>1. lock'[x] = lock[x] /\ x # c
          BY <1>5, <2>2
    <3>2. lock[x] \in U!Agents /\ job[lock[x]].chan = x /\ job[lock[x]].pc = "store"
          BY <1>1, <2>2, <3>1 DEF UsbTypes, UsbLocks
    <3>3. lock[x] # a
          BY <3>1, <3>2 DEF c
    <3> QED BY <1>4, <3>1, <3>2, <3>3
  <2>3. ASSUME NEW b \in U!Agents, NEW e \in U!Agents, b # e,
               job'[b].kind = "open", job'[e].kind = "open"
        PROVE  job'[b].chan # job'[e].chan
        BY <1>1, <1>4, <2>3 DEF UsbLocks
  <2> QED BY <2>1, <2>2, <2>3 DEF UsbLocks, U!Agents
<1>8. UsbCount'
  <2>1. CASE raced' = FALSE
    <3> DEFINE X == {x \in UsbChannels : st[x] = "CONNECTED"}
               Y == {x \in UsbChannels : st'[x] = "CONNECTED"}
    <3>1. raced = FALSE /\ \A b \in U!Agents : b # a => job[b].pc # "store"
          BY <1>1, <1>3, <2>1 DEF U!Storing, UsbTypes
    <3>2. listeners = 1 + Cardinality(X) /\ job[a].saw = listeners
          BY <1>1, <3>1 DEF UsbInv, UsbCount
    <3>3. Y \subseteq UsbChannels /\ c \notin Y /\ X = Y \union {c}
          BY <1>1, <1>5
    <3> HIDE DEF X, Y
    <3>4. Cardinality(Y) \in Nat /\ Cardinality(X) = Cardinality(Y) + 1
          BY <1>1, <3>3, OneMore
    <3>5. listeners' = 1 + Cardinality(Y)
          BY <1>3, <3>2, <3>4
    <3>6. \A b \in U!Agents : job'[b].pc # "store"
          BY <1>4, <3>1
    <3> QED BY <3>5, <3>6 DEF UsbCount, Y, U!Agents
  <2>2. CASE raced' # FALSE
        BY <1>6, <2>2 DEF UsbCount, UsbTypes
  <2> QED BY <2>1, <2>2
<1>9. ASSUME NEW x \in UsbChannels PROVE UsbChannel(x)' /\ UsbGone(x)'
  <2>1. CASE x = c
        BY <1>1, <1>4, <1>5, <2>1 DEF UsbInv, UsbChannel, UsbGone
  <2>2. CASE x # c
    <3>1. job[a].chan # x
          BY <2>2 DEF c
    <3> QED BY <1>1, <1>4, <1>5, <2>2, <3>1, UsbConstants
            DEF UsbInv, UsbChannel, UsbGone, U!Agents
  <2> QED BY <2>1, <2>2
<1>10. ASSUME NEW b \in U!Agents PROVE UsbJob(b)'
  <2>1. CASE b = a
        BY <1>4, <2>1 DEF UsbJob
  <2>2. CASE b # a
    <3>1. UsbJob(b) /\ job'[b] = job[b]
          BY <1>4, <2>2 DEF UsbInv
    <3>2. job[b].then = "error" => UNCHANGED reader
          BY <1>4, <2>2, <3>1 DEF UsbJob
    <3> QED BY <1>1, <1>2, <1>5, <2>2, <3>1, <3>2 DEF UsbJob
  <2> QED BY <2>1, <2>2
<1>11. U!OneHolder'
  <2>1. \A x \in U!Listed : x \in UsbChannels
        BY <1>1, ListedIs, LenProperties, ElementOfSeq DEF UsbTypes
  <2> QED BY <1>1, <1>5, <2>1 DEF UsbInv, U!OneHolder
<1>12. U!Released'
       BY <1>1, <1>4, <1>5 DEF UsbInv, UsbTypes, U!Released, U!Agents
<1> QED BY <1>6, <1>7, <1>8, <1>9, <1>10, <1>11, <1>12 DEF UsbInv, U!Agents

LEMMA UsbNextKeeps == UsbInv /\ U!Next => UsbInv'
<1> SUFFICES ASSUME UsbInv, U!Next PROVE UsbInv'
    OBVIOUS
<1>1. CASE \E d \in UsbDevices : U!Plug(d) \/ U!Unplug(d)
      BY <1>1, PlugKeeps
<1>2. CASE \/ \E d \in UsbDevices : U!ConnectDevice(d) \/ U!AddDev(d)
           \/ \E c \in UsbChannels : U!ChannelNew(c)
      BY <1>2, ConnectsKeep
<1>3. CASE \/ \E d \in UsbDevices : U!DisconnectDevice(d) \/ U!DisconnectAsync(d) \/ U!RemoveDev(d)
           \/ \E c \in UsbChannels : U!DeviceError(c) \/ U!ChannelReset(c) \/ U!Dispose(c)
      BY <1>3, ClosesKeep
<1>4. CASE \/ \E c \in UsbChannels : U!HelperAnswers(c) \/ U!HandleMsgFails(c) \/ U!ChannelDestroy(c)
           \/ U!Tell
      BY <1>4, QuietKeep
<1>5. CASE \E c \in UsbChannels : U!OpenAclCb(c)
      BY <1>5, OpenAclKeeps
<1>6. CASE \E a \in U!Agents : U!Open(a) \/ U!Opened(a) \/ U!Close(a) \/ U!Closed(a)
      BY <1>6, OpenKeeps, OpenedKeeps, CloseKeeps, ClosedKeeps
<1> QED BY <1>1, <1>2, <1>3, <1>4, <1>5, <1>6 DEF U!Next

LEMMA UsbStill == UsbInv /\ UNCHANGED usbVars => UsbInv'
<1> SUFFICES ASSUME UsbInv, UNCHANGED usbVars PROVE UsbInv'
    OBVIOUS
<1>1. U!Listed' = U!Listed
      BY ListedIs DEF usbVars
<1>2. UsbTypes'
      BY DEF usbVars, UsbInv, UsbTypes, U!Agents
<1>3. UsbLocks' /\ UsbCount' /\ U!OneHolder' /\ U!Released'
      BY <1>1 DEF usbVars, UsbInv, UsbLocks, UsbCount, U!OneHolder, U!Released, U!Agents
<1>4. ASSUME NEW c \in UsbChannels PROVE UsbChannel(c)' /\ UsbGone(c)'
      BY <1>1 DEF usbVars, UsbInv, UsbChannel, UsbGone, U!Agents
<1>5. ASSUME NEW a \in U!Agents PROVE UsbJob(a)'
      BY DEF usbVars, UsbInv, UsbJob
<1> QED BY <1>2, <1>3, <1>4, <1>5 DEF UsbInv, U!Agents

LEMMA UsbStep == [MCNext]_mcvars => U!Next \/ UNCHANGED usbVars
<1> SUFFICES ASSUME MCNext PROVE U!Next \/ UNCHANGED usbVars
    BY DEF mcvars
<1>1. ASSUME NEW x \in {"smartcard", "webdav", "pipe", "pulse", "record", "playback"}, On(x)
      PROVE  UNCHANGED usbVars
      BY <1>1 DEF On
<1> QED BY <1>1 DEF MCNext, U!Next

\* USB redirection (usb-device-manager.c, channel-usbredir.c), for any channels, devices,
\* threads and numbers of requests and errors: whatever the main context and the threads
\* that connect and disconnect do at once, a device is given to one channel, one that was
\* unplugged is not kept open, an error disconnects the device it is of, the keyboard grab
\* and the redirecting flag are released, and, unless two agents raced for it, the count of
\* the event listeners is that of the manager and the connected channels.
THEOREM UsbSafeTheorem == MCSpec => []UsbSafe
<1>1. MCInit => UsbInv
      BY InitUsbInv DEF MCInit
<1>2. UsbInv /\ [MCNext]_mcvars => UsbInv'
      BY UsbStep, UsbNextKeeps, UsbStill
<1>3. UsbInv => UsbSafe
  <2> SUFFICES ASSUME UsbInv
               PROVE  U!OneHolder /\ U!GoneIsReleased /\ U!ErrorIsOwn /\ U!Released /\ U!CountExact
      BY DEF UsbSafe
  <2>1. \A x \in U!Listed : x \in UsbChannels
        BY ListedIs, LenProperties, ElementOfSeq DEF UsbInv, UsbTypes
  <2>2. U!GoneIsReleased
    <3> SUFFICES ASSUME job["main"] = U!NoJob, NEW c \in U!Listed, st[c] = "CONNECTED"
                 PROVE  dev[c] \in devices
        BY DEF U!GoneIsReleased, U!MainIdle
    <3>1. UsbChannel(c) /\ UsbGone(c)
          BY <2>1 DEF UsbInv
    <3> QED BY <3>1, IdleJobs DEF UsbChannel, UsbGone
  <2>3. U!ErrorIsOwn
    <3> SUFFICES ASSUME NEW c \in UsbChannels, lock[c] = "main", job["main"].then = "error"
                 PROVE  dev[c] = reader[c]
        BY DEF U!ErrorIsOwn
    <3>1. job["main"].chan = c /\ job["main"].pc = "store" /\ UsbJob("main") /\ UsbChannel(c)
          BY UsbConstants DEF UsbInv, UsbLocks
    <3> QED BY <3>1 DEF UsbJob, UsbChannel
  <2>4. U!CountExact
        BY UsbCardSame DEF UsbInv, UsbCount, U!CountExact
  <2> QED BY <2>2, <2>3, <2>4 DEF UsbInv
<1> QED BY <1>1, <1>2, <1>3, PTL DEF MCSpec

-----------------------------------------------------------------------------
(* Recording *)

\* Induction over the natural numbers, with sets in the place of predicates
LEMMA LeastOf ==
  ASSUME NEW T, T \subseteq Nat, T # {}
  PROVE  \E n \in T : \A m \in T : n <= m
<1>1. PICK O : O = OpToRel(<, Nat)
      OBVIOUS
<1>2. IsWellFoundedOn(O, Nat)
      BY <1>1, NatLessThanWellFounded
<1>3. PICK n \in T : \A m \in T : ~(<<m, n>> \in O)
      BY <1>2, WFMin
<1>4. \A m, k \in Nat : m < k => <<m, k>> \in O
      BY <1>1 DEF OpToRel
<1>5. \A m \in T : ~(m < n)
      BY <1>3, <1>4
<1>6. \A m \in T : n <= m
      BY <1>5
<1> QED BY <1>6

LEMMA Inductive ==
  ASSUME NEW T, 0 \in T, \A n \in Nat : n \in T => n + 1 \in T
  PROVE  Nat \subseteq T
<1> SUFFICES ASSUME Nat \ T # {} PROVE FALSE
    OBVIOUS
<1>1. PICK n \in Nat \ T : \A m \in Nat \ T : n <= m
      BY LeastOf
<1>2. n # 0 /\ n - 1 \in Nat /\ n - 1 \in T
      BY <1>1
<1> QED BY <1>1, <1>2

\* The bytes that follow the first g
Numbered(s, g) == s \in Seq(Nat) /\ \A i \in 1 .. Len(s) : s[i] = g + i

LEMMA NumberedConcat ==
  ASSUME NEW s, NEW r, NEW g \in Nat, Numbered(s, g), Numbered(r, g + Len(s))
  PROVE  Numbered(s \o r, g) /\ Len(s \o r) = Len(s) + Len(r)
<1>1. s \in Seq(Nat) /\ r \in Seq(Nat) /\ Len(s) \in Nat /\ Len(r) \in Nat
      BY LenProperties DEF Numbered
<1>2. /\ \A i \in 1 .. Len(s) : s[i] = g + i
      /\ \A i \in 1 .. Len(r) : r[i] = g + Len(s) + i
      BY DEF Numbered
<1>3. PICK u : u = s \o r
      OBVIOUS
<1>4. u \in Seq(Nat) /\ Len(u) = Len(s) + Len(r)
      BY <1>1, <1>3, ConcatProperties
<1>5. \A i \in 1 .. Len(s) + Len(r) : u[i] = IF i <= Len(s) THEN s[i] ELSE r[i - Len(s)]
      BY <1>1, <1>3, ConcatProperties, Zenon
<1>6. ASSUME NEW i \in 1 .. Len(u) PROVE u[i] = g + i
  <2>1. CASE i <= Len(s)
        BY <1>1, <1>2, <1>4, <1>5, <2>1
  <2>2. CASE ~(i <= Len(s))
    <3>1. i - Len(s) \in 1 .. Len(r)
          BY <1>1, <1>4, <2>2
    <3>2. u[i] = r[i - Len(s)]
          BY <1>4, <1>5, <2>2
    <3>3. r[i - Len(s)] = g + Len(s) + (i - Len(s))
          BY <1>2, <3>1
    <3> QED BY <1>1, <3>2, <3>3
  <2> QED BY <2>1, <2>2
<1> QED BY <1>3, <1>4, <1>6 DEF Numbered

\* The first n bytes, and those that follow them
LEMMA NumberedSplit ==
  ASSUME NEW s, NEW g \in Nat, Numbered(s, g), NEW n \in 0 .. Len(s)
  PROVE  /\ Numbered(SubSeq(s, 1, n), g) /\ Len(SubSeq(s, 1, n)) = n
         /\ Numbered(SubSeq(s, n + 1, Len(s)), g + n)
         /\ Len(SubSeq(s, n + 1, Len(s))) = Len(s) - n
<1>1. s \in Seq(Nat) /\ \A i \in 1 .. Len(s) : s[i] = g + i
      BY DEF Numbered
<1>2. PICK k \in Nat : k = Len(s)
      BY <1>1, LenProperties
<1>3. n \in Nat /\ n <= k /\ n + 1 \in Int /\ \A i \in 1 .. k : s[i] \in Nat
      BY <1>1, <1>2
<1>4. PICK a : a = SubSeq(s, 1, n)
      OBVIOUS
<1>5. PICK b : b = SubSeq(s, n + 1, k)
      OBVIOUS
<1>6. a \in Seq(Nat) /\ Len(a) = n /\ \A i \in 1 .. n : a[i] = s[i]
  <2>1. \A i \in 1 .. n : s[i] \in Nat
        BY <1>3
  <2>2. /\ a \in Seq(Nat) /\ Len(a) = IF 1 <= n THEN n - 1 + 1 ELSE 0
        /\ \A i \in 1 .. n - 1 + 1 : a[i] = s[1 + i - 1]
        BY <1>3, <1>4, <2>1, SubSeqProperties
  <2> QED BY <1>3, <2>2
<1>7. b \in Seq(Nat) /\ Len(b) = k - n /\ \A i \in 1 .. k - n : b[i] = s[n + i]
  <2>1. \A i \in n + 1 .. k : s[i] \in Nat
        BY <1>3
  <2>2. /\ b \in Seq(Nat) /\ Len(b) = IF n + 1 <= k THEN k - (n + 1) + 1 ELSE 0
        /\ \A i \in 1 .. k - (n + 1) + 1 : b[i] = s[(n + 1) + i - 1]
        BY <1>2, <1>3, <1>5, <2>1, SubSeqProperties
  <2> QED BY <1>2, <1>3, <2>2
<1>8. \A i \in 1 .. n : a[i] = g + i
  <2>1. \A i \in 1 .. n : i \in 1 .. k
        BY <1>3
  <2> QED BY <1>1, <1>2, <1>6, <2>1
<1>9. \A i \in 1 .. k - n : b[i] = g + n + i
      BY <1>1, <1>2, <1>3, <1>7
<1> QED BY <1>2, <1>4, <1>5, <1>6, <1>7, <1>8, <1>9 DEF Numbered

\* What send_data is cutting up: the frame that is put together begins after the first
\* g bytes, the data end with byte e, and the frames that are out are for the decoder.
Pieces == [part : Seq(Nat), data : Seq(Nat), out : Seq(Seq(Nat))]
Cutting(r, g, e) ==
  /\ r \in Pieces /\ g \in Nat /\ e \in Nat
  /\ Len(r.part) < Frame /\ Numbered(r.part, g) /\ Numbered(r.data, g + Len(r.part))
  /\ g + Len(r.part) + Len(r.data) = e
  /\ \A i \in 1 .. Len(r.out) : R!Sort(r.out[i]) = "data"

\* A turn of the loop takes all the data, or sends a frame.
LEMMA TurnKeeps ==
  ASSUME NEW r, NEW g, NEW e, Cutting(r, g, e), r.data # <<>>
  PROVE  \/ Cutting(R!Turn(r), g, e) /\ R!Turn(r).data = <<>> /\ R!Turn(r).out = r.out
         \/ /\ Cutting(R!Turn(r), g + Frame, e) /\ Len(R!Turn(r).data) < Len(r.data)
            /\ Len(R!Turn(r).out) = Len(r.out) + 1
<1>1. /\ r \in Pieces /\ g \in Nat /\ e \in Nat /\ Numbered(r.part, g)
      /\ Numbered(r.data, g + Len(r.part)) /\ g + Len(r.part) + Len(r.data) = e
      /\ \A i \in 1 .. Len(r.out) : R!Sort(r.out[i]) = "data"
      BY DEF Cutting
<1>2. PICK p \in Seq(Nat) : p = r.part
      BY <1>1 DEF Pieces
<1>3. PICK d \in Seq(Nat) : d = r.data
      BY <1>1 DEF Pieces
<1>4. PICK q \in Seq(Seq(Nat)) : q = r.out
      BY <1>1 DEF Pieces
<1>5. Frame \in Nat \ {0} /\ Len(p) \in Nat /\ Len(d) \in Nat /\ Len(d) > 0 /\ Len(p) < Frame
      BY <1>2, <1>3, LenProperties, EmptySeq, DevicesAssumption DEF R!RecordAssumption, Cutting
<1>50. PICK x \in Nat : x = Len(p)
      BY <1>5
<1>51. PICK y \in Nat : y = Len(d)
      BY <1>5
<1>52. x < Frame /\ g + x + y = e
      BY <1>1, <1>2, <1>3, <1>5, <1>50, <1>51
<1>6. PICK n : n = R!Min({Len(d), Frame - Len(p)})
      OBVIOUS
<1>7. n \in 1 .. Len(d) /\ n <= Frame - Len(p) /\ (n = Frame - Len(p) \/ n = Len(d))
  <2>1. \E m \in {Len(d), Frame - Len(p)} : \A k \in {Len(d), Frame - Len(p)} : m <= k
        BY <1>5
  <2>2. n \in {Len(d), Frame - Len(p)} /\ \A k \in {Len(d), Frame - Len(p)} : n <= k
        BY <1>6, <2>1 DEF R!Min
  <2> QED BY <1>5, <2>2
<1>8. PICK a : a = SubSeq(d, 1, n)
      OBVIOUS
<1>9. PICK b : b = SubSeq(d, n + 1, Len(d))
      OBVIOUS
<1>10. PICK f : f = p \o a
      OBVIOUS
<1>11. Numbered(p, g) /\ Numbered(d, g + Len(p)) /\ g + Len(p) \in Nat /\ n \in 0 .. Len(d)
      BY <1>1, <1>2, <1>3, <1>5, <1>7
<1>12. /\ Numbered(a, g + Len(p)) /\ Len(a) = n
       /\ Numbered(b, g + Len(p) + n) /\ Len(b) = Len(d) - n
      BY <1>8, <1>9, <1>11, NumberedSplit
<1>13. Numbered(f, g) /\ Len(f) = Len(p) + n
      BY <1>1, <1>10, <1>11, <1>12, NumberedConcat
<1>14. a \in Seq(Nat) /\ b \in Seq(Nat) /\ f \in Seq(Nat)
      BY <1>12, <1>13 DEF Numbered
<1>15. R!Turn(r) = IF n # Frame - Len(p) THEN [r EXCEPT !.part = f, !.data = <<>>]
                   ELSE [part |-> <<>>, data |-> b, out |-> Append(q, f)]
      BY <1>2, <1>3, <1>4, <1>6, <1>8, <1>9, <1>10 DEF R!Turn, R!Pieced, R!Fills
<1>16. PICK t : t = R!Turn(r)
      OBVIOUS
<1>17. CASE n # Frame - Len(p)
  <2>1. n = y /\ x + n < Frame /\ x + n \in Nat
        BY <1>5, <1>7, <1>50, <1>51, <1>17
  <2>12. Len(f) = x + n
        BY <1>13, <1>50
  <2>2. t = [r EXCEPT !.part = f, !.data = <<>>]
        BY <1>15, <1>16, <1>17
  <2>3. t \in Pieces /\ t.part = f /\ t.data = <<>> /\ t.out = r.out
        BY <1>1, <1>14, <2>2, EmptySeq DEF Pieces
  <2>4. Numbered(t.data, g + Len(f)) /\ Len(t.data) = 0
        BY <2>3, EmptySeq DEF Numbered
  <2>5. g + Len(f) + Len(t.data) = e
    <3>1. g + (x + n) + 0 = e
          BY <1>1, <1>52, <2>1
    <3> QED BY <2>4, <2>12, <3>1
  <2>6. Cutting(t, g, e)
        BY <1>1, <1>13, <2>1, <2>12, <2>3, <2>4, <2>5 DEF Cutting
  <2> QED BY <1>16, <2>3, <2>6
<1>18. CASE n = Frame - Len(p)
  <2>1. t = [part |-> <<>>, data |-> b, out |-> Append(q, f)]
        BY <1>15, <1>16, <1>18
  <2>2. Append(q, f) \in Seq(Seq(Nat)) /\ Len(Append(q, f)) = Len(q) + 1
        BY <1>14, AppendProperties
  <2>3. /\ t \in Pieces /\ t.part = <<>> /\ t.data = b /\ t.out = Append(q, f)
        /\ Len(t.part) = 0
        BY <1>14, <2>1, <2>2, EmptySeq DEF Pieces
  <2>4. Len(f) = Frame /\ g + Frame \in Nat /\ g + Len(p) + n = g + Frame
        BY <1>1, <1>5, <1>13, <1>18
  <2>5. Numbered(t.part, g + Frame)
        BY <2>3 DEF Numbered, Pieces
  <2>6. Numbered(t.data, g + Frame + Len(t.part))
    <3>1. g + Frame + Len(t.part) = g + Frame
          BY <1>1, <1>5, <2>3
    <3> QED BY <1>12, <2>3, <2>4, <3>1
  <2>7. g + Frame + Len(t.part) + Len(t.data) = e
    <3>1. n = Frame - x /\ n \in Nat /\ Len(t.data) = y - n
          BY <1>7, <1>12, <1>18, <1>50, <1>51, <2>3
    <3>2. g + Frame + 0 + (y - n) = e
          BY <1>1, <1>5, <1>52, <3>1
    <3> QED BY <2>3, <3>1, <3>2
  <2>8. R!Sort(f) = "data"
    <3>1. \A i \in DOMAIN f : f[i] = f[1] + i - 1
          BY <1>1, <1>5, <1>13, <1>14, <2>4 DEF Numbered
    <3> QED BY <2>4, <3>1 DEF R!Sort
  <2>9. \A i \in 1 .. Len(t.out) : R!Sort(t.out[i]) = "data"
    <3>1. ASSUME NEW i \in 1 .. Len(q) + 1 PROVE R!Sort(Append(q, f)[i]) = "data"
      <4>1. CASE i = Len(q) + 1
            BY <1>14, <2>8, <4>1, AppendProperties
      <4>2. CASE i # Len(q) + 1
        <5>1. i \in 1 .. Len(q) /\ i \in 1 .. Len(r.out)
              BY <1>4, <4>2, LenProperties
        <5>2. Append(q, f)[i] = q[i]
              BY <1>14, <5>1, AppendProperties
        <5> QED BY <1>1, <1>4, <5>1, <5>2
      <4> QED BY <4>1, <4>2
    <3> QED BY <2>2, <2>3, <3>1
  <2>10. Cutting(t, g + Frame, e)
        BY <1>1, <1>5, <2>3, <2>4, <2>5, <2>6, <2>7, <2>9 DEF Cutting
  <2>11. Len(t.data) < Len(r.data) /\ Len(t.out) = Len(r.out) + 1
        BY <1>3, <1>4, <1>5, <1>7, <1>12, <2>2, <2>3
  <2> QED BY <1>16, <2>10, <2>11
<1> QED BY <1>17, <1>18

\* After k turns of the m bytes at first: n frames are out.
Turned(x, g, e, m, k) ==
  \E n \in Nat : /\ Cutting(x, g + Frame * n, e) /\ Len(x.out) = n
                 /\ x.data = <<>> \/ Len(x.data) + k <= m

LEMMA TurnedOn ==
  ASSUME NEW x, NEW g \in Nat, NEW e, NEW m \in Nat, NEW k \in Nat, Turned(x, g, e, m, k)
  PROVE  Turned(R!Turn(x), g, e, m, k + 1) /\ R!Turn(x) \in Pieces
<1>1. PICK n \in Nat : /\ Cutting(x, g + Frame * n, e) /\ Len(x.out) = n
                       /\ x.data = <<>> \/ Len(x.data) + k <= m
      BY DEF Turned
<1>2. PICK h \in Nat : h = g + Frame * n
      BY DevicesAssumption DEF R!RecordAssumption
<1>3. PICK y : y = R!Turn(x)
      OBVIOUS
<1>4. CASE x.data = <<>>
  <2>1. y = x
        BY <1>3, <1>4 DEF R!Turn
  <2>2. x \in Pieces
        BY <1>1 DEF Cutting
  <2> QED BY <1>1, <1>3, <1>4, <2>1, <2>2 DEF Turned
<1>5. CASE x.data # <<>>
  <2>1. Cutting(x, h, e)
        BY <1>1, <1>2
  <2>2. \/ Cutting(y, h, e) /\ y.data = <<>> /\ y.out = x.out
        \/ Cutting(y, h + Frame, e) /\ Len(y.data) < Len(x.data) /\ Len(y.out) = Len(x.out) + 1
        BY <1>3, <1>5, <2>1, TurnKeeps
  <2>3. CASE Cutting(y, h, e) /\ y.data = <<>> /\ y.out = x.out
    <3>1. Cutting(y, g + Frame * n, e) /\ Len(y.out) = n
          BY <1>1, <1>2, <2>3
    <3>2. y \in Pieces
          BY <2>3 DEF Cutting
    <3> QED BY <1>3, <2>3, <3>1, <3>2 DEF Turned
  <2>4. CASE Cutting(y, h + Frame, e) /\ Len(y.data) < Len(x.data) /\ Len(y.out) = Len(x.out) + 1
    <3>1. h + Frame = g + Frame * (n + 1) /\ n + 1 \in Nat
          BY <1>2, DevicesAssumption DEF R!RecordAssumption
    <3>2. y \in Pieces /\ x \in Pieces
          BY <1>1, <2>4 DEF Cutting
    <3>3. Len(y.data) \in Nat /\ Len(x.data) \in Nat
          BY <3>2, LenProperties DEF Pieces
    <3>4. Len(y.data) + (k + 1) <= m
      <4>1. PICK a \in Nat : a = Len(x.data)
            BY <3>3
      <4>2. PICK b \in Nat : b = Len(y.data)
            BY <3>3
      <4>3. b < a /\ a + k <= m
            BY <1>1, <1>5, <2>4, <4>1, <4>2
      <4>4. b + (k + 1) <= m
            BY <4>3
      <4> QED BY <4>2, <4>4
    <3>5. Cutting(y, g + Frame * (n + 1), e) /\ Len(y.out) = n + 1
          BY <1>1, <2>4, <3>1
    <3> QED BY <1>3, <3>1, <3>2, <3>4, <3>5 DEF Turned
  <2> QED BY <2>2, <2>3, <2>4
<1> QED BY <1>4, <1>5

\* The loop ends with no data left, and what was cut up is in the frames and the rest.
LEMMA CutEnds ==
  ASSUME NEW r, NEW g \in Nat, NEW e, Cutting(r, g, e), r.out = <<>>
  PROVE  \E n \in Nat : /\ Cutting(R!Cut(r), g + Frame * n, e)
                        /\ R!Cut(r).data = <<>> /\ Len(R!Cut(r).out) = n
<1>1. PICK m \in Nat : m = Len(r.data)
      BY LenProperties DEF Cutting, Pieces
<1> DEFINE Turns(k, s) == /\ s[0] = r /\ \A i \in 1 .. k : s[i] = R!Turn(s[i - 1])
                          /\ Turned(s[k], g, e, m, k)
           Has(k) == \E s \in [0 .. k -> Pieces] : Turns(k, s)
           T == {k \in Nat : k <= m => Has(k)}
<1>2. r \in Pieces /\ Turned(r, g, e, m, 0)
  <2>1. g + Frame * 0 = g /\ Len(r.out) = 0
        BY EmptySeq, DevicesAssumption DEF R!RecordAssumption
  <2>2. Len(r.data) + 0 <= m
        BY <1>1
  <2> QED BY <2>1, <2>2 DEF Turned, Cutting
<1>3. 0 \in T
  <2>1. PICK s : s = [i \in 0 .. 0 |-> r]
        OBVIOUS
  <2>2. s \in [0 .. 0 -> Pieces] /\ s[0] = r
        BY <1>2, <2>1
  <2>3. Turns(0, s)
        BY <1>2, <2>2
  <2> QED BY <2>2, <2>3
<1>4. ASSUME NEW k \in Nat, k \in T PROVE k + 1 \in T
  <2> SUFFICES ASSUME k + 1 <= m PROVE Has(k + 1)
    <3> HIDE DEF Has
    <3> QED OBVIOUS
  <2>1. PICK s \in [0 .. k -> Pieces] : Turns(k, s)
        BY <1>4
  <2>2. PICK v \in Pieces : v = R!Turn(s[k]) /\ Turned(v, g, e, m, k + 1)
        BY <2>1, TurnedOn
  <2>3. PICK u : u = [i \in 0 .. k + 1 |-> IF i = k + 1 THEN v ELSE s[i]]
        OBVIOUS
  <2>4. u \in [0 .. k + 1 -> Pieces] /\ u[k + 1] = v /\ \A i \in 0 .. k : u[i] = s[i]
        BY <2>1, <2>3
  <2>5. u[0] = r
        BY <2>1, <2>4
  <2>6. ASSUME NEW i \in 1 .. k + 1 PROVE u[i] = R!Turn(u[i - 1])
    <3>1. i - 1 \in 0 .. k
          OBVIOUS
    <3>2. CASE i = k + 1
      <4>1. i - 1 = k
            BY <3>2
      <4> QED BY <2>2, <2>4, <3>1, <3>2, <4>1
    <3>3. CASE i # k + 1
      <4>1. i \in 1 .. k /\ i \in 0 .. k
            BY <3>3
      <4> QED BY <2>1, <2>4, <3>1, <4>1
    <3> QED BY <3>2, <3>3
  <2>7. Turned(u[k + 1], g, e, m, k + 1)
        BY <2>2, <2>4
  <2> QED BY <2>4, <2>5, <2>6, <2>7
<1>5. m \in T
  <2> HIDE DEF T
  <2> QED BY <1>3, <1>4, Inductive
<1>6. PICK s \in [0 .. m -> Pieces] : Turns(m, s)
      BY <1>5
<1>7. s = [i \in 0 .. m |-> IF i = 0 THEN r ELSE R!Turn(s[i - 1])]
  <2>1. \A i \in 0 .. m : s[i] = IF i = 0 THEN r ELSE R!Turn(s[i - 1])
        BY <1>6
  <2> QED BY <2>1
<1>8. PICK t : t = CHOOSE c : c = [i \in 0 .. m |-> IF i = 0 THEN r ELSE R!Turn(c[i - 1])]
      OBVIOUS
<1>9. t = [i \in 0 .. m |-> IF i = 0 THEN r ELSE R!Turn(t[i - 1])]
      BY <1>7, <1>8
<1>10. R!Cut(r) = t[m]
      BY <1>1, <1>8 DEF R!Cut
<1>11. \A k \in Nat : k <= m => t[k] = s[k]
  <2> DEFINE E == {k \in Nat : k <= m => t[k] = s[k]}
  <2>1. 0 \in E
        BY <1>6, <1>9
  <2>2. ASSUME NEW k \in Nat, k \in E PROVE k + 1 \in E
    <3> SUFFICES ASSUME k + 1 <= m PROVE t[k + 1] = s[k + 1]
        OBVIOUS
    <3>1. k + 1 \in 1 .. m /\ k + 1 \in 0 .. m /\ k + 1 # 0 /\ (k + 1) - 1 = k
          OBVIOUS
    <3>2. t[k + 1] = R!Turn(t[k])
          BY <1>9, <3>1
    <3>3. s[k + 1] = R!Turn(s[k])
          BY <1>6, <3>1
    <3>4. t[k] = s[k]
          BY <2>2
    <3> QED BY <3>2, <3>3, <3>4
  <2>3. Nat \subseteq E
    <3> HIDE DEF E
    <3> QED BY <2>1, <2>2, Inductive
  <2> QED BY <2>3
<1>12. R!Cut(r) = s[m]
      BY <1>10, <1>11
<1>13. PICK x : x = s[m]
      OBVIOUS
<1>14. PICK n \in Nat : /\ Cutting(x, g + Frame * n, e) /\ Len(x.out) = n
                        /\ x.data = <<>> \/ Len(x.data) + m <= m
  <2>1. Turned(x, g, e, m, m)
        BY <1>6, <1>13
  <2> QED BY <2>1 DEF Turned
<1>15. x.data = <<>>
  <2>1. x.data \in Seq(Nat)
        BY <1>14 DEF Cutting, Pieces
  <2>2. Len(x.data) \in Nat
        BY <2>1, LenProperties
  <2>3. x.data # <<>> => Len(x.data) = 0
        BY <1>14, <2>2
  <2> QED BY <2>1, <2>3, EmptySeq
<1> QED BY <1>12, <1>13, <1>14, <1>15

RecTypes ==
  /\ on \in BOOLEAN /\ rec_started \in BOOLEAN /\ posting \in BOOLEAN /\ blocked \in BOOLEAN
  /\ Len(last_frame) < Frame
  /\ playing \in {"null", "ready", "playing"} /\ samples \in Seq(Sizes) /\ rec_bus \in Nat
  /\ wire \in Seq({"mode", "mark", "data", "torn"}) /\ given \in Nat

\* n frames were sent, after the mode and the mark.
SentFrames(n) ==
  IF wire = <<>> THEN n = 0
  ELSE /\ Len(wire) = n + 2 /\ wire[1] = "mode" /\ wire[2] = "mark"
       /\ \A i \in 3 .. n + 2 : wire[i] = "data"

\* The bytes that were pulled are in the frames sent and in the one begun.
RecBytes ==
  \E n \in Nat : /\ SentFrames(n) /\ Numbered(last_frame, Frame * n)
                 /\ given = Frame * n + Len(last_frame)

\* What the pipeline does is done for a channel that was started, and a pipeline that
\* is stopped has nothing.
RecRuns ==
  /\ playing = "playing" => on = TRUE /\ (rec_started = FALSE => wire = <<>>)
  /\ playing # "playing" => samples = <<>> /\ posting = FALSE /\ rec_started = FALSE
  /\ blocked = TRUE => playing = "playing"
  /\ rec_started = TRUE => wire # <<>>

RecInv == RecTypes /\ RecBytes /\ RecRuns /\ R!SamplesAreFetched

\* A recording that begins anew
LEMMA Begun ==
  ASSUME wire' = <<>>, last_frame' = <<>>, given' = 0
  PROVE  RecBytes' /\ Len(last_frame') < Frame
<1>1. Frame \in Nat \ {0} /\ Frame * 0 = 0 /\ Len(last_frame') = 0 /\ last_frame' \in Seq(Nat)
      BY EmptySeq, DevicesAssumption DEF R!RecordAssumption
<1>2. SentFrames(0)' /\ Numbered(last_frame, Frame * 0)'
      BY <1>1 DEF SentFrames, Numbered
<1>3. given' = Frame * 0 + Len(last_frame')
      BY <1>1
<1> QED BY <1>1, <1>2, <1>3 DEF RecBytes

LEMMA InitRecInv == R!Init => RecInv
<1> SUFFICES ASSUME R!Init PROVE RecInv
    OBVIOUS
<1>1. wire = <<>> /\ last_frame = <<>> /\ given = 0 /\ samples = <<>>
      BY DEF R!Init
<1>2. Frame \in Nat \ {0} /\ Frame * 0 = 0 /\ Len(last_frame) = 0 /\ last_frame \in Seq(Nat)
      BY <1>1, EmptySeq, DevicesAssumption DEF R!RecordAssumption
<1>3. SentFrames(0) /\ Numbered(last_frame, Frame * 0) /\ given = Frame * 0 + Len(last_frame)
      BY <1>1, <1>2 DEF SentFrames, Numbered
<1>4. RecTypes
  <2>1. samples \in Seq(Sizes) /\ wire \in Seq({"mode", "mark", "data", "torn"})
        BY <1>1, EmptySeq
  <2>2. /\ on = FALSE /\ rec_started = FALSE /\ posting = FALSE /\ blocked = FALSE
        /\ playing = "null" /\ rec_bus = 0
        BY DEF R!Init
  <2>3. on \in BOOLEAN /\ rec_started \in BOOLEAN /\ posting \in BOOLEAN /\ blocked \in BOOLEAN
        BY <2>2
  <2>4. Len(last_frame) < Frame
        BY <1>2
  <2>5. playing \in {"null", "ready", "playing"} /\ rec_bus \in Nat /\ given \in Nat
        BY <1>1, <2>2
  <2> QED BY <2>1, <2>3, <2>4, <2>5 DEF RecTypes
<1>5. RecBytes
      BY <1>3 DEF RecBytes
<1>6. RecRuns /\ R!SamplesAreFetched
      BY DEF RecRuns, R!SamplesAreFetched, R!Init
<1> QED BY <1>4, <1>5, <1>6 DEF RecInv

\* The mode and the mark before the first frames, and frames after those already sent
LEMMA FramesFollow ==
  ASSUME wire \in Seq({"mode", "mark", "data", "torn"}), NEW n \in Nat, SentFrames(n),
         rec_started \in BOOLEAN, rec_started = TRUE => wire # <<>>,
         rec_started = FALSE => wire = <<>>,
         NEW d, NEW k \in Nat, d \in Seq({"data"}), Len(d) = k, wire' = wire \o R!Preamble \o d
  PROVE  /\ SentFrames(n + k)' /\ wire' # <<>>
         /\ wire' \in Seq({"mode", "mark", "data", "torn"})
<1> DEFINE M == {"mode", "mark", "data", "torn"}
<1>1. d \in Seq(M) /\ \A i \in 1 .. k : d[i] = "data"
  <2>1. \A i \in 1 .. k : d[i] \in {"data"}
        BY ElementOfSeq
  <2>2. d \in [1 .. k -> M]
        BY <2>1, LenProperties
  <2> QED BY <2>1, <2>2
<1>2. PICK h : h = wire \o R!Preamble
      OBVIOUS
<1>3. h \in Seq(M) /\ Len(h) = n + 2 /\ h[1] = "mode" /\ h[2] = "mark"
      /\ \A i \in 3 .. n + 2 : h[i] = "data"
  <2>1. CASE rec_started = TRUE
    <3>1. h = wire
          BY <1>2, <2>1, ConcatEmptySeq DEF R!Preamble
    <3> QED BY <2>1, <3>1 DEF SentFrames
  <2>2. CASE rec_started = FALSE
    <3>1. h = <<"mode", "mark">>
      <4>1. <<"mode", "mark">> \in Seq(M)
            OBVIOUS
      <4> QED BY <1>2, <2>2, <4>1, ConcatEmptySeq DEF R!Preamble
    <3>2. n = 0
          BY <2>2 DEF SentFrames
    <3> QED BY <3>1, <3>2
  <2> QED BY <2>1, <2>2
<1>4. PICK u : u = h \o d
      OBVIOUS
<1>5. /\ u \in Seq(M) /\ Len(u) = (n + 2) + k
      /\ \A i \in 1 .. (n + 2) + k : u[i] = IF i <= n + 2 THEN h[i] ELSE d[i - (n + 2)]
  <2>1. /\ u \in Seq(M) /\ Len(u) = Len(h) + Len(d)
        /\ \A i \in 1 .. Len(h) + Len(d) : u[i] = IF i <= Len(h) THEN h[i] ELSE d[i - Len(h)]
    <3>1. u \in Seq(M) /\ Len(u) = Len(h) + Len(d)
      <4> HIDE DEF M
      <4> QED BY <1>1, <1>3, <1>4, ConcatProperties
    <3>2. \A i \in 1 .. Len(h) + Len(d) : u[i] = IF i <= Len(h) THEN h[i] ELSE d[i - Len(h)]
      <4> HIDE DEF M
      <4> QED BY <1>1, <1>3, <1>4, ConcatProperties, Zenon
    <3> QED BY <3>1, <3>2
  <2> QED BY <1>3, <2>1
<1>6. Len(u) = (n + k) + 2 /\ u # <<>>
  <2>1. Len(u) # 0
        BY <1>5
  <2> QED BY <1>5, <2>1, EmptySeq
<1>7. u[1] = "mode" /\ u[2] = "mark"
      BY <1>3, <1>5
<1>8. ASSUME NEW i \in 3 .. (n + k) + 2 PROVE u[i] = "data"
  <2>1. CASE i <= n + 2
    <3>1. i \in 3 .. n + 2 /\ i \in 1 .. (n + 2) + k
          BY <2>1
    <3> QED BY <1>3, <1>5, <2>1, <3>1
  <2>2. CASE ~(i <= n + 2)
    <3>1. i - (n + 2) \in 1 .. k /\ i \in 1 .. (n + 2) + k
          BY <2>2
    <3> QED BY <1>1, <1>5, <2>2, <3>1
  <2> QED BY <2>1, <2>2
<1>9. wire' = u
      BY <1>2, <1>4
<1> QED BY <1>5, <1>6, <1>7, <1>8, <1>9 DEF SentFrames

LEMMA DataSent ==
  ASSUME RecInv, playing = "playing", NEW k \in Nat, R!SendData(k)
  PROVE  /\ RecBytes' /\ Len(last_frame') < Frame /\ given' \in Nat
         /\ wire' \in Seq({"mode", "mark", "data", "torn"}) /\ wire' # <<>>
         /\ rec_started' = TRUE /\ on' = TRUE
<1>1. /\ RecTypes /\ RecBytes /\ on = TRUE /\ (rec_started = FALSE => wire = <<>>)
      /\ (rec_started = TRUE => wire # <<>>)
      BY DEF RecInv, RecRuns
<1>2. PICK n \in Nat : /\ SentFrames(n) /\ Numbered(last_frame, Frame * n)
                       /\ given = Frame * n + Len(last_frame)
      BY <1>1 DEF RecBytes
<1>3. PICK g \in Nat : g = Frame * n
      BY DevicesAssumption DEF R!RecordAssumption
<1>4. PICK x : x = [i \in 1 .. k |-> given + i]
      OBVIOUS
<1>5. given \in Nat /\ Len(last_frame) < Frame /\ last_frame \in Seq(Nat)
      BY <1>1, <1>2 DEF RecTypes, Numbered
<1>6. x \in Seq(Nat) /\ Len(x) = k /\ \A i \in 1 .. k : x[i] = given + i
  <2>1. x \in [1 .. k -> Nat]
        BY <1>4, <1>5
  <2>2. x \in Seq(Nat) /\ Len(x) = k
        BY <2>1
  <2> QED BY <1>4, <2>2
<1>7. PICK r : r = [part |-> last_frame, out |-> <<>>, data |-> x]
      OBVIOUS
<1>8. Cutting(r, g, given + k) /\ r.out = <<>>
  <2>1. r.part = last_frame /\ r.out = <<>> /\ r.data = x
        BY <1>7
  <2>2. r \in Pieces
        BY <1>5, <1>6, <1>7, EmptySeq DEF Pieces
  <2>3. PICK p \in Nat : p = Len(last_frame)
        BY <1>5, LenProperties
  <2>4. given = g + p /\ given + k \in Nat /\ g + p + k = given + k
        BY <1>2, <1>3, <1>5, <2>3
  <2>5. Numbered(r.part, g) /\ Numbered(r.data, g + Len(r.part))
    <3>1. Numbered(x, given)
          BY <1>6 DEF Numbered
    <3> QED BY <1>2, <1>3, <2>1, <2>3, <2>4, <3>1
  <2>6. Len(r.part) < Frame /\ g + Len(r.part) + Len(r.data) = given + k
        BY <1>5, <1>6, <2>1, <2>3, <2>4
  <2>7. \A i \in 1 .. Len(r.out) : R!Sort(r.out[i]) = "data"
        BY <2>1, EmptySeq
  <2> QED BY <2>1, <2>2, <2>4, <2>5, <2>6, <2>7 DEF Cutting
<1>9. PICK c : c = R!Cut(r)
      OBVIOUS
<1>10. PICK m \in Nat : Cutting(c, g + Frame * m, given + k) /\ c.data = <<>> /\ Len(c.out) = m
      BY <1>8, <1>9, CutEnds
<1>11. PICK q \in Seq(Seq(Nat)) : q = c.out
      BY <1>10 DEF Cutting, Pieces
<1>12. PICK d : d = [i \in DOMAIN q |-> R!Sort(q[i])]
      OBVIOUS
<1>13. d \in Seq({"data"}) /\ Len(d) = m
  <2>1. DOMAIN q = 1 .. m /\ \A i \in 1 .. m : R!Sort(q[i]) = "data"
        BY <1>10, <1>11, LenProperties DEF Cutting
  <2>2. d \in [1 .. m -> {"data"}]
        BY <1>12, <2>1
  <2> QED BY <2>2
<1>14. /\ wire' = wire \o R!Preamble \o d /\ rec_started' = TRUE /\ given' = given + k
       /\ last_frame' = c.part /\ on' = on
  <2>1. /\ wire' = wire \o R!Preamble \o [i \in DOMAIN R!Cut(r).out |-> R!Sort(R!Cut(r).out[i])]
        /\ rec_started' = TRUE /\ given' = given + k /\ last_frame' = R!Cut(r).part /\ on' = on
        BY <1>1, <1>4, <1>7 DEF R!SendData
  <2>2. [i \in DOMAIN R!Cut(r).out |-> R!Sort(R!Cut(r).out[i])] = d
        BY <1>9, <1>11, <1>12
  <2> QED BY <1>9, <2>1, <2>2
<1>15. /\ SentFrames(n + m)' /\ wire' # <<>>
       /\ wire' \in Seq({"mode", "mark", "data", "torn"})
  <2>1. wire \in Seq({"mode", "mark", "data", "torn"}) /\ rec_started \in BOOLEAN
        BY <1>1 DEF RecTypes
  <2> QED BY <1>1, <1>2, <1>13, <1>14, <2>1, FramesFollow
<1>16. /\ Numbered(c.part, g + Frame * m) /\ Len(c.part) < Frame /\ g + Frame * m \in Nat
       /\ g + Frame * m + Len(c.part) + Len(c.data) = given + k
       BY <1>10 DEF Cutting
<1>17. g + Frame * m = Frame * (n + m) /\ n + m \in Nat /\ Len(c.data) = 0
       BY <1>3, <1>10, EmptySeq, DevicesAssumption DEF R!RecordAssumption
<1>18. given' = Frame * (n + m) + Len(last_frame')
  <2>1. PICK p \in Nat : p = Len(c.part)
        BY <1>16, LenProperties DEF Numbered
  <2> QED BY <1>14, <1>16, <1>17, <2>1
<1>19. Numbered(last_frame, Frame * (n + m))'
       BY <1>14, <1>16, <1>17 DEF Numbered
<1>20. RecBytes'
       BY <1>15, <1>17, <1>18, <1>19 DEF RecBytes
<1> QED BY <1>1, <1>5, <1>14, <1>15, <1>16, <1>20

LEMMA RecInvStep == RecInv /\ [R!Next]_(R!vars) => RecInv'
<1> SUFFICES ASSUME RecInv, [R!Next]_(R!vars) PROVE RecInv'
    OBVIOUS
<1>1. RecTypes /\ RecBytes /\ RecRuns /\ R!SamplesAreFetched
      BY DEF RecInv
<1>2. ASSUME UNCHANGED R!channel PROVE
        /\ RecBytes' /\ Len(last_frame') < Frame /\ given' \in Nat
        /\ wire' \in Seq({"mode", "mark", "data", "torn"})
        /\ on' \in BOOLEAN /\ rec_started' \in BOOLEAN
        /\ on' = on /\ rec_started' = rec_started /\ wire' = wire
  <2>1. /\ on' = on /\ rec_started' = rec_started /\ wire' = wire /\ given' = given
        /\ last_frame' = last_frame
        BY <1>2 DEF R!channel
  <2>2. RecBytes'
        BY <1>1, <2>1 DEF RecBytes, SentFrames
  <2> QED BY <1>1, <2>1, <2>2 DEF RecTypes
<1>3. CASE R!HandleStart
  <2>1. /\ wire' = <<>> /\ last_frame' = <<>> /\ given' = 0 /\ on' = TRUE
        /\ playing' = "playing" /\ playing # "playing" /\ rec_started' = rec_started
        /\ samples' = samples /\ posting' = posting /\ rec_bus' = rec_bus /\ blocked' = blocked
        BY <1>3 DEF R!HandleStart, R!sink
  <2>2. RecBytes' /\ Len(last_frame') < Frame
        BY <2>1, Begun
  <2>3. samples = <<>> /\ posting = FALSE /\ rec_started = FALSE /\ Len(samples) = 0
        BY <1>1, <2>1, EmptySeq DEF RecRuns
  <2>4. RecTypes'
        BY <1>1, <2>1, <2>2, EmptySeq DEF RecTypes
  <2>5. RecRuns'
        BY <2>1, <2>3 DEF RecRuns
  <2>6. R!SamplesAreFetched'
        BY <1>1, <2>1, <2>3 DEF R!SamplesAreFetched, RecTypes
  <2> QED BY <2>2, <2>4, <2>5, <2>6 DEF RecInv
<1>4. CASE R!HandleStop
  <2>1. /\ on' = on /\ last_frame' = last_frame /\ wire' = wire /\ given' = given
        /\ rec_bus' = rec_bus /\ blocked' = blocked /\ rec_started' = FALSE
        /\ playing' = "ready" /\ samples' = <<>> /\ posting' = FALSE /\ blocked = FALSE
        BY <1>1, <1>4 DEF R!HandleStop, R!Stopped, RecTypes
  <2>2. RecBytes'
        BY <1>1, <2>1 DEF RecBytes, SentFrames
  <2>3. RecTypes'
        BY <1>1, <2>1, EmptySeq DEF RecTypes
  <2>4. RecRuns' /\ R!SamplesAreFetched'
        BY <2>1 DEF RecRuns, R!SamplesAreFetched
  <2> QED BY <2>2, <2>3, <2>4 DEF RecInv
<1>5. CASE R!Reset
  <2>1. /\ on' = FALSE /\ last_frame' = <<>> /\ wire' = <<>> /\ given' = 0
        /\ rec_bus' = rec_bus /\ blocked' = blocked /\ rec_started' = FALSE
        /\ samples' = <<>> /\ posting' = FALSE /\ blocked = FALSE
        BY <1>1, <1>5 DEF R!Reset, R!Stopped, RecTypes
  <2>2. playing' \in {"null", "ready"}
        BY <1>1, <1>5 DEF R!Reset, R!Stopped, RecTypes
  <2>3. RecBytes' /\ Len(last_frame') < Frame
        BY <2>1, Begun
  <2>4. RecTypes'
        BY <1>1, <2>1, <2>2, <2>3, EmptySeq DEF RecTypes
  <2>5. RecRuns' /\ R!SamplesAreFetched'
        BY <2>1, <2>2 DEF RecRuns, R!SamplesAreFetched
  <2> QED BY <2>3, <2>4, <2>5 DEF RecInv
<1>6. CASE R!Sample
  <2>1. PICK k \in Sizes : samples' = Append(samples, k)
        BY <1>6 DEF R!Sample
  <2>2. /\ playing = "playing" /\ playing' = playing /\ posting = FALSE /\ posting' = TRUE
        /\ rec_bus' = rec_bus /\ blocked' = blocked /\ UNCHANGED R!channel
        BY <1>1, <1>6 DEF R!Sample, RecTypes
  <2>3. samples' \in Seq(Sizes) /\ Len(samples') = Len(samples) + 1 /\ Len(samples) \in Nat
        BY <1>1, <2>1, AppendProperties, LenProperties DEF RecTypes
  <2>4. RecTypes'
        BY <1>1, <1>2, <2>2, <2>3 DEF RecTypes
  <2>5. RecRuns'
        BY <1>1, <1>2, <2>2 DEF RecRuns
  <2>6. R!SamplesAreFetched'
        BY <1>1, <2>2, <2>3 DEF R!SamplesAreFetched, RecTypes
  <2> QED BY <1>2, <2>2, <2>4, <2>5, <2>6 DEF RecInv
<1>7. CASE R!record_new_buffer
  <2>1. /\ posting = TRUE /\ posting' = FALSE /\ rec_bus' = rec_bus + 1 /\ UNCHANGED R!channel
        /\ playing' = playing /\ samples' = samples /\ blocked' = blocked
        BY <1>1, <1>7 DEF R!record_new_buffer, RecTypes
  <2>2. RecTypes'
    <3>1. rec_bus \in Nat /\ rec_bus' = rec_bus + 1
          BY <1>1, <2>1 DEF RecTypes
    <3>2. rec_bus' \in Nat
          BY <3>1
    <3>3. posting' \in BOOLEAN
          BY <2>1
    <3> QED BY <1>1, <1>2, <2>1, <3>2, <3>3 DEF RecTypes
  <2>3. RecRuns'
        BY <1>1, <1>2, <2>1 DEF RecRuns
  <2>4. R!SamplesAreFetched'
    <3>1. Len(samples) \in Nat /\ rec_bus \in Nat
          BY <1>1, LenProperties DEF RecTypes
    <3> QED BY <1>1, <2>1, <3>1 DEF R!SamplesAreFetched
  <2> QED BY <1>2, <2>1, <2>2, <2>3, <2>4 DEF RecInv
\* A sample that is pulled is sent.
<1>8. ASSUME NEW z \in {0, 1}, playing = "playing", playing' = playing, samples # <<>>,
             R!SendData(Head(samples)), samples' = Tail(samples), posting' = posting,
             \/ z = 1 /\ rec_bus > 0 /\ rec_bus' = rec_bus - 1 /\ blocked' = blocked
             \/ z = 0 /\ rec_bus' = rec_bus /\ blocked = TRUE /\ blocked' = FALSE
      PROVE  RecInv'
  <2>1. /\ samples \in Seq(Sizes) /\ rec_bus \in Nat /\ posting \in BOOLEAN
        /\ blocked \in BOOLEAN /\ Sizes \subseteq Nat
        BY <1>1, DevicesAssumption DEF RecTypes, R!RecordAssumption
  <2>2. /\ Head(samples) \in Nat /\ samples' \in Seq(Sizes)
        /\ Len(samples') = Len(samples) - 1 /\ Len(samples) \in Nat
        BY <1>8, <2>1, HeadTailProperties, LenProperties
  <2>3. /\ RecBytes' /\ Len(last_frame') < Frame /\ given' \in Nat
        /\ wire' \in Seq({"mode", "mark", "data", "torn"}) /\ wire' # <<>>
        /\ rec_started' = TRUE /\ on' = TRUE
        BY <1>8, <2>2, DataSent
  <2>4. rec_bus' \in Nat /\ blocked' \in BOOLEAN /\ posting' \in BOOLEAN
    <3>1. rec_bus' \in Nat
      <4>1. rec_bus' = rec_bus \/ (rec_bus > 0 /\ rec_bus' = rec_bus - 1)
            BY <1>8
      <4> QED BY <2>1, <4>1
    <3>2. blocked' = blocked \/ blocked' = FALSE
          BY <1>8
    <3>3. blocked' \in BOOLEAN
          BY <2>1, <3>2
    <3>4. posting' \in BOOLEAN
          BY <1>8, <2>1
    <3> QED BY <3>1, <3>3, <3>4
  <2>5. on' \in BOOLEAN /\ rec_started' \in BOOLEAN
        BY <2>3
  <2>6. playing' \in {"null", "ready", "playing"}
        BY <1>8
  <2>7. RecTypes'
        BY <2>2, <2>3, <2>4, <2>5, <2>6 DEF RecTypes
  <2>8. RecRuns'
        BY <1>8, <2>3 DEF RecRuns
  <2>9. R!SamplesAreFetched'
    <3>1. PICK a \in Nat : a = Len(samples)
          BY <2>2
    <3>2. PICK b \in {0, 1} : b = IF posting THEN 1 ELSE 0
          BY <2>1
    <3>3. a <= rec_bus + b + (IF blocked THEN 1 ELSE 0)
          BY <1>1, <1>8, <3>1, <3>2 DEF R!SamplesAreFetched
    <3>4. a - 1 <= rec_bus' + b + (IF blocked' THEN 1 ELSE 0)
          BY <1>8, <2>1, <3>3
    <3> QED BY <1>8, <2>2, <3>1, <3>2, <3>4 DEF R!SamplesAreFetched
  <2> QED BY <2>3, <2>7, <2>8, <2>9 DEF RecInv
<1>9. CASE R!record_bus_cb
  <2>1. /\ blocked = FALSE /\ rec_bus > 0 /\ rec_bus' = rec_bus - 1
        /\ playing' = playing /\ posting' = posting
        BY <1>1, <1>9 DEF R!record_bus_cb, R!MessagesLeft, RecTypes
  <2>2. CASE playing # "playing" /\ UNCHANGED <<R!channel, samples, blocked>>
    <3>1. UNCHANGED R!channel /\ samples' = samples /\ blocked' = blocked
          BY <2>2
    <3>2. rec_bus' \in Nat
          BY <1>1, <2>1 DEF RecTypes
    <3>3. RecTypes'
          BY <1>1, <1>2, <2>1, <3>1, <3>2 DEF RecTypes
    <3>4. RecRuns' /\ R!SamplesAreFetched'
          BY <1>1, <1>2, <2>1, <2>2, <3>1 DEF RecRuns, R!SamplesAreFetched
    <3> QED BY <1>2, <3>1, <3>3, <3>4 DEF RecInv
  <2>3. CASE /\ playing = "playing" /\ samples # <<>> /\ R!SendData(Head(samples))
             /\ samples' = Tail(samples) /\ blocked' = blocked
        BY <1>8, <2>1, <2>3
  <2>4. CASE /\ playing = "playing" /\ samples = <<>> /\ blocked' = TRUE
             /\ UNCHANGED <<R!channel, samples>>
    <3>1. UNCHANGED R!channel /\ samples' = samples
          BY <2>4
    <3>2. rec_bus' \in Nat /\ Len(samples') = 0
          BY <1>1, <2>1, <2>4, EmptySeq DEF RecTypes
    <3>3. RecTypes'
          BY <1>1, <1>2, <2>1, <2>4, <3>1, <3>2 DEF RecTypes
    <3>4. RecRuns'
          BY <1>1, <1>2, <2>1, <2>4, <3>1 DEF RecRuns
    <3>5. R!SamplesAreFetched'
          BY <3>2, <2>1, <1>1 DEF R!SamplesAreFetched, RecTypes
    <3> QED BY <1>2, <3>1, <3>3, <3>4, <3>5 DEF RecInv
  <2> QED BY <1>9, <2>2, <2>3, <2>4 DEF R!record_bus_cb
<1>10. CASE R!PullEnds
  <2>1. /\ blocked = TRUE /\ blocked' = FALSE /\ samples # <<>> /\ R!SendData(Head(samples))
        /\ samples' = Tail(samples) /\ playing' = playing /\ posting' = posting
        /\ rec_bus' = rec_bus
        BY <1>1, <1>10 DEF R!PullEnds, RecTypes
  <2>2. playing = "playing"
        BY <1>1, <2>1 DEF RecRuns
  <2> QED BY <1>8, <2>1, <2>2
<1>11. CASE UNCHANGED R!vars
  <2>1. /\ UNCHANGED R!channel /\ playing' = playing /\ samples' = samples
        /\ posting' = posting /\ rec_bus' = rec_bus /\ blocked' = blocked
        BY <1>11 DEF R!vars, R!sink
  <2>2. RecTypes'
        BY <1>1, <1>2, <2>1 DEF RecTypes
  <2>3. RecRuns' /\ R!SamplesAreFetched'
        BY <1>1, <1>2, <2>1 DEF RecRuns, R!SamplesAreFetched
  <2> QED BY <1>2, <2>1, <2>2, <2>3 DEF RecInv
<1> QED BY <1>3, <1>4, <1>5, <1>6, <1>7, <1>9, <1>10, <1>11 DEF R!Next

LEMMA RecordStep == [MCNext]_mcvars => [R!Next]_(R!vars)
<1> SUFFICES ASSUME [MCNext]_mcvars PROVE [R!Next]_(R!vars)
    OBVIOUS
<1>1. UNCHANGED recordVars => UNCHANGED R!vars
      BY DEF recordVars, R!vars, R!channel, R!sink
<1>2. CASE UNCHANGED mcvars
      BY <1>1, <1>2 DEF mcvars
<1>3. CASE MCNext
  <2>1. ASSUME NEW x \in {"usb", "smartcard", "webdav", "pipe", "pulse", "playback"}, On(x)
        PROVE  UNCHANGED recordVars
        BY <2>1 DEF On
  <2> QED BY <1>1, <1>3, <2>1 DEF MCNext, R!Next
<1> QED BY <1>2, <1>3

LEMMA RecCardSame == ASSUME NEW X PROVE R!Cardinality(X) = Cardinality(X)
BY DEF R!Cardinality, Cardinality

\* Recording (spice_record_channel_send_data, record_bus_cb), for any size of a frame and
\* of the samples and any number of recordings: what is sent is the mode, a mark and then
\* every byte that was pulled, in whole frames and in order, with less than a frame held
\* back; and every sample in the sink has a message on the bus that will fetch it.
THEOREM RecordSafeTheorem == MCSpec => []RecordSafe
<1>1. MCInit => RecInv
      BY InitRecInv DEF MCInit
<1>2. RecInv /\ [MCNext]_mcvars => RecInv'
      BY RecordStep, RecInvStep
<1>3. RecInv => RecordSafe
  <2> SUFFICES ASSUME RecInv PROVE R!FramesAreWhole /\ R!MarkedFirst /\ R!SamplesAreFetched
      BY DEF RecordSafe
  <2>1. RecTypes /\ RecBytes /\ R!SamplesAreFetched
        BY DEF RecInv
  <2>2. PICK n \in Nat : /\ SentFrames(n) /\ Numbered(last_frame, Frame * n)
                         /\ given = Frame * n + Len(last_frame)
        BY <2>1 DEF RecBytes
  <2>3. PICK p \in Nat : p = Len(last_frame) /\ DOMAIN last_frame = 1 .. p
        BY <2>2, LenProperties DEF Numbered
  <2>4. PICK g \in Nat : g = Frame * n
        BY DevicesAssumption DEF R!RecordAssumption
  <2>5. DOMAIN wire = 1 .. Len(wire) /\ Len(wire) \in Nat
        BY <2>1, LenProperties DEF RecTypes
  <2>6. R!Whole
    <3>1. \A i \in 1 .. p : last_frame[i] = g + i /\ given - p + i = g + i
          BY <2>2, <2>3, <2>4 DEF Numbered
    <3>2. last_frame = [i \in 1 .. p |-> last_frame[i]]
          BY <2>2, <2>3 DEF Numbered
    <3>3. last_frame = [i \in 1 .. p |-> given - p + i]
          BY <3>1, <3>2
    <3> QED BY <2>3, <3>3 DEF R!Whole
  <2>7. /\ \A i \in DOMAIN wire : wire[i] # "torn"
        /\ Cardinality({i \in DOMAIN wire : wire[i] = "data"}) = n
    <3>1. CASE wire = <<>>
      <4>1. n = 0 /\ DOMAIN wire = {}
            BY <2>2, <3>1 DEF SentFrames
      <4>2. {i \in DOMAIN wire : wire[i] = "data"} = {}
            BY <4>1
      <4> QED BY <4>1, <4>2, FS_EmptySet
    <3>2. CASE wire # <<>>
      <4>1. /\ DOMAIN wire = 1 .. n + 2 /\ wire[1] = "mode" /\ wire[2] = "mark"
            /\ \A i \in 3 .. n + 2 : wire[i] = "data"
            BY <2>2, <2>5, <3>2 DEF SentFrames
      <4>2. \A i \in 1 .. n + 2 : i = 1 \/ i = 2 \/ i \in 3 .. n + 2
            OBVIOUS
      <4>3. {i \in DOMAIN wire : wire[i] = "data"} = 3 .. n + 2
            BY <4>1, <4>2
      <4>4. Cardinality(3 .. n + 2) = IF 3 > n + 2 THEN 0 ELSE (n + 2) - 3 + 1
        <5>1. n + 2 \in Int /\ 3 \in Int
              OBVIOUS
        <5> QED BY <5>1, FS_Interval
      <4>5. Cardinality(3 .. n + 2) = n
            BY <4>4
      <4>6. \A i \in DOMAIN wire : wire[i] # "torn"
            BY <4>1, <4>2
      <4> QED BY <4>3, <4>5, <4>6
    <3> QED BY <3>1, <3>2
  <2>8. given = Len(last_frame)
                + Frame * R!Cardinality({i \in DOMAIN wire : wire[i] = "data"})
    <3>1. given = p + Frame * n
          BY <2>2, <2>3, <2>4
    <3> QED BY <2>3, <2>7, <3>1, RecCardSame
  <2>9. R!FramesAreWhole
        BY <2>6, <2>7, <2>8 DEF R!FramesAreWhole
  <2>10. R!MarkedFirst
        BY <2>2, <2>5 DEF SentFrames, R!MarkedFirst
  <2> QED BY <2>1, <2>9, <2>10
<1> QED BY <1>1, <1>2, <1>3, PTL DEF MCSpec
=============================================================================
