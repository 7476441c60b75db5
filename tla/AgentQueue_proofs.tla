-------------------------- MODULE AgentQueue_proofs --------------------------
(* Why the client never sends a chunk the server did not allow, why the     *)
(* messages stay whole, and why no flush request is lost or answered early.*)
EXTENDS AgentQueue, SequenceTheorems, FiniteSetTheorems, TLAPS

(* The tokens the coroutine holds for the chunk it writes. *)
Held == IF out = None THEN 0 ELSE 1

(* A chunk is held only during a write, and the server's count covers the  *)
(* tokens and the chunk that is held.                                      *)
TokenInv ==
  /\ agent_tokens \in Nat /\ credit \in Int
  /\ pc # "writing" => out = None
  /\ agent_tokens + Held <= credit

LEMMA InitToken == ASSUME Init PROVE TokenInv
  BY DEF Init, TokenInv, Held, None

(* One step per action: those that touch neither the tokens nor the chunk  *)
(* only have to leave the coroutine outside of a write.                    *)
LEMMA StepToken == ASSUME TokenInv, [Next]_vars PROVE TokenInv'
<1> USE AgentQueueAssumption DEF TokenInv, Held
<1>1. CASE PushWoken BY <1>1 DEF PushWoken, Wakeup, MainRuns, srvVars
<1>2. CASE PushSilent BY <1>2 DEF PushSilent, srvVars
<1>3. CASE Reset BY <1>3 DEF Reset
<1>4. ASSUME NEW t \in Tasks, PushData(t) PROVE TokenInv'
  BY <1>4 DEF PushData, Wakeup, srvVars
<1>5. ASSUME NEW t \in Tasks, FlushAsync(t) PROVE TokenInv'
  BY <1>5 DEF FlushAsync, srvVars
<1>6. CASE Partial BY <1>6 DEF Partial, Running, srvVars
<1>7. CASE HandleToken
  <2>1. PICK n \in 1 .. MaxGrants : /\ agent_tokens' = agent_tokens + n
                                    /\ credit' = credit + n
    BY <1>7 DEF HandleToken
  <2>2. pc # "writing" /\ out' = out BY <1>7 DEF HandleToken, Reads, Running
  <2> QED BY <2>1, <2>2
<1>8. CASE SetTokens
  <2>1. PICK n \in 1 .. MaxGrants : agent_tokens' = n /\ credit' = n
    BY <1>8 DEF SetTokens, TakeTokens
  <2>2. pc # "writing" /\ out' = out BY <1>8 DEF SetTokens, Reads, Running
  <2> QED BY <2>1, <2>2
<1>9. CASE HandleConnected
  BY <1>9 DEF HandleConnected, Reads, Running, srvVars
<1>10. CASE HandleDisconnected
  BY <1>10 DEF HandleDisconnected, Reads, Running, srvVars
<1>11. CASE HandleAgentData
  BY <1>11 DEF HandleAgentData, Reads, Running, srvVars
<1>12. CASE AgentStart BY <1>12 DEF AgentStart, Running
<1>13. CASE AgentStopped BY <1>13 DEF AgentStopped, Running, srvVars
<1>14. CASE Updated BY <1>14 DEF Updated, Running, srvVars
<1>15. CASE HandleOther BY <1>15 DEF HandleOther, Running, srvVars
<1>16. CASE Iterate BY <1>16 DEF Iterate, srvVars
<1>17. CASE SendChunk
  <2>1. out = None /\ agent_tokens' = agent_tokens - 1 /\ agent_tokens > 0
    BY <1>17 DEF SendChunk, SpendToken
  <2>2. credit' = credit /\ pc' = "writing"
    BY <1>17 DEF SendChunk, srvVars
  <2> QED BY <2>1, <2>2
<1>18. CASE ChunkSent BY <1>18 DEF ChunkSent, Running
<1>19. CASE SendDone BY <1>19 DEF SendDone, srvVars
<1>20. CASE UNCHANGED vars BY <1>20 DEF vars, srvVars
<1> QED
  BY <1>1, <1>2, <1>3, <1>4, <1>5, <1>6, <1>7, <1>8, <1>9, <1>10, <1>11,
     <1>12, <1>13, <1>14, <1>15, <1>16, <1>17, <1>18, <1>19, <1>20
     DEF Next, Main, Server, Coroutine

(* Whatever the tasks, the callbacks and the server's messages, the chunks *)
(* sent since AGENT_START never exceed what the server allowed             *)
(* (agent_send_msg_queue, main_handle_agent_connected_tokens).             *)
THEOREM TokensHonouredTheorem == Spec => []TokensHonoured
<1>1. TokenInv => TokensHonoured BY DEF TokenInv, TokensHonoured, Held
<1> QED BY <1>1, InitToken, StepToken, PTL DEF Spec

-----------------------------------------------------------------------------
(* Why the stream is whole messages, and a flush that reports success is of *)
(* data that left the queue.                                                *)

(* The chunks s of messages up to the n-th, whole and in order *)
Ordered(s, n) ==
  /\ \A i \in 1 .. Len(s) : s[i].msg <= n
  /\ \A i \in 1 .. Len(s) - 1 : Follows(s[i], s[i + 1])
  /\ s # <<>> => s[1].part = 1 /\ s[Len(s)].last

InSeq(c, s) == \E i \in 1 .. Len(s) : s[i] = c

ChunkTypes ==
  /\ agent_msg_queue \in Seq(Chunk) /\ wire \in Seq(Chunk)
  /\ out \in Chunk \union {None} /\ pushes \in 0 .. MaxPushes
  /\ flush \in [Tasks -> {"none", "waiting", "ok", "failed"}]
  /\ mark \in [Tasks -> Chunk \union {None}]
  /\ caller \in Tasks \union {"loop"}
  /\ pc # "writing" => out = None

(* The tasks that wait are those with an entry, keyed by their last chunk.  *)
FlushInv ==
  /\ flushing = {<<mark[t], t>> : t \in Waiting}
  /\ \A t \in Tasks : /\ mark[t] # None => mark[t].msg <= pushes
                      /\ flush[t] = "waiting" => /\ mark[t] # None
                                                 /\ mark[t] = out \/ InSeq(mark[t], agent_msg_queue)
                      /\ flush[t] = "ok" /\ mark[t] # None
                           => mark[t] = out \/ InSeq(mark[t], wire)
  /\ \A t, u \in Tasks : mark[t] = mark[u] /\ mark[t] # None => t = u

(* While a task is between its wakeup and its flush request the coroutine   *)
(* sends or is parked, and nothing comes after the chunk the task queued.   *)
CallerInv ==
  caller # "loop" =>
    /\ pc \in Parked \/ (pc = "send" /\ ret = "idle")
    /\ flush[caller] = "none" /\ mark[caller] # None
    /\ Stream # <<>> /\ Stream[Len(Stream)] = mark[caller]

StreamInv == ChunkTypes /\ Ordered(Stream, pushes) /\ FlushInv /\ CallerInv

LEMMA NotAChunk == None \notin Chunk
BY DEF None, Chunk

LEMMA ChunkFields ==
  ASSUME NEW c \in Chunk
  PROVE  c.msg \in Nat /\ c.msg >= 1 /\ c.part \in Nat /\ c.last \in BOOLEAN
BY AgentQueueAssumption DEF Chunk

LEMMA LengthOf ==
  ASSUME NEW n \in Nat, NEW c \in [1 .. n -> Chunk]
  PROVE  c \in Seq(Chunk) /\ Len(c) = n
<1>1. c \in Seq(Chunk)
  BY SeqDef
<1>2. PICK l \in Nat : l = Len(c) /\ DOMAIN c = 1 .. l
  BY <1>1, LenProperties
<1>3. 1 .. l = 1 .. n
  BY <1>2
<1>4. CASE l < n
  <2>1. n \in 1 .. n /\ n \notin 1 .. l
    BY <1>4
  <2> QED BY <1>3, <2>1
<1>5. CASE n < l
  <2>1. l \in 1 .. l /\ l \notin 1 .. n
    BY <1>5
  <2> QED BY <1>3, <2>1
<1> QED BY <1>1, <1>2, <1>4, <1>5

LEMMA Concatenated ==
  ASSUME NEW s \in Seq(Chunk), NEW r \in Seq(Chunk), NEW n \in Nat, NEW m \in Nat, n <= m,
         Ordered(s, n), Ordered(r, m), r # <<>> => r[1].msg > n
  PROVE  /\ s \o r \in Seq(Chunk) /\ Ordered(s \o r, m)
         /\ r # <<>> => s \o r # <<>> /\ (s \o r)[Len(s \o r)] = r[Len(r)]
         /\ r = <<>> => s \o r = s
<1>1. /\ s \o r \in Seq(Chunk) /\ Len(s \o r) = Len(s) + Len(r)
      /\ \A i \in 1 .. Len(s) + Len(r) : (s \o r)[i] = IF i <= Len(s) THEN s[i] ELSE r[i - Len(s)]
  BY ConcatProperties
<1>2. PICK a \in Nat : a = Len(s)
  BY LenProperties
<1>3. PICK b \in Nat : b = Len(r)
  BY LenProperties
<1>4. PICK c : c = s \o r
  OBVIOUS
<1>5. /\ Len(c) = a + b
      /\ \A i \in 1 .. a : c[i] = s[i]
      /\ \A i \in 1 .. b : c[a + i] = r[i]
  BY <1>1, <1>2, <1>3, <1>4
<1>6. /\ \A i \in 1 .. a : s[i] \in Chunk /\ s[i].msg \in Nat
      /\ \A i \in 1 .. b : r[i] \in Chunk /\ r[i].msg \in Nat
  BY <1>2, <1>3, ElementOfSeq, ChunkFields
<1>7. (a = 0 <=> s = <<>>) /\ (b = 0 <=> r = <<>>)
  BY <1>2, <1>3, EmptySeq
<1>8. ASSUME NEW i \in 1 .. a + b PROVE c[i].msg <= m
  <2>1. CASE i <= a
    BY <1>2, <1>5, <1>6, <2>1 DEF Ordered
  <2>2. CASE i > a
    <3>1. PICK j \in 1 .. b : i = a + j
      BY <2>2
    <3> QED BY <1>3, <1>5, <3>1 DEF Ordered
  <2> QED BY <2>1, <2>2
<1>9. ASSUME NEW i \in 1 .. (a + b) - 1 PROVE Follows(c[i], c[i + 1])
  <2>1. CASE i < a
    <3>1. i \in 1 .. a - 1 /\ i \in 1 .. a /\ i + 1 \in 1 .. a
      BY <2>1
    <3> QED BY <1>2, <1>5, <3>1 DEF Ordered
  <2>2. CASE i = a
    <3>1. a \in 1 .. a /\ 1 \in 1 .. b /\ s # <<>> /\ r # <<>>
      BY <1>7, <2>2
    <3>2. c[i] = s[a] /\ c[i + 1] = r[1]
      BY <1>5, <2>2, <3>1
    <3>3. s[a].last /\ s[a].msg <= n /\ r[1].part = 1 /\ r[1].msg > n
      BY <1>2, <3>1 DEF Ordered
    <3>4. r[1].msg > s[a].msg
      BY <1>6, <3>1, <3>3
    <3> QED BY <3>2, <3>3, <3>4 DEF Follows
  <2>3. CASE i > a
    <3>1. PICK j \in 1 .. b - 1 : i = a + j
      BY <2>3
    <3>2. j \in 1 .. b /\ j + 1 \in 1 .. b /\ i + 1 = a + (j + 1)
      BY <3>1
    <3>3. c[i] = r[j] /\ c[i + 1] = r[j + 1]
      BY <1>5, <3>1, <3>2
    <3> QED BY <1>3, <3>1, <3>3 DEF Ordered
  <2> QED BY <2>1, <2>2, <2>3
<1>10. c # <<>> => c[1].part = 1 /\ c[Len(c)].last
  <2> SUFFICES ASSUME c # <<>> PROVE c[1].part = 1 /\ c[a + b].last
    BY <1>5
  <2>1. a + b # 0
    BY <1>1, <1>4, <1>5, EmptySeq
  <2>2. c[1].part = 1
    <3>1. CASE a > 0
      BY <1>2, <1>5, <1>7, <3>1 DEF Ordered
    <3>2. CASE a = 0
      <4>1. 1 \in 1 .. b /\ c[1] = r[1]
        BY <1>5, <2>1, <3>2
      <4> QED BY <1>7, <4>1 DEF Ordered
    <3> QED BY <3>1, <3>2
  <2>3. c[a + b].last
    <3>1. CASE b > 0
      BY <1>3, <1>5, <1>7, <3>1 DEF Ordered
    <3>2. CASE b = 0
      <4>1. a + b = a /\ a \in 1 .. a
        BY <2>1, <3>2
      <4> QED BY <1>2, <1>5, <1>7, <2>1, <3>2, <4>1 DEF Ordered
    <3> QED BY <3>1, <3>2
  <2> QED BY <2>2, <2>3
<1>11. Ordered(c, m)
  BY <1>5, <1>8, <1>9, <1>10 DEF Ordered
<1>12. r # <<>> => c # <<>> /\ c[Len(c)] = r[Len(r)]
  <2> SUFFICES ASSUME r # <<>> PROVE c # <<>> /\ c[Len(c)] = r[Len(r)]
    OBVIOUS
  <2>1. b \in 1 .. b /\ a + b # 0
    BY <1>7
  <2> QED BY <1>3, <1>5, <2>1, EmptySeq
<1>13. r = <<>> => c = s
  BY <1>4, ConcatEmptySeq
<1> QED BY <1>1, <1>4, <1>11, <1>12, <1>13

LEMMA NoChunks == ASSUME NEW n PROVE <<>> \in Seq(Chunk) /\ Ordered(<<>>, n)
<1>1. <<>> \in Seq(Chunk) /\ Len(<<>>) = 0
  BY EmptySeq
<1> QED BY <1>1 DEF Ordered

LEMMA ChunksOfOrdered ==
  ASSUME NEW m \in 1 .. MaxPushes, NEW n \in 1 .. MaxChunks
  PROVE  /\ ChunksOf(m, n) \in Seq(Chunk) /\ Ordered(ChunksOf(m, n), m)
         /\ ChunksOf(m, n) # <<>> /\ ChunksOf(m, n)[1].msg = m
         /\ ChunksOf(m, n)[Len(ChunksOf(m, n))] = [msg |-> m, part |-> n, last |-> TRUE]
<1> DEFINE e(k) == [msg |-> m, part |-> k, last |-> k = n]
<1>1. n \in Nat /\ m \in Nat
  BY AgentQueueAssumption
<1>2. \A k \in 1 .. n : e(k) \in Chunk /\ e(k).msg = m /\ e(k).part = k /\ (e(k).last <=> k = n)
  <2> TAKE k \in 1 .. n
  <2>1. PICK b \in BOOLEAN : b <=> k = n
    OBVIOUS
  <2>2. b = (k = n)
    BY <2>1
  <2>3. PICK x : x = [msg |-> m, part |-> k, last |-> b]
    OBVIOUS
  <2>4. x \in Chunk /\ x.msg = m /\ x.part = k /\ x.last = b
    BY <2>3, AgentQueueAssumption DEF Chunk
  <2>5. x = e(k)
    BY <2>2, <2>3
  <2> QED BY <2>1, <2>4, <2>5
<1>3. PICK c : c = ChunksOf(m, n)
  OBVIOUS
<1>4. c = [k \in 1 .. n |-> e(k)]
  BY <1>3 DEF ChunksOf
<1>5. c \in Seq(Chunk) /\ Len(c) = n
  <2>1. c \in [1 .. n -> Chunk]
    BY <1>2, <1>4
  <2> QED BY <1>1, <2>1, LengthOf
<1>6. \A k \in 1 .. n : c[k] = e(k)
  BY <1>4
<1>7. e(n) = [msg |-> m, part |-> n, last |-> TRUE]
  OBVIOUS
<1> HIDE DEF e
<1>8. Ordered(c, m)
  <2>1. \A i \in 1 .. n : c[i].msg <= m
    BY <1>1, <1>2, <1>6
  <2>2. \A i \in 1 .. n - 1 : Follows(c[i], c[i + 1])
    <3> TAKE i \in 1 .. n - 1
    <3>1. i \in 1 .. n /\ i + 1 \in 1 .. n /\ i # n
      BY <1>1
    <3> QED BY <1>2, <1>6, <3>1 DEF Follows
  <2>3. c[1].part = 1 /\ c[n].last
    <3>1. 1 \in 1 .. n /\ n \in 1 .. n
      BY <1>1
    <3> QED BY <1>2, <1>6, <3>1
  <2> QED BY <1>5, <2>1, <2>2, <2>3 DEF Ordered
<1>9. c # <<>> /\ c[1].msg = m /\ c[Len(c)] = e(n)
  <2>1. 1 \in 1 .. n /\ n \in 1 .. n
    BY <1>1
  <2> QED BY <1>2, <1>5, <1>6, <2>1, EmptySeq
<1> QED BY <1>3, <1>5, <1>7, <1>8, <1>9

LEMMA StatusesOrdered ==
  ASSUME pushes \in 0 .. MaxPushes, NEW k \in 0 .. MaxPushes - pushes
  PROVE  /\ Statuses(k) \in Seq(Chunk) /\ Ordered(Statuses(k), pushes + k)
         /\ Statuses(k) # <<>> => Statuses(k)[1].msg > pushes
<1> DEFINE e(i) == [msg |-> pushes + i, part |-> 1, last |-> TRUE]
<1>1. k \in Nat /\ pushes \in Nat
  BY AgentQueueAssumption
<1>2. \A i \in 1 .. k : e(i) \in Chunk /\ e(i).msg = pushes + i /\ e(i).part = 1 /\ e(i).last = TRUE
  BY AgentQueueAssumption DEF Chunk
<1>3. PICK c : c = Statuses(k)
  OBVIOUS
<1>4. c = [i \in 1 .. k |-> e(i)]
  BY <1>3 DEF Statuses
<1>5. c \in Seq(Chunk) /\ Len(c) = k
  <2>1. c \in [1 .. k -> Chunk]
    BY <1>2, <1>4
  <2> QED BY <1>1, <2>1, LengthOf
<1>6. \A i \in 1 .. k : c[i] = e(i)
  BY <1>4
<1> HIDE DEF e
<1>7. \A i \in 1 .. k : c[i].msg = pushes + i /\ c[i].part = 1 /\ c[i].last = TRUE
  BY <1>2, <1>6
<1>8. c # <<>> => 1 \in 1 .. k /\ k \in 1 .. k
  <2>1. c # <<>> => k # 0
    BY <1>5, EmptySeq
  <2> QED BY <1>1, <2>1
<1>9. \A i \in 1 .. k : c[i].msg <= pushes + k
  BY <1>1, <1>7
<1>10. \A i \in 1 .. k - 1 : Follows(c[i], c[i + 1])
  <2> TAKE i \in 1 .. k - 1
  <2>1. i \in 1 .. k /\ i + 1 \in 1 .. k
    BY <1>1
  <2>2. c[i + 1].msg > c[i].msg
    BY <1>1, <1>7, <2>1
  <2> QED BY <1>7, <2>1, <2>2 DEF Follows
<1>11. Ordered(c, pushes + k)
  BY <1>5, <1>7, <1>8, <1>9, <1>10 DEF Ordered
<1>12. c # <<>> => c[1].msg > pushes
  BY <1>1, <1>7, <1>8
<1> QED BY <1>3, <1>5, <1>11, <1>12

(* What precedes the queue in the stream *)
Written == wire \o (IF out = None THEN <<>> ELSE <<out>>)

LEMMA WrittenTyped == ASSUME ChunkTypes PROVE Written \in Seq(Chunk) /\ Stream = Written \o agent_msg_queue
<1>1. PICK x : x = IF out = None THEN <<>> ELSE <<out>>
  OBVIOUS
<1>2. x \in Seq(Chunk)
  <2>1. CASE out = None
    BY <1>1, <2>1, EmptySeq
  <2>2. CASE out # None
    <3>1. out \in Chunk
      BY <2>2 DEF ChunkTypes
    <3> QED BY <1>1, <2>2, <3>1
  <2> QED BY <2>1, <2>2
<1>3. wire \in Seq(Chunk)
  BY DEF ChunkTypes
<1>4. Written = wire \o x
  BY <1>1 DEF Written
<1>5. Written \in Seq(Chunk)
  BY <1>2, <1>3, <1>4, ConcatProperties
<1>6. Stream = Written \o agent_msg_queue
  BY DEF Stream, Written
<1> QED BY <1>5, <1>6

(* A message that is queued, or several *)
LEMMA Queueing ==
  ASSUME StreamInv, NEW r \in Seq(Chunk), pushes' \in pushes .. MaxPushes,
         Ordered(r, pushes'), r # <<>> => r[1].msg > pushes,
         agent_msg_queue' = agent_msg_queue \o r, Written' = Written
  PROVE  /\ agent_msg_queue' \in Seq(Chunk) /\ pushes' \in 0 .. MaxPushes /\ pushes <= pushes'
         /\ Ordered(Stream', pushes')
         /\ r # <<>> => Stream' # <<>> /\ Stream'[Len(Stream')] = r[Len(r)]
         /\ r = <<>> => Stream' = Stream
         /\ \A c : InSeq(c, agent_msg_queue) => InSeq(c, agent_msg_queue')
<1>1. /\ agent_msg_queue \in Seq(Chunk) /\ Written \in Seq(Chunk) /\ pushes \in Nat
      /\ Stream = Written \o agent_msg_queue /\ Ordered(Stream, pushes) /\ MaxPushes \in Nat
      /\ Stream \in Seq(Chunk)
  <2>1. agent_msg_queue \in Seq(Chunk) /\ Written \in Seq(Chunk) /\ Stream = Written \o agent_msg_queue
    BY WrittenTyped DEF StreamInv, ChunkTypes
  <2> QED BY <2>1, ConcatProperties, AgentQueueAssumption DEF StreamInv, ChunkTypes
<1>2. PICK m \in Nat : m = pushes' /\ pushes <= m /\ m <= MaxPushes
  BY <1>1
<1>3. Stream' = Written \o (agent_msg_queue \o r)
  <2>1. Stream' = Written' \o agent_msg_queue'
    BY DEF Stream, Written
  <2>2. Written' = Written
    OBVIOUS
  <2> QED BY <2>1, <2>2
<1>4. Stream' = Stream \o r
  <2>1. r \in Seq(Chunk)
    OBVIOUS
  <2>2. (Written \o agent_msg_queue) \o r = Written \o (agent_msg_queue \o r)
    <3>1. PICK a \in Seq(Chunk) : a = Written
      BY <1>1
    <3>2. PICK q \in Seq(Chunk) : q = agent_msg_queue
      BY <1>1
    <3>3. (a \o q) \o r = a \o (q \o r)
      OBVIOUS
    <3> QED BY <3>1, <3>2, <3>3
  <2>3. Stream = Written \o agent_msg_queue
    BY <1>1
  <2> QED BY <1>3, <2>2, <2>3
<1>5. /\ Ordered(Stream \o r, m)
      /\ r # <<>> => Stream \o r # <<>> /\ (Stream \o r)[Len(Stream \o r)] = r[Len(r)]
      /\ r = <<>> => Stream \o r = Stream
  BY <1>1, <1>2, Concatenated
<1>6. agent_msg_queue' \in Seq(Chunk)
  BY <1>1, ConcatProperties
<1>7. ASSUME NEW c, InSeq(c, agent_msg_queue) PROVE InSeq(c, agent_msg_queue')
  <2>1. PICK i \in 1 .. Len(agent_msg_queue) : agent_msg_queue[i] = c
    BY <1>7 DEF InSeq
  <2>2. Len(agent_msg_queue) \in Nat /\ Len(r) \in Nat
    BY <1>1, LenProperties
  <2>3. i \in 1 .. Len(agent_msg_queue) + Len(r) /\ i <= Len(agent_msg_queue)
    BY <2>2
  <2>4. Len(agent_msg_queue') = Len(agent_msg_queue) + Len(r) /\ agent_msg_queue'[i] = c
    BY <1>1, <2>1, <2>3, ConcatProperties
  <2> QED BY <2>3, <2>4 DEF InSeq
<1>8. Ordered(Stream', pushes')
  BY <1>2, <1>4, <1>5
<1>9. r # <<>> => Stream' # <<>> /\ Stream'[Len(Stream')] = r[Len(r)]
  BY <1>4, <1>5
<1>10. pushes' \in 0 .. MaxPushes /\ pushes <= pushes'
  BY <1>1, <1>2
<1> QED BY <1>4, <1>5, <1>6, <1>7, <1>8, <1>9, <1>10

(* One message, agent_msg_queue_many *)
LEMMA QueueOne ==
  ASSUME StreamInv, NEW n \in 1 .. MaxChunks, Queue(n), UNCHANGED <<wire, out>>
  PROVE  /\ agent_msg_queue' \in Seq(Chunk) /\ pushes' \in 0 .. MaxPushes /\ pushes' = pushes + 1
         /\ Ordered(Stream', pushes') /\ Stream' # <<>>
         /\ Stream'[Len(Stream')] = [msg |-> pushes + 1, part |-> n, last |-> TRUE]
         /\ [msg |-> pushes + 1, part |-> n, last |-> TRUE] \in Chunk
         /\ InSeq([msg |-> pushes + 1, part |-> n, last |-> TRUE], agent_msg_queue')
         /\ \A c : InSeq(c, agent_msg_queue) => InSeq(c, agent_msg_queue')
<1>1. /\ pushes + 1 \in 1 .. MaxPushes /\ pushes' = pushes + 1 /\ pushes \in Nat
      /\ agent_msg_queue' = agent_msg_queue \o ChunksOf(pushes + 1, n)
  BY AgentQueueAssumption DEF Queue, StreamInv, ChunkTypes
<1>2. PICK m \in 1 .. MaxPushes : m = pushes + 1
  BY <1>1
<1>3. PICK r : r = ChunksOf(m, n)
  OBVIOUS
<1>4. PICK x : x = [msg |-> m, part |-> n, last |-> TRUE]
  OBVIOUS
<1>5. /\ r \in Seq(Chunk) /\ Ordered(r, m) /\ r # <<>> /\ r[1].msg = m /\ r[Len(r)] = x
  BY <1>3, <1>4, ChunksOfOrdered
<1>6. r[1].msg > pushes /\ pushes' \in pushes .. MaxPushes
  BY <1>1, <1>2, <1>5, AgentQueueAssumption
<1>7. /\ agent_msg_queue' \in Seq(Chunk) /\ pushes' \in 0 .. MaxPushes
      /\ Ordered(Stream', pushes') /\ Stream' # <<>> /\ Stream'[Len(Stream')] = r[Len(r)]
      /\ \A c : InSeq(c, agent_msg_queue) => InSeq(c, agent_msg_queue')
  <2>1. Written' = Written
    BY DEF Written
  <2> QED BY <1>1, <1>2, <1>3, <1>5, <1>6, <2>1, Queueing
<1>8. x \in Chunk
  BY <1>4, AgentQueueAssumption DEF Chunk
<1>9. InSeq(x, agent_msg_queue')
  <2>1. agent_msg_queue \in Seq(Chunk)
    BY DEF StreamInv, ChunkTypes
  <2>2. PICK a \in Nat : a = Len(agent_msg_queue)
    BY <2>1, LenProperties
  <2>3. PICK b \in Nat : b = Len(r) /\ b # 0
    BY <1>5, LenProperties, EmptySeq
  <2>4. a + b \in 1 .. a + b /\ ~(a + b <= a) /\ (a + b) - a = b
    BY <2>3
  <2>5. Len(agent_msg_queue') = a + b /\ agent_msg_queue'[a + b] = r[b]
    BY <1>1, <1>2, <1>3, <1>5, <2>1, <2>2, <2>3, <2>4, ConcatProperties
  <2> QED BY <1>5, <2>3, <2>4, <2>5 DEF InSeq
<1> QED BY <1>1, <1>2, <1>4, <1>5, <1>7, <1>8, <1>9

(* The status messages of tasks that fail *)
LEMMA QueueStatuses ==
  ASSUME StreamInv, NEW ts \in SUBSET Tasks, FailTasks(ts, agent_msg_queue),
         Written' = Written
  PROVE  /\ agent_msg_queue' \in Seq(Chunk) /\ pushes' \in 0 .. MaxPushes /\ pushes <= pushes'
         /\ Ordered(Stream', pushes')
         /\ \A c : InSeq(c, agent_msg_queue) => InSeq(c, agent_msg_queue')
<1>1. PICK k \in 0 .. MaxPushes - pushes :
        agent_msg_queue' = agent_msg_queue \o Statuses(k) /\ pushes' = pushes + k
  <2>1. Cardinality(ts) \in Nat
    BY FS_Subset, FS_CardinalityType, AgentQueueAssumption
  <2>2. pushes \in 0 .. MaxPushes /\ MaxPushes \in Nat
    BY AgentQueueAssumption DEF StreamInv, ChunkTypes
  <2>3. PICK c \in Nat : c = Cardinality(ts)
    BY <2>1
  <2>4. PICK k \in 0 .. MaxPushes - pushes :
          k = IF pushes + c <= MaxPushes THEN c ELSE MaxPushes - pushes
    <3>1. CASE pushes + c <= MaxPushes
      BY <2>2, <3>1
    <3>2. CASE ~(pushes + c <= MaxPushes)
      BY <2>2, <3>2
    <3> QED BY <3>1, <3>2
  <2> QED BY <2>3, <2>4 DEF FailTasks
<1>2. pushes \in 0 .. MaxPushes /\ MaxPushes \in Nat
  BY AgentQueueAssumption DEF StreamInv, ChunkTypes
<1>3. PICK r : r = Statuses(k)
  OBVIOUS
<1>4. r \in Seq(Chunk) /\ Ordered(r, pushes + k) /\ (r # <<>> => r[1].msg > pushes)
  BY <1>2, <1>3, StatusesOrdered
<1>5. pushes' \in pushes .. MaxPushes
  BY <1>1, <1>2
<1>6. Ordered(r, pushes')
  BY <1>1, <1>4
<1> QED BY <1>1, <1>3, <1>4, <1>5, <1>6, Queueing

(* A step that touches neither the stream nor the flush requests *)
LEMMA StreamKept ==
  ASSUME StreamInv,
         UNCHANGED <<agent_msg_queue, wire, out, flushing, flush, mark, pushes>>,
         pc' # "writing" => out = None, caller' \in Tasks \union {"loop"},
         caller' # "loop" =>
           caller' = caller /\ (pc' \in Parked \/ (pc' = "send" /\ ret' = "idle"))
  PROVE  StreamInv'
<1>1. ChunkTypes'
  BY DEF StreamInv, ChunkTypes
<1>2. Stream' = Stream
  BY DEF Stream
<1>3. Ordered(Stream, pushes)'
  BY <1>2 DEF StreamInv
<1>4. FlushInv'
  BY DEF StreamInv, FlushInv, Waiting, InSeq
<1>5. CallerInv'
  BY <1>2 DEF StreamInv, CallerInv
<1> QED BY <1>1, <1>3, <1>4, <1>5 DEF StreamInv

(* The coroutine handles no message of the server while a task is between   *)
(* its wakeup and its flush request.                                        *)
LEMMA InLoop ==
  ASSUME StreamInv, NEW where, Running(where), "send" \notin where
  PROVE  caller = "loop"
BY DEF StreamInv, CallerInv, Running

(* agent_msg_queue_many, by anybody but a task *)
LEMMA QueuedKeeps ==
  ASSUME StreamInv, NEW n \in 1 .. MaxChunks, Queue(n),
         UNCHANGED <<wire, out, flushing, flush, mark>>,
         pc' # "writing" => out = None, caller' = "loop"
  PROVE  StreamInv'
<1>1. /\ agent_msg_queue' \in Seq(Chunk) /\ pushes' \in 0 .. MaxPushes /\ pushes' = pushes + 1
      /\ Ordered(Stream', pushes')
      /\ \A c : InSeq(c, agent_msg_queue) => InSeq(c, agent_msg_queue')
  BY QueueOne
<1>2. ChunkTypes'
  BY <1>1 DEF StreamInv, ChunkTypes
<1>3. \A t \in Tasks : mark[t] # None => mark[t].msg <= pushes'
  <2> TAKE t \in Tasks
  <2>1. mark[t] # None => mark[t] \in Chunk
    BY DEF StreamInv, ChunkTypes
  <2>2. mark[t] # None => mark[t].msg \in Nat /\ mark[t].msg <= pushes /\ pushes \in Int
    BY <2>1, ChunkFields DEF StreamInv, FlushInv, ChunkTypes
  <2> QED BY <1>1, <2>2
<1>4. FlushInv'
  BY <1>1, <1>3 DEF StreamInv, FlushInv, Waiting, InSeq
<1>5. CallerInv'
  BY DEF CallerInv
<1> QED BY <1>1, <1>2, <1>4, <1>5 DEF StreamInv

LEMMA AllFlushed ==
  ASSUME ChunkTypes, FlushInv, NEW how \in {"ok", "failed"}, FlushAll(how)
  PROVE  /\ flushing' = {} /\ flush' \in [Tasks -> {"none", "waiting", "ok", "failed"}]
         /\ \A t \in Tasks : flush'[t] = IF flush[t] = "waiting" THEN how ELSE flush[t]
<1>1. ASSUME NEW t \in Tasks PROVE (\E e \in flushing : e[2] = t) <=> flush[t] = "waiting"
  <2>1. ASSUME NEW e \in flushing, e[2] = t PROVE flush[t] = "waiting"
    <3>1. PICK u \in Waiting : e = <<mark[u], u>>
      BY DEF FlushInv
    <3>2. u = t
      BY <2>1, <3>1
    <3> QED BY <3>1, <3>2 DEF Waiting
  <2>2. ASSUME flush[t] = "waiting" PROVE \E e \in flushing : e[2] = t
    <3>1. <<mark[t], t>> \in flushing
      BY <2>2 DEF FlushInv, Waiting
    <3>2. <<mark[t], t>>[2] = t
      OBVIOUS
    <3> QED BY <3>1, <3>2
  <2> QED BY <2>1, <2>2
<1> QED BY <1>1 DEF FlushAll, ChunkTypes

LEMMA StoppedKeeps ==
  ASSUME StreamInv, AgentStopped
  PROVE  StreamInv'
<1>1. /\ pc = "stopping" /\ pc' = "update" /\ FailTasks(Waiting, agent_msg_queue)
      /\ FlushAll("failed") /\ UNCHANGED <<wire, out, mark, caller>> /\ caller = "loop"
  BY DEF AgentStopped, Running, KeptQueue, srvVars, Parked
<1>2. Waiting \in SUBSET Tasks
  BY DEF Waiting
<1>3. /\ agent_msg_queue' \in Seq(Chunk) /\ pushes' \in 0 .. MaxPushes /\ pushes <= pushes'
      /\ Ordered(Stream', pushes')
  <2>1. Written' = Written
    BY <1>1 DEF Written
  <2> QED BY <1>1, <1>2, <2>1, QueueStatuses
<1>4. /\ flushing' = {} /\ flush' \in [Tasks -> {"none", "waiting", "ok", "failed"}]
      /\ \A t \in Tasks : flush'[t] = IF flush[t] = "waiting" THEN "failed" ELSE flush[t]
  BY <1>1, AllFlushed DEF StreamInv
<1>5. ChunkTypes'
  BY <1>1, <1>3, <1>4 DEF StreamInv, ChunkTypes
<1>6. \A t \in Tasks : mark[t] # None => mark[t].msg <= pushes'
  <2> TAKE t \in Tasks
  <2>1. mark[t] # None => mark[t] \in Chunk
    BY DEF StreamInv, ChunkTypes
  <2>2. mark[t] # None => mark[t].msg \in Nat /\ mark[t].msg <= pushes /\ pushes \in Int
    BY <2>1, ChunkFields DEF StreamInv, FlushInv, ChunkTypes
  <2> QED BY <1>3, <2>2
<1>7. Waiting' = {}
  BY <1>4 DEF Waiting
<1>8. FlushInv'
  BY <1>1, <1>4, <1>6, <1>7 DEF StreamInv, FlushInv, InSeq
<1>9. CallerInv'
  BY <1>1 DEF CallerInv
<1> QED BY <1>3, <1>5, <1>8, <1>9 DEF StreamInv

LEMMA ResetKeeps ==
  ASSUME StreamInv, Reset
  PROVE  StreamInv'
<1>1. /\ caller' = "loop" /\ wire' = <<>> /\ out' = None /\ mark' = [t \in Tasks |-> None]
      /\ FailTasks(Waiting, <<>>) /\ FlushAll("failed")
  BY DEF Reset, MainRuns
<1>2. pushes \in 0 .. MaxPushes /\ MaxPushes \in Nat /\ Waiting \in SUBSET Tasks
  BY AgentQueueAssumption DEF StreamInv, ChunkTypes, Waiting
<1>3. PICK k \in 0 .. MaxPushes - pushes :
        agent_msg_queue' = <<>> \o Statuses(k) /\ pushes' = pushes + k
  <2>1. PICK c \in Nat : c = Cardinality(Waiting)
    BY <1>2, FS_Subset, FS_CardinalityType, AgentQueueAssumption
  <2>2. PICK k \in 0 .. MaxPushes - pushes :
          k = IF pushes + c <= MaxPushes THEN c ELSE MaxPushes - pushes
    <3>1. CASE pushes + c <= MaxPushes
      BY <1>2, <3>1
    <3>2. CASE ~(pushes + c <= MaxPushes)
      BY <1>2, <3>2
    <3> QED BY <3>1, <3>2
  <2> QED BY <1>1, <2>1, <2>2 DEF FailTasks
<1>4. Statuses(k) \in Seq(Chunk) /\ Ordered(Statuses(k), pushes + k)
  BY <1>2, StatusesOrdered
<1>5. agent_msg_queue' = Statuses(k)
  BY <1>3, <1>4, ConcatEmptySeq
<1>6. Stream' = agent_msg_queue'
  <2>1. PICK q \in Seq(Chunk) : q = agent_msg_queue'
    BY <1>4, <1>5
  <2>2. Stream' = (<<>> \o <<>>) \o q
    BY <1>1, <2>1 DEF Stream
  <2>3. <<>> \o <<>> = <<>> /\ <<>> \o q = q
    BY ConcatEmptySeq, EmptySeq
  <2> QED BY <2>1, <2>2, <2>3
<1>7. /\ flushing' = {} /\ flush' \in [Tasks -> {"none", "waiting", "ok", "failed"}]
      /\ \A t \in Tasks : flush'[t] = IF flush[t] = "waiting" THEN "failed" ELSE flush[t]
  BY <1>1, AllFlushed DEF StreamInv
<1>8. Waiting' = {} /\ \A t \in Tasks : mark'[t] = None
  BY <1>1, <1>7 DEF Waiting
<1>9. ChunkTypes'
  <2>1. wire' \in Seq(Chunk)
    BY <1>1, EmptySeq
  <2>2. mark' \in [Tasks -> Chunk \union {None}]
    BY <1>1
  <2>3. pushes' \in 0 .. MaxPushes
    BY <1>2, <1>3
  <2> QED BY <1>1, <1>4, <1>5, <1>7, <2>1, <2>2, <2>3 DEF ChunkTypes
<1>10. FlushInv'
  BY <1>7, <1>8 DEF FlushInv
<1>11. CallerInv'
  BY <1>1 DEF CallerInv
<1>12. Ordered(Stream, pushes)'
  BY <1>3, <1>4, <1>5, <1>6
<1> QED BY <1>9, <1>10, <1>11, <1>12 DEF StreamInv

LEMMA PushDataKeeps ==
  ASSUME StreamInv, NEW t \in Tasks, PushData(t)
  PROVE  StreamInv'
<1>1. PICK n \in 1 .. MaxChunks :
        /\ Queue(n)
        /\ mark' = [mark EXCEPT ![t] = [msg |-> pushes + 1, part |-> n, last |-> TRUE]]
  BY DEF PushData
<1>2. PICK x : x = [msg |-> pushes + 1, part |-> n, last |-> TRUE]
  OBVIOUS
<1>3. /\ flush[t] # "waiting" /\ caller' = t /\ flush' = [flush EXCEPT ![t] = "none"]
      /\ UNCHANGED <<wire, out, flushing>> /\ pc \in Parked
      /\ pc' = IF pc = "idle" THEN "send" ELSE pc
      /\ ret' = IF pc = "idle" THEN "idle" ELSE ret
  BY DEF PushData, MainRuns, Wakeup, srvVars
<1>4. /\ agent_msg_queue' \in Seq(Chunk) /\ pushes' \in 0 .. MaxPushes /\ pushes' = pushes + 1
      /\ Ordered(Stream', pushes') /\ Stream' # <<>> /\ Stream'[Len(Stream')] = x /\ x \in Chunk
      /\ \A c : InSeq(c, agent_msg_queue) => InSeq(c, agent_msg_queue')
  BY <1>1, <1>2, <1>3, QueueOne
<1>5. x # None /\ x.msg = pushes' /\ t # "loop"
  <2>1. x # None
    BY <1>4, NotAChunk
  <2>2. x.msg = pushes'
    BY <1>2, <1>4
  <2>3. t # "loop"
    BY AgentQueueAssumption
  <2> QED BY <2>1, <2>2, <2>3
<1>6. mark'[t] = x /\ flush'[t] = "none"
      /\ \A u \in Tasks \ {t} : mark'[u] = mark[u] /\ flush'[u] = flush[u]
  BY <1>1, <1>2, <1>3 DEF StreamInv, ChunkTypes
<1>7. ChunkTypes'
  <2>1. mark' \in [Tasks -> Chunk \union {None}]
    BY <1>1, <1>2, <1>4 DEF StreamInv, ChunkTypes
  <2>2. flush' \in [Tasks -> {"none", "waiting", "ok", "failed"}]
    BY <1>3 DEF StreamInv, ChunkTypes
  <2>3. pc' # "writing" => out' = None
    BY <1>3 DEF StreamInv, ChunkTypes
  <2> QED BY <1>3, <1>4, <2>1, <2>2, <2>3 DEF StreamInv, ChunkTypes
<1>8. \A u \in Tasks : mark'[u] # None => mark'[u].msg <= pushes'
  <2> TAKE u \in Tasks
  <2>1. CASE u = t
    BY <1>4, <1>5, <1>6, <2>1
  <2>2. CASE u # t
    <3>1. mark[u] # None => mark[u] \in Chunk
      BY DEF StreamInv, ChunkTypes
    <3>2. mark[u] # None => mark[u].msg \in Nat /\ mark[u].msg <= pushes /\ pushes \in Int
      BY <3>1, ChunkFields DEF StreamInv, FlushInv, ChunkTypes
    <3> QED BY <1>4, <1>6, <2>2, <3>2
  <2> QED BY <2>1, <2>2
<1>9. \A u \in Tasks \ {t} : mark[u] # x
  <2> SUFFICES ASSUME NEW u \in Tasks, mark[u] = x PROVE FALSE
    OBVIOUS
  <2>1. mark[u].msg <= pushes /\ pushes \in Int
    BY <1>5 DEF StreamInv, FlushInv, ChunkTypes
  <2> QED BY <1>4, <1>5, <2>1
<1>10. Waiting' = Waiting /\ t \notin Waiting
  BY <1>3, <1>6 DEF Waiting
<1>11. FlushInv'
  <2>1. flushing' = {<<mark'[u], u>> : u \in Waiting'}
    BY <1>3, <1>6, <1>10 DEF StreamInv, FlushInv, Waiting
  <2>2. \A u \in Tasks : /\ flush'[u] = "waiting" => /\ mark'[u] # None
                                                     /\ mark'[u] = out' \/ InSeq(mark'[u], agent_msg_queue')
                         /\ flush'[u] = "ok" /\ mark'[u] # None
                              => mark'[u] = out' \/ InSeq(mark'[u], wire')
    BY <1>3, <1>4, <1>6 DEF StreamInv, FlushInv
  <2>3. \A u, v \in Tasks : mark'[u] = mark'[v] /\ mark'[u] # None => u = v
    BY <1>6, <1>9 DEF StreamInv, FlushInv
  <2> QED BY <1>8, <2>1, <2>2, <2>3 DEF FlushInv, InSeq
<1>12. CallerInv'
  BY <1>3, <1>4, <1>5, <1>6 DEF CallerInv, Parked
<1> QED BY <1>4, <1>7, <1>11, <1>12 DEF StreamInv

(* The last chunk of the stream, and where it is *)
LEMMA LastOfStream ==
  ASSUME ChunkTypes, Stream # <<>>
  PROVE  /\ agent_msg_queue = <<>> => \/ Stream[Len(Stream)] = out
                                      \/ InSeq(Stream[Len(Stream)], wire)
         /\ agent_msg_queue # <<>> => /\ Stream[Len(Stream)] = agent_msg_queue[Len(agent_msg_queue)]
                                      /\ InSeq(Stream[Len(Stream)], agent_msg_queue)
<1>1. /\ Written \in Seq(Chunk) /\ Stream = Written \o agent_msg_queue
      /\ agent_msg_queue \in Seq(Chunk) /\ wire \in Seq(Chunk)
  BY WrittenTyped DEF ChunkTypes
<1>2. ASSUME agent_msg_queue # <<>>
      PROVE  /\ Stream[Len(Stream)] = agent_msg_queue[Len(agent_msg_queue)]
             /\ InSeq(Stream[Len(Stream)], agent_msg_queue)
  <2>1. PICK a \in Nat : a = Len(Written)
    BY <1>1, LenProperties
  <2>2. PICK b \in Nat : b = Len(agent_msg_queue) /\ b # 0
    BY <1>1, <1>2, LenProperties, EmptySeq
  <2>3. a + b \in 1 .. a + b /\ ~(a + b <= a) /\ (a + b) - a = b /\ b \in 1 .. b
    BY <2>2
  <2>4. Len(Stream) = a + b /\ Stream[a + b] = agent_msg_queue[b]
    BY <1>1, <2>1, <2>2, <2>3, ConcatProperties
  <2> QED BY <2>2, <2>3, <2>4 DEF InSeq
<1>3. ASSUME agent_msg_queue = <<>>
      PROVE  Stream[Len(Stream)] = out \/ InSeq(Stream[Len(Stream)], wire)
  <2>1. Stream = Written
    BY <1>1, <1>3, ConcatEmptySeq
  <2>2. CASE out = None
    <3>1. Written = wire
      BY <1>1, <2>2, ConcatEmptySeq DEF Written
    <3>2. PICK a \in Nat : a = Len(wire) /\ a # 0
      BY <1>1, <2>1, <3>1, LenProperties, EmptySeq
    <3>3. a \in 1 .. a
      BY <3>2
    <3> QED BY <2>1, <3>1, <3>2, <3>3 DEF InSeq
  <2>3. CASE out # None
    <3>1. PICK o \in Chunk : o = out
      BY <2>3 DEF ChunkTypes
    <3>2. Written = wire \o <<o>>
      BY <2>3, <3>1 DEF Written
    <3>3. PICK a \in Nat : a = Len(wire)
      BY <1>1, LenProperties
    <3>4. a + 1 \in 1 .. a + 1 /\ ~(a + 1 <= a) /\ (a + 1) - a = 1
      OBVIOUS
    <3>5. <<o>> \in Seq(Chunk) /\ Len(<<o>>) = 1 /\ <<o>>[1] = o
      OBVIOUS
    <3>6. Len(wire \o <<o>>) = a + 1 /\ (wire \o <<o>>)[a + 1] = <<o>>[1]
      BY <1>1, <3>3, <3>4, <3>5, ConcatProperties
    <3> QED BY <2>1, <3>1, <3>2, <3>5, <3>6
  <2> QED BY <2>2, <2>3
<1> QED BY <1>2, <1>3

LEMMA FlushAsyncKeeps ==
  ASSUME StreamInv, NEW t \in Tasks, FlushAsync(t)
  PROVE  StreamInv'
<1>1. /\ caller = t /\ caller' = "loop" /\ t # "loop"
      /\ UNCHANGED <<agent_msg_queue, wire, out, mark, pc, pushes>>
  BY AgentQueueAssumption DEF FlushAsync, srvVars
<1>2. /\ flush[t] = "none" /\ mark[t] # None /\ Stream # <<>> /\ Stream[Len(Stream)] = mark[t]
  BY <1>1 DEF StreamInv, CallerInv
<1>3. Stream' = Stream
  BY <1>1 DEF Stream
<1>4. Ordered(Stream, pushes)'
  BY <1>1, <1>3 DEF StreamInv
<1>5. CallerInv'
  BY <1>1 DEF CallerInv
<1>6. CASE agent_msg_queue = <<>>
  <2>1. flush' = [flush EXCEPT ![t] = "ok"] /\ UNCHANGED flushing
    BY <1>6 DEF FlushAsync
  <2>2. mark[t] = out \/ InSeq(mark[t], wire)
    BY <1>2, <1>6, LastOfStream DEF StreamInv
  <2>3. flush'[t] = "ok" /\ \A u \in Tasks \ {t} : flush'[u] = flush[u]
    BY <2>1 DEF StreamInv, ChunkTypes
  <2>4. Waiting' = Waiting
    BY <1>2, <2>3 DEF Waiting
  <2>5. FlushInv'
    <3>1. \A u \in Tasks : flush'[u] = "ok" /\ mark[u] # None => mark[u] = out \/ InSeq(mark[u], wire)
      BY <2>2, <2>3 DEF StreamInv, FlushInv
    <3>2. \A u \in Tasks : flush'[u] = "waiting" => flush[u] = "waiting"
      BY <2>3
    <3> QED BY <1>1, <2>1, <2>4, <3>1, <3>2 DEF StreamInv, FlushInv, InSeq
  <2>6. ChunkTypes'
    BY <1>1, <2>1 DEF StreamInv, ChunkTypes
  <2> QED BY <1>4, <1>5, <2>5, <2>6 DEF StreamInv
<1>7. CASE agent_msg_queue # <<>>
  <2>1. /\ flush' = [flush EXCEPT ![t] = "waiting"]
        /\ flushing' = {e \in flushing : e[1] # Last(agent_msg_queue)}
                         \union {<<Last(agent_msg_queue), t>>}
    BY <1>7 DEF FlushAsync, InsertFlush
  <2>2. Last(agent_msg_queue) = mark[t] /\ InSeq(mark[t], agent_msg_queue)
    BY <1>2, <1>7, LastOfStream DEF StreamInv, Last
  <2>3. flush'[t] = "waiting" /\ \A u \in Tasks \ {t} : flush'[u] = flush[u]
    BY <2>1 DEF StreamInv, ChunkTypes
  <2>4. Waiting' = Waiting \union {t} /\ t \notin Waiting
    BY <1>2, <2>3 DEF Waiting
  <2>5. \A u \in Waiting : mark[u] # mark[t]
    BY <1>2, <2>4 DEF StreamInv, FlushInv, Waiting
  <2>6. flushing' = {<<mark[u], u>> : u \in Waiting'}
    <3>1. flushing = {<<mark[u], u>> : u \in Waiting}
      BY DEF StreamInv, FlushInv
    <3>2. \A e \in flushing : e[1] # mark[t]
      BY <2>5, <3>1
    <3>3. flushing' = flushing \union {<<mark[t], t>>}
      BY <2>1, <2>2, <3>2
    <3> QED BY <2>4, <3>1, <3>3
  <2>7. FlushInv'
    <3>1. \A u \in Tasks : flush'[u] = "waiting"
            => mark[u] # None /\ (mark[u] = out \/ InSeq(mark[u], agent_msg_queue))
      BY <1>2, <2>2, <2>3 DEF StreamInv, FlushInv
    <3>2. \A u \in Tasks : flush'[u] = "ok" => flush[u] = "ok"
      BY <2>3
    <3> QED BY <1>1, <2>6, <3>1, <3>2 DEF StreamInv, FlushInv, InSeq
  <2>8. ChunkTypes'
    BY <1>1, <2>1 DEF StreamInv, ChunkTypes
  <2> QED BY <1>4, <1>5, <2>7, <2>8 DEF StreamInv
<1> QED BY <1>6, <1>7

LEMMA SendChunkKeeps ==
  ASSUME StreamInv, SendChunk
  PROVE  StreamInv'
<1>1. /\ pc = "send" /\ pc' = "writing" /\ agent_msg_queue # <<>>
      /\ out' = Head(agent_msg_queue) /\ agent_msg_queue' = Tail(agent_msg_queue)
      /\ UNCHANGED <<flushing, ret, caller, flush, mark, wire, pushes>>
  BY DEF SendChunk, srvVars
<1>2. out = None /\ agent_msg_queue \in Seq(Chunk) /\ wire \in Seq(Chunk)
  BY <1>1 DEF StreamInv, ChunkTypes
<1>3. PICK q \in Seq(Chunk) : q = agent_msg_queue /\ q # <<>>
  BY <1>1, <1>2
<1>4. PICK h \in Chunk : h = Head(q)
  BY <1>3, HeadTailProperties
<1>5. PICK r \in Seq(Chunk) : r = Tail(q)
  BY <1>3, HeadTailProperties
<1>6. PICK n \in Nat : n = Len(q) /\ n # 0
  BY <1>3, LenProperties, EmptySeq
<1>7. /\ Len(r) = n - 1 /\ q[1] = h
      /\ \A i \in 1 .. n - 1 : r[i] = q[i + 1]
  BY <1>3, <1>4, <1>5, <1>6, HeadTailProperties
<1>8. <<h>> \o r = q
  BY <1>3, <1>4, <1>5
<1>9. Stream' = Stream
  <2>1. PICK w \in Seq(Chunk) : w = wire
    BY <1>2
  <2>2. Stream = (w \o <<>>) \o q
    BY <1>2, <1>3, <2>1 DEF Stream
  <2>3. w \o <<>> = w
    BY ConcatEmptySeq
  <2>4. h # None
    BY NotAChunk
  <2>5. Stream' = (w \o <<h>>) \o r
    BY <1>1, <1>3, <1>4, <1>5, <2>1, <2>4 DEF Stream
  <2>6. (w \o <<h>>) \o r = w \o (<<h>> \o r)
    OBVIOUS
  <2> QED BY <1>8, <2>2, <2>3, <2>5, <2>6
<1>10. Ordered(Stream, pushes)'
  BY <1>1, <1>9 DEF StreamInv
<1>11. ChunkTypes'
  BY <1>1, <1>3, <1>4, <1>5 DEF StreamInv, ChunkTypes
<1>12. CallerInv'
  BY <1>1, <1>9 DEF StreamInv, CallerInv, Parked
<1>13. \A c : InSeq(c, q) => c = h \/ InSeq(c, r)
  <2> SUFFICES ASSUME NEW c, NEW i \in 1 .. n, q[i] = c, c # h PROVE InSeq(c, r)
    BY <1>6 DEF InSeq
  <2>1. PICK j \in 1 .. n - 1 : i = j + 1
    <3>1. i # 1
      BY <1>7
    <3>2. i - 1 \in 1 .. n - 1 /\ i = (i - 1) + 1
      BY <1>6, <3>1
    <3> QED BY <3>2
  <2> QED BY <1>7, <2>1 DEF InSeq
<1>14. FlushInv'
  <2>1. \A t \in Tasks : flush[t] = "waiting"
          => mark[t] # None /\ (mark[t] = h \/ InSeq(mark[t], r))
    BY <1>2, <1>3, <1>13 DEF StreamInv, FlushInv
  <2>2. \A t \in Tasks : flush[t] = "ok" /\ mark[t] # None => InSeq(mark[t], wire)
    BY <1>2 DEF StreamInv, FlushInv
  <2>3. h = out' /\ r = agent_msg_queue'
    BY <1>1, <1>3, <1>4, <1>5
  <2> QED BY <1>1, <2>1, <2>2, <2>3 DEF StreamInv, FlushInv, Waiting, InSeq
<1> QED BY <1>10, <1>11, <1>12, <1>14 DEF StreamInv

LEMMA ChunkSentKeeps ==
  ASSUME StreamInv, ChunkSent
  PROVE  StreamInv'
<1>1. /\ caller = "loop" /\ caller' = caller /\ out' = None /\ UNCHANGED mark
      /\ wire' = IF out = None THEN wire ELSE Append(wire, out)
      /\ flush' = [t \in Tasks |-> IF t \in Completed THEN "ok" ELSE flush[t]]
      /\ flushing' = {e \in flushing : e[1] # out}
  BY DEF ChunkSent, Running, Parked
<1>2. PICK cs \in SUBSET Completed : FailTasks(cs, agent_msg_queue)
  BY DEF ChunkSent
<1>3. cs \in SUBSET Tasks
  BY <1>2 DEF Completed
<1>4. PICK w \in Seq(Chunk) : w = wire
  BY DEF StreamInv, ChunkTypes
<1>5. /\ wire' \in Seq(Chunk) /\ Written' = Written
      /\ \A c : InSeq(c, wire) => InSeq(c, wire')
      /\ out # None => InSeq(out, wire')
  <2>1. Written' = wire' \o <<>>
    BY <1>1 DEF Written
  <2>2. CASE out = None
    <3>1. wire' = w /\ Written = w \o <<>>
      BY <1>1, <1>4, <2>2 DEF Written
    <3> QED BY <1>4, <2>1, <2>2, <3>1
  <2>3. CASE out # None
    <3>1. PICK o \in Chunk : o = out
      BY <2>3 DEF StreamInv, ChunkTypes
    <3>2. PICK a \in Nat : a = Len(w)
      BY LenProperties
    <3>3. PICK x : x = Append(w, o)
      OBVIOUS
    <3>4. x \in Seq(Chunk) /\ Len(x) = a + 1 /\ x[a + 1] = o /\ \A i \in 1 .. a : x[i] = w[i]
      BY <3>2, <3>3, AppendProperties
    <3>5. wire' = x /\ Written = w \o <<o>>
      BY <1>1, <1>4, <2>3, <3>1, <3>3 DEF Written
    <3>6. x = w \o <<o>> /\ x \o <<>> = x
      BY <3>3, <3>4, AppendIsConcat, ConcatEmptySeq
    <3>7. Written' = Written
      BY <2>1, <3>5, <3>6
    <3>8. InSeq(o, x)
      BY <3>2, <3>4 DEF InSeq
    <3>9. ASSUME NEW c, InSeq(c, w) PROVE InSeq(c, x)
      <4>1. PICK i \in 1 .. a : w[i] = c
        BY <3>2, <3>9 DEF InSeq
      <4>2. i \in 1 .. a + 1
        OBVIOUS
      <4> QED BY <3>4, <4>1, <4>2 DEF InSeq
    <3> QED BY <1>4, <3>1, <3>4, <3>5, <3>7, <3>8, <3>9
  <2> QED BY <2>2, <2>3
<1>6. /\ agent_msg_queue' \in Seq(Chunk) /\ pushes' \in 0 .. MaxPushes /\ pushes <= pushes'
      /\ Ordered(Stream', pushes')
      /\ \A c : InSeq(c, agent_msg_queue) => InSeq(c, agent_msg_queue')
  BY <1>2, <1>3, <1>5, QueueStatuses
<1>7. \A t \in Tasks : t \in Completed <=> flush[t] = "waiting" /\ mark[t] = out
  <2> TAKE t \in Tasks
  <2>1. ASSUME <<out, t>> \in flushing PROVE flush[t] = "waiting" /\ mark[t] = out
    <3>1. PICK u \in Waiting : <<out, t>> = <<mark[u], u>>
      BY <2>1 DEF StreamInv, FlushInv
    <3>2. u = t /\ mark[u] = out
      BY <3>1
    <3> QED BY <3>2 DEF Waiting
  <2>2. ASSUME flush[t] = "waiting", mark[t] = out PROVE <<out, t>> \in flushing
    BY <2>2 DEF StreamInv, FlushInv, Waiting
  <2> QED BY <2>1, <2>2 DEF Completed
<1>8. \A t \in Tasks : flush'[t] = IF flush[t] = "waiting" /\ mark[t] = out THEN "ok" ELSE flush[t]
  BY <1>1, <1>7
<1>9. \A t \in Tasks : t \in Waiting' <=> t \in Waiting /\ mark[t] # out
  BY <1>8 DEF Waiting
<1>10. flushing' = {<<mark[t], t>> : t \in Waiting'}
  <2>1. flushing = {<<mark[t], t>> : t \in Waiting}
    BY DEF StreamInv, FlushInv
  <2>2. \A e : e \in flushing' => \E t \in Waiting' : e = <<mark[t], t>>
    <3> SUFFICES ASSUME NEW e \in flushing, e[1] # out PROVE \E t \in Waiting' : e = <<mark[t], t>>
      BY <1>1
    <3>1. PICK t \in Waiting : e = <<mark[t], t>>
      BY <2>1
    <3>2. mark[t] # out /\ t \in Tasks
      BY <3>1 DEF Waiting
    <3> QED BY <1>9, <3>1, <3>2
  <2>3. \A t \in Waiting' : <<mark[t], t>> \in flushing'
    <3> TAKE t \in Waiting'
    <3>1. t \in Waiting /\ mark[t] # out
      BY <1>9 DEF Waiting
    <3>2. <<mark[t], t>> \in flushing /\ <<mark[t], t>>[1] # out
      BY <2>1, <3>1
    <3> QED BY <1>1, <3>2
  <2> QED BY <2>2, <2>3
<1>11. \A t \in Tasks : mark[t] # None => mark[t].msg <= pushes'
  <2> TAKE t \in Tasks
  <2>1. mark[t] # None => mark[t] \in Chunk
    BY DEF StreamInv, ChunkTypes
  <2>2. mark[t] # None => mark[t].msg \in Nat /\ mark[t].msg <= pushes /\ pushes \in Int
    BY <2>1, ChunkFields DEF StreamInv, FlushInv, ChunkTypes
  <2> QED BY <1>6, <2>2
<1>12. FlushInv'
  <2>1. \A t \in Tasks : flush'[t] = "waiting" => mark[t] # None /\ InSeq(mark[t], agent_msg_queue')
    BY <1>6, <1>8 DEF StreamInv, FlushInv
  <2>2. \A t \in Tasks : flush'[t] = "ok" /\ mark[t] # None => InSeq(mark[t], wire')
    <3> TAKE t \in Tasks
    <3>1. CASE mark[t] = out
      BY <1>5, <3>1
    <3>2. CASE mark[t] # out
      BY <1>5, <1>8, <3>2 DEF StreamInv, FlushInv
    <3> QED BY <3>1, <3>2
  <2>3. \A t, u \in Tasks : mark[t] = mark[u] /\ mark[t] # None => t = u
    BY DEF StreamInv, FlushInv
  <2> QED BY <1>1, <1>10, <1>11, <2>1, <2>2, <2>3 DEF FlushInv, InSeq
<1>13. ChunkTypes'
  <2>1. flush' \in [Tasks -> {"none", "waiting", "ok", "failed"}]
    BY <1>1 DEF StreamInv, ChunkTypes
  <2> QED BY <1>1, <1>5, <1>6, <2>1 DEF StreamInv, ChunkTypes
<1>14. CallerInv'
  BY <1>1 DEF CallerInv
<1> QED BY <1>6, <1>12, <1>13, <1>14 DEF StreamInv

LEMMA SendDoneKeeps ==
  ASSUME StreamInv, SendDone
  PROVE  StreamInv'
<1>1. /\ pc = "send" /\ pc' = ret /\ UNCHANGED <<agent_msg_queue, wire, out, mark, pushes, caller>>
      /\ IF agent_msg_queue = <<>> THEN FlushAll("ok") ELSE UNCHANGED <<flushing, flush>>
  BY DEF SendDone, srvVars
<1>2. out = None
  BY <1>1 DEF StreamInv, ChunkTypes
<1>3. UNCHANGED <<flushing, flush>>
  <2>1. CASE agent_msg_queue = <<>>
    <3>1. \A t \in Tasks : flush[t] # "waiting"
      <4>1. \A c : ~InSeq(c, agent_msg_queue)
        BY <2>1, EmptySeq DEF InSeq
      <4> QED BY <1>2, <4>1 DEF StreamInv, FlushInv
    <3>2. /\ flushing' = {} /\ flush' \in [Tasks -> {"none", "waiting", "ok", "failed"}]
          /\ \A t \in Tasks : flush'[t] = IF flush[t] = "waiting" THEN "ok" ELSE flush[t]
      BY <1>1, <2>1, AllFlushed DEF StreamInv
    <3>3. flush' = flush
      BY <3>1, <3>2 DEF StreamInv, ChunkTypes
    <3>4. flushing = {}
      BY <3>1 DEF StreamInv, FlushInv, Waiting
    <3> QED BY <3>2, <3>3, <3>4
  <2>2. CASE agent_msg_queue # <<>>
    BY <1>1, <2>2
  <2> QED BY <2>1, <2>2
<1>4. caller' \in Tasks \union {"loop"}
  BY <1>1 DEF StreamInv, ChunkTypes
<1>5. caller' # "loop" => caller' = caller /\ pc' \in Parked
  BY <1>1 DEF StreamInv, CallerInv, Parked
<1> QED BY <1>1, <1>2, <1>3, <1>4, <1>5, StreamKept

LEMMA AgentStartKeeps ==
  ASSUME StreamInv, AgentStart
  PROVE  StreamInv'
<1>1. /\ pc' \in {"send", "more"} /\ UNCHANGED <<flushing, out, caller, flush, mark, wire>>
      /\ out = None /\ caller = "loop"
      /\ \/ Queue(1)
         \/ UNCHANGED <<agent_msg_queue, pushes>>
  BY DEF AgentStart, Running, StreamInv, ChunkTypes, Parked
<1>2. CASE Queue(1)
  <2>1. 1 \in 1 .. MaxChunks
    BY AgentQueueAssumption
  <2> QED BY <1>1, <1>2, <2>1, QueuedKeeps
<1>3. CASE UNCHANGED <<agent_msg_queue, pushes>>
  BY <1>1, <1>3, StreamKept
<1> QED BY <1>1, <1>2, <1>3

(* One step per action *)
LEMMA StreamStep == ASSUME StreamInv, [Next]_vars PROVE StreamInv'
<1>1. ASSUME PushWoken PROVE StreamInv'
  <2>1. PICK n \in 1 .. MaxChunks : Queue(n)
    BY <1>1 DEF PushWoken
  <2>2. /\ UNCHANGED <<wire, out, flushing, flush, mark>> /\ caller' = "loop"
        /\ pc' # "writing" => out = None
    BY <1>1 DEF PushWoken, MainRuns, Wakeup, srvVars, StreamInv, ChunkTypes
  <2> QED BY <2>1, <2>2, QueuedKeeps
<1>2. ASSUME PushSilent PROVE StreamInv'
  <2>1. 1 \in 1 .. MaxChunks /\ Queue(1)
    BY <1>2, AgentQueueAssumption DEF PushSilent
  <2>2. /\ UNCHANGED <<wire, out, flushing, flush, mark>> /\ caller' = "loop"
        /\ pc' # "writing" => out = None
    BY <1>2 DEF PushSilent, MainRuns, srvVars, StreamInv, ChunkTypes
  <2> QED BY <2>1, <2>2, QueuedKeeps
<1>3. ASSUME HandleAgentData PROVE StreamInv'
  <2>1. 1 \in 1 .. MaxChunks /\ Queue(1)
    BY <1>3, AgentQueueAssumption DEF HandleAgentData
  <2>2. caller = "loop"
    BY <1>3 DEF HandleAgentData, Reads, Running, StreamInv, CallerInv, Parked
  <2>3. /\ UNCHANGED <<wire, out, flushing, flush, mark>> /\ caller' = "loop"
        /\ pc' # "writing" => out = None
    BY <1>3, <2>2 DEF HandleAgentData, Reads, Running, srvVars, StreamInv, ChunkTypes
  <2> QED BY <2>1, <2>3, QueuedKeeps
<1>4. ASSUME Partial \/ HandleToken \/ SetTokens \/ HandleConnected \/ HandleDisconnected
             \/ Updated \/ HandleOther
      PROVE  StreamInv'
  <2>1. Running({"idle", "partial", "more", "update"})
    BY <1>4 DEF Partial, HandleToken, SetTokens, HandleConnected, HandleDisconnected,
                Updated, HandleOther, Reads, Running
  <2>2. caller = "loop"
    BY <2>1, InLoop
  <2>3. out = None
    BY <2>1 DEF Running, StreamInv, ChunkTypes
  <2>4. UNCHANGED <<agent_msg_queue, wire, out, flushing, flush, mark, pushes, caller>>
    BY <1>4 DEF Partial, HandleToken, SetTokens, HandleConnected, HandleDisconnected,
                Updated, HandleOther, srvVars
  <2> QED BY <2>2, <2>3, <2>4, StreamKept
<1>5. ASSUME Iterate PROVE StreamInv'
  <2>1. /\ pc = "more" /\ pc' = "send" /\ ret' = "idle"
        /\ UNCHANGED <<agent_msg_queue, wire, out, flushing, flush, mark, pushes, caller>>
    BY <1>5 DEF Iterate, srvVars
  <2>2. out = None /\ caller \in Tasks \union {"loop"}
    BY <2>1 DEF StreamInv, ChunkTypes
  <2> QED BY <2>1, <2>2, StreamKept
<1>6. ASSUME UNCHANGED vars PROVE StreamInv'
  <2>1. UNCHANGED <<agent_msg_queue, wire, out, flushing, flush, mark, pushes, caller, pc, ret>>
    BY <1>6 DEF vars, srvVars
  <2>2. /\ caller \in Tasks \union {"loop"} /\ (pc # "writing" => out = None)
        /\ caller # "loop" => pc \in Parked \/ (pc = "send" /\ ret = "idle")
    BY DEF StreamInv, ChunkTypes, CallerInv
  <2> QED BY <2>1, <2>2, StreamKept
<1>7. ASSUME NEW t \in Tasks, PushData(t) \/ FlushAsync(t) PROVE StreamInv'
  BY <1>7, PushDataKeeps, FlushAsyncKeeps
<1> QED
  BY <1>1, <1>2, <1>3, <1>4, <1>5, <1>6, <1>7, ResetKeeps, StoppedKeeps, AgentStartKeeps,
     SendChunkKeeps, ChunkSentKeeps, SendDoneKeeps DEF Next, Main, Server, Coroutine

LEMMA StreamInit == ASSUME Init PROVE StreamInv
<1>1. /\ agent_msg_queue = <<>> /\ wire = <<>> /\ out = None /\ caller = "loop" /\ pushes = 0
      /\ flushing = {} /\ pc = "idle"
      /\ flush = [t \in Tasks |-> "none"] /\ mark = [t \in Tasks |-> None]
  BY DEF Init
<1>2. ChunkTypes
  <2>1. <<>> \in Seq(Chunk)
    BY EmptySeq
  <2> QED BY <1>1, <2>1, AgentQueueAssumption DEF ChunkTypes
<1>3. Stream = <<>>
  <2>1. Stream = (<<>> \o <<>>) \o <<>>
    BY <1>1 DEF Stream
  <2>2. <<>> \o <<>> = <<>>
    BY ConcatEmptySeq, EmptySeq
  <2> QED BY <2>1, <2>2
<1>4. Ordered(Stream, pushes)
  BY <1>3, NoChunks
<1>5. FlushInv
  BY <1>1 DEF FlushInv, Waiting
<1>6. CallerInv
  BY <1>1 DEF CallerInv
<1> QED BY <1>2, <1>4, <1>5, <1>6 DEF StreamInv

LEMMA StreamSafe ==
  ASSUME StreamInv
  PROVE  WholeMessages /\ FlushKeyed /\ FlushedIsSent
<1>1. WholeMessages
  <2>1. Ordered(Stream, pushes)
    BY DEF StreamInv
  <2>2. PICK s : s = Stream
    OBVIOUS
  <2>3. /\ \A i \in 1 .. Len(s) - 1 : Follows(s[i], s[i + 1])
        /\ s # <<>> => s[1].part = 1 /\ Last(s).last
    BY <2>1, <2>2 DEF Ordered, Last
  <2> QED BY <2>2, <2>3 DEF WholeMessages
<1>2. FlushKeyed
  <2>1. ASSUME NEW t \in Tasks
        PROVE  Cardinality({e \in flushing : e[2] = t}) = IF flush[t] = "waiting" THEN 1 ELSE 0
    <3> DEFINE es == {e \in flushing : e[2] = t}
    <3>1. \A e \in flushing : \E u \in Waiting : e = <<mark[u], u>> /\ e[2] = u
      BY DEF StreamInv, FlushInv
    <3>2. CASE flush[t] = "waiting"
      <4>1. <<mark[t], t>> \in flushing
        BY <3>2 DEF StreamInv, FlushInv, Waiting
      <4>2. <<mark[t], t>>[2] = t
        OBVIOUS
      <4>3. \A e \in es : e = <<mark[t], t>>
        BY <3>1
      <4>4. es = {<<mark[t], t>>}
        BY <4>1, <4>2, <4>3
      <4> HIDE DEF es
      <4>5. Cardinality(es) = 1
        BY <4>4, FS_Singleton
      <4> QED BY <3>2, <4>5 DEF es
    <3>3. CASE flush[t] # "waiting"
      <4>1. es = {}
        BY <3>1, <3>3 DEF Waiting
      <4> HIDE DEF es
      <4>2. Cardinality(es) = 0
        BY <4>1, FS_EmptySet
      <4> QED BY <3>3, <4>2 DEF es
    <3> QED BY <3>2, <3>3
  <2>2. ASSUME NEW e \in flushing
        PROVE  e[1] = out \/ \E i \in DOMAIN agent_msg_queue : agent_msg_queue[i] = e[1]
    <3>1. PICK u \in Waiting : e = <<mark[u], u>>
      BY DEF StreamInv, FlushInv
    <3>2. e[1] = out \/ InSeq(e[1], agent_msg_queue)
      BY <3>1 DEF StreamInv, FlushInv, Waiting
    <3>3. DOMAIN agent_msg_queue = 1 .. Len(agent_msg_queue)
      BY LenProperties DEF StreamInv, ChunkTypes
    <3> QED BY <3>2, <3>3 DEF InSeq
  <2> QED BY <2>1, <2>2 DEF FlushKeyed
<1>3. FlushedIsSent
  <2>1. DOMAIN wire = 1 .. Len(wire)
    BY LenProperties DEF StreamInv, ChunkTypes
  <2> QED BY <2>1 DEF StreamInv, FlushInv, FlushedIsSent, InSeq
<1> QED BY <1>1, <1>2, <1>3

=============================================================================
