-------------------------------- MODULE Pipe --------------------------------
(***************************************************************************)
(* giopipe.c: one direction of a pipe between two parts of the program,    *)
(* without a copy: a write lends its buffer and waits until the reader has *)
(* taken bytes from it, and only its next attempt learns how many.         *)
(*                                                                         *)
(* Both ends use the asynchronous calls of GIO: an attempt if the stream   *)
(* says it is ready, and if it would block a source, made ready with       *)
(* set_all_sources_ready, that makes the next attempt.  The bytes are      *)
(* numbered.                                                               *)
(***************************************************************************)
EXTENDS Integers, Sequences, SequencesExt

CONSTANTS MaxCount, \* bytes of a read or a write
          MaxBytes  \* bytes written

PipeAssumption == MaxCount \in Nat \ {0} /\ MaxBytes \in Nat

VARIABLES
  op,     \* of an end: the call under way, "none", "waits" for its source or "ready"
  asked,  \* of an end: the bytes the call asks for
  closed, \* of an end: its stream is closed
  peer_closed, \* of an end: it was told that the other is
  buffer, \* bytes lent by the writer: none, or their number
  read,   \* bytes taken since the last write returned, -1 when none
  told, got \* bytes the writer was told were taken, bytes the reader got

vars == <<op, asked, closed, peer_closed, buffer, read, told, got>>

Ends == {"in", "out"}
Peer(e) == IF e = "in" THEN "out" ELSE "in"

TypeOK ==
  /\ op \in [Ends -> {"none", "waits", "ready"}] /\ asked \in [Ends -> 0 .. MaxCount]
  /\ closed \in [Ends -> BOOLEAN] /\ peer_closed \in [Ends -> BOOLEAN]
  /\ buffer \in 0 .. MaxCount /\ read \in -1 .. MaxCount
  /\ told \in 0 .. MaxBytes /\ got \in Seq(1 .. MaxBytes)

\* make_gio_pipe
Init ==
  /\ op = [e \in Ends |-> "none"] /\ asked = [e \in Ends |-> 0]
  /\ closed = [e \in Ends |-> FALSE] /\ peer_closed = [e \in Ends |-> FALSE]
  /\ buffer = 0 /\ read = -1 /\ told = 0 /\ got = <<>>

\* pipe_input_stream_is_readable, pipe_output_stream_is_writable
Readable(lent, taken, end) == (lent > 0 /\ taken = -1) \/ end
Writable(lent, taken, end) == lent = 0 \/ taken >= 0 \/ end

\* set_all_sources_ready
Kept(f, e) == f \* a mutant
Woken(f, e) == IF f[e] = "waits" THEN [f EXCEPT ![e] = "ready"] ELSE f

\* What a call asks for is decided when it begins.
Begin(e) ==
  /\ op[e] = "none" /\ ~closed[e]
  /\ e = "out" => told < MaxBytes
  /\ op' = [op EXCEPT ![e] = "ready"]
  /\ \E n \in 1 .. MaxCount : (e = "out" => told + n <= MaxBytes)
                              /\ asked' = [asked EXCEPT ![e] = n]
  /\ UNCHANGED <<closed, peer_closed, buffer, read, told, got>>

Blocks(e) == op' = [op EXCEPT ![e] = "waits"]

\* pipe_input_stream_read
Read ==
  /\ op["in"] = "ready"
  /\ \/ /\ peer_closed["in"] /\ op' = [op EXCEPT !["in"] = "none"]
        /\ UNCHANGED <<buffer, read, got>>
     \/ /\ ~peer_closed["in"] /\ ~Readable(buffer, read, FALSE)
        /\ Blocks("in") /\ UNCHANGED <<buffer, read, got>>
     \/ /\ ~peer_closed["in"] /\ Readable(buffer, read, FALSE)
        /\ LET n == IF buffer < asked["in"] THEN buffer ELSE asked["in"] IN
             read' = n /\ got' = got \o [i \in 1 .. n |-> told + i]
        /\ buffer' = 0
        /\ op' = Woken([op EXCEPT !["in"] = "none"], "out")
  /\ UNCHANGED <<asked, closed, peer_closed, told>>

\* pipe_output_stream_write: the attempt lends the buffer again, and takes it
\* back when bytes were read meanwhile.
Write ==
  /\ op["out"] = "ready"
  /\ \/ /\ ~Writable(buffer, read, peer_closed["out"]) /\ Blocks("out")
        /\ UNCHANGED <<buffer, read, told>>
     \/ /\ peer_closed["out"] /\ op' = [op EXCEPT !["out"] = "none"]
        /\ UNCHANGED <<buffer, read, told>>
     \/ /\ Writable(buffer, read, FALSE) /\ ~peer_closed["out"]
        /\ LET woken == IF Readable(asked["out"], read, peer_closed["in"])
                        THEN Woken(op, "in") ELSE op
           IN \/ /\ read < 0 /\ op' = [woken EXCEPT !["out"] = "waits"]
                 /\ buffer' = asked["out"] /\ UNCHANGED <<read, told>>
              \/ /\ read >= 0 /\ op' = [woken EXCEPT !["out"] = "none"]
                 /\ told' = told + read /\ buffer' = 0 /\ read' = -1
  /\ UNCHANGED <<asked, closed, peer_closed, got>>

\* pipe_input_stream_close, pipe_output_stream_close, by a call of GIO that no
\* call under way at this end precedes; the other end is closed too unless a
\* call is under way there, and its source is made ready.
ClosedWith(e) == {e} \union {x \in {Peer(e)} : op[x] = "none"}
Close(e) ==
  /\ ~closed[e] /\ op[e] = "none"
  /\ closed' = [x \in Ends |-> closed[x] \/ x \in ClosedWith(e)]
  /\ peer_closed' = [x \in Ends |-> peer_closed[x] \/ Peer(x) \in ClosedWith(e)]
  /\ op' = Woken(op, Peer(e))
  /\ UNCHANGED <<asked, buffer, read, told, got>>

Next == Read \/ Write \/ \E e \in Ends : Begin(e) \/ Close(e)

Fairness == WF_vars(Read) /\ WF_vars(Write)
Spec == Init /\ [][Next]_vars /\ Fairness

(***************************************************************************)
(* Properties                                                              *)
(***************************************************************************)
\* Lending instead of copying loses nothing: the reader has the bytes in order,
\* and while the reader lives the writer is told of each exactly once, however
\* the two calls interleave (pipe_input_stream_read, pipe_output_stream_write).
TakenOnce ==
  /\ got = [i \in DOMAIN got |-> i]
  /\ Len(got) = told + (IF read < 0 THEN 0 ELSE read)
  /\ read >= 0 /\ ~peer_closed["out"] => buffer = 0 /\ op["out"] = "ready" /\ read <= asked["out"]

\* No call waits for a source that nobody will make ready: not a read and a
\* write for each other, nor either for an end that is closed.
NobodyWaitsForBoth ==
  /\ ~\A e \in Ends : op[e] = "waits"
  /\ \A e \in Ends : op[e] = "waits" => ~closed[Peer(e)]
=============================================================================
