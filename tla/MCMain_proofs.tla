--------------------------- MODULE MCMain_proofs ---------------------------
(***************************************************************************)
(* Proofs about the machines that MCMain composes: that a file transfer    *)
(* finishes once and its operation outlives its callbacks, that a forwarded*)
(* connection is referenced exactly by what uses it, and that the queue of *)
(* agent messages keeps them whole and its flush requests honest.          *)
(***************************************************************************)
EXTENDS MCMain, AgentQueue_proofs

-----------------------------------------------------------------------------
(* File transfers *)

Asking == {"open", "info", "read"}
OpFields == {"state", "left", "total_sent", "transfer_size", "succeed", "cancelled", "failed",
             "returns", "progress"}
TaskRecord == [completed : BOOLEAN, pending : BOOLEAN, error : F!Errors, file_stream : BOOLEAN,
               read_bytes : Int, file_size : Int, calls : SUBSET F!Calls]

FileTypes ==
  /\ task \in [Files -> TaskRecord] /\ finished \in [Files -> {0, 1}]
  /\ DOMAIN op = Copies /\ (\A o \in Copies : DOMAIN op[o] = OpFields)
  /\ file_started \subseteq Files /\ can_send \subseteq Files

\* An operation returns with the last of its tasks, and once.
FileOps ==
  \A o \in Copies :
    /\ op[o].left \subseteq o
    /\ \/ op[o].state = "new" /\ op[o].returns = 0 /\ op[o].left = {}
       \/ op[o].state = "running" /\ op[o].returns = 0
       \/ op[o].state = "ended" /\ op[o].returns = 1 /\ op[o].left = {}

\* A task that its operation has, which has not finished.
Busy(t) == t \in op[F!OpOf(t)].left

\* Of the calls that take the file, one is under way when the task is pending, and the file
\* is there but for the opening of it.
Steady(tk) ==
  /\ "close" \notin tk.calls
  /\ tk.pending <=> (tk.calls \intersect Asking # {})
  /\ \A x, y \in tk.calls \intersect Asking : x = y
  /\ ~tk.file_stream => tk.calls \subseteq {"open"}
  /\ "open" \in tk.calls => ~tk.file_stream

\* A task that finished asks for nothing any more; that its file is being closed, or was,
\* keeps it pending, and nothing that still comes back finishes it again.
Over(tk) ==
  /\ tk.calls \intersect Asking = {}
  /\ IF tk.file_stream THEN tk.pending ELSE tk.calls = {}

FileTasks ==
  \A t \in Files :
    /\ Busy(t) => finished[t] = 0 /\ Steady(task[t])
    /\ ~Busy(t) /\ finished[t] = 0 => task[t] = F!NewTask
    /\ finished[t] = 1 => ~Busy(t) /\ Over(task[t])
    /\ t \in file_started => Busy(t) \/ finished[t] = 1
    /\ t \in file_started /\ Busy(t) => task[t].file_stream

\* The files of a copy that was not called for
FileNew == \A o \in Copies : op[o].state = "new" => \A t \in o : finished[t] = 0

FileInv == FileTypes /\ FileOps /\ FileTasks /\ FileNew

\* The files of a copy are those of no other.
LEMMA FileOfOne ==
  ASSUME NEW o \in Copies, NEW t \in o
  PROVE  /\ t \in Files /\ F!OpOf(t) = o
         /\ \A p \in Copies : t \in p => p = o
<1>1. \A p \in Copies : t \in p => p = o
  <2> SUFFICES ASSUME NEW p \in Copies, t \in p, p # o PROVE FALSE
    OBVIOUS
  <2>1. [x \in Copies |-> x][o] \intersect [x \in Copies |-> x][p] = {}
    BY MainAssumption DEF F!FileTransferAssumption
  <2> QED BY <2>1
<1>2. t \in [x \in Copies |-> x][o]
  OBVIOUS
<1>3. F!OpOf(t) = CHOOSE p \in Copies : t \in [x \in Copies |-> x][p]
  BY DEF F!OpOf
<1>4. F!OpOf(t) = o
  BY <1>1, <1>2, <1>3
<1> QED BY <1>1, <1>4 DEF Files

LEMMA FileHasCopy ==
  ASSUME NEW t \in Files
  PROVE  F!OpOf(t) \in Copies /\ t \in F!OpOf(t)
<1>1. PICK o \in Copies : t \in o
  BY DEF Files
<1> QED BY <1>1, FileOfOne

\* What the end of the tasks ts does to their operation
LEMMA Finishing ==
  ASSUME NEW o \in Copies, DOMAIN op = Copies, DOMAIN op[o] = OpFields, NEW ts, NEW tk
  PROVE  /\ DOMAIN F!TaskFinished(o, ts, tk) = OpFields
         /\ F!TaskFinished(o, ts, tk).left = op[o].left \ ts
         /\ op[o].left \intersect ts = {} =>
              /\ F!TaskFinished(o, ts, tk).state = op[o].state
              /\ F!TaskFinished(o, ts, tk).returns = op[o].returns
         /\ op[o].left \intersect ts # {} /\ op[o].left \subseteq ts =>
              /\ F!TaskFinished(o, ts, tk).state = "ended"
              /\ F!TaskFinished(o, ts, tk).returns = op[o].returns + 1
         /\ ~(op[o].left \subseteq ts) =>
              /\ F!TaskFinished(o, ts, tk).state = op[o].state
              /\ F!TaskFinished(o, ts, tk).returns = op[o].returns
BY DEF F!TaskFinished, OpFields

\* A task that completes: it only remembers it while a call is pending; otherwise it is over.
LEMMA Completing ==
  ASSUME NEW t, NEW tk \in TaskRecord, NEW e \in F!Errors
  PROVE  /\ F!Complete(t, tk, e) \in TaskRecord
         /\ F!Complete(t, tk, e).file_stream = tk.file_stream
         /\ tk.pending => /\ F!Complete(t, tk, e).calls = tk.calls
                          /\ F!Complete(t, tk, e).pending = tk.pending
                          /\ F!Complete(t, tk, e).error # "none"
         /\ tk.pending /\ Steady(tk) => Steady(F!Complete(t, tk, e))
         /\ tk.pending /\ Over(tk) => Over(F!Complete(t, tk, e))
         /\ ~tk.pending /\ Steady(tk) => Over(F!Complete(t, tk, e))
<1> DEFINE d == F!Complete(t, tk, e)
<1>1. /\ d \in TaskRecord /\ d.file_stream = tk.file_stream
      /\ tk.pending => d.calls = tk.calls /\ d.pending = tk.pending /\ d.error # "none"
      /\ ~tk.pending => /\ d.pending = tk.file_stream
                        /\ d.calls = IF tk.file_stream THEN tk.calls \union {"close"}
                                                       ELSE tk.calls
  BY DEF F!Complete, F!Waits, TaskRecord, F!Errors, F!Calls
<1>2. tk.pending \in BOOLEAN /\ tk.file_stream \in BOOLEAN /\ d.pending \in BOOLEAN
  BY <1>1 DEF TaskRecord
<1> HIDE DEF d
<1>3. tk.pending /\ Steady(tk) => Steady(d)
  BY <1>1, <1>2 DEF Steady, Asking
<1>4. tk.pending /\ Over(tk) => Over(d)
  BY <1>1, <1>2 DEF Over, Asking
<1>5. ~tk.pending /\ Steady(tk) => Over(d)
  <2> SUFFICES ASSUME ~tk.pending, Steady(tk) PROVE Over(d)
    OBVIOUS
  <2>1. tk.calls \intersect Asking = {}
    BY <1>2 DEF Steady
  <2>2. d.calls \intersect Asking = {}
    BY <1>1, <2>1 DEF Asking
  <2>3. ~tk.file_stream => d.calls = {}
    BY <1>1, <2>1 DEF Steady, Asking
  <2> QED BY <1>1, <1>2, <2>2, <2>3 DEF Over
<1> QED BY <1>1, <1>3, <1>4, <1>5 DEF d

\* Task t becomes tk, and its operation keeps it.
LEMMA Keeping ==
  ASSUME FileInv, NEW t \in Files, NEW tk \in TaskRecord,
         task' = [task EXCEPT ![t] = tk], UNCHANGED finished,
         file_started \subseteq file_started', file_started' \subseteq file_started \union {t},
         can_send' \subseteq Files,
         DOMAIN op' = Copies,
         \A o \in Copies : /\ DOMAIN op'[o] = OpFields /\ op'[o].left = op[o].left
                           /\ op'[o].state = op[o].state /\ op'[o].returns = op[o].returns,
         \/ Busy(t) /\ Steady(tk) /\ (t \in file_started' => tk.file_stream)
         \/ ~Busy(t) /\ finished[t] = 1 /\ Over(tk)
  PROVE  FileInv'
<1> USE DEF FileInv
<1>1. \A x \in Files : Busy(x)' <=> Busy(x)
  BY FileHasCopy DEF Busy, F!OpOf
<1>2. task'[t] = tk /\ \A x \in Files \ {t} : task'[x] = task[x]
  BY DEF FileTypes
<1>3. FileTypes'
  BY DEF FileTypes
<1>4. FileOps' /\ FileNew'
  BY DEF FileOps, FileNew
<1>5. FileTasks'
  <2> SUFFICES ASSUME NEW x \in Files
               PROVE  /\ Busy(x)' => finished'[x] = 0 /\ Steady(task'[x])
                      /\ ~Busy(x)' /\ finished'[x] = 0 => task'[x] = F!NewTask
                      /\ finished'[x] = 1 => ~Busy(x)' /\ Over(task'[x])
                      /\ x \in file_started' => Busy(x)' \/ finished'[x] = 1
                      /\ x \in file_started' /\ Busy(x)' => task'[x].file_stream
    BY DEF FileTasks, F!NewTask, Steady, Over
  <2>1. /\ Busy(x) => finished[x] = 0 /\ Steady(task[x])
        /\ ~Busy(x) /\ finished[x] = 0 => task[x] = F!NewTask
        /\ finished[x] = 1 => ~Busy(x) /\ Over(task[x])
        /\ x \in file_started => Busy(x) \/ finished[x] = 1
        /\ x \in file_started /\ Busy(x) => task[x].file_stream
    BY DEF FileTasks
  <2> QED BY <1>1, <1>2, <2>1
<1> QED BY <1>3, <1>4, <1>5

\* Task t completes, from the state tk.
LEMMA Completes ==
  ASSUME FileInv, NEW t \in Files, NEW tk \in TaskRecord, NEW e \in F!Errors,
         F!TaskCompletes(t, tk, e), UNCHANGED <<file_started, can_send>>,
         task[t].file_stream => tk.file_stream,
         \/ Busy(t) /\ Steady(tk)
         \/ ~Busy(t) /\ finished[t] = 1 /\ Over(tk) /\ tk.pending
  PROVE  FileInv'
<1> DEFINE d == F!Complete(t, tk, e)
           o == F!OpOf(t)
           r == F!TaskFinished(o, {t}, task')
<1>1. /\ task' = [task EXCEPT ![t] = d]
      /\ tk.pending => UNCHANGED <<op, finished>>
      /\ ~tk.pending => /\ op' = [op EXCEPT ![o] = r]
                        /\ finished' = [finished EXCEPT ![t] = @ + 1]
  BY DEF F!TaskCompletes, F!Waits
<1>2. /\ d \in TaskRecord /\ d.file_stream = tk.file_stream
      /\ tk.pending /\ Steady(tk) => Steady(d)
      /\ tk.pending /\ Over(tk) => Over(d)
      /\ ~tk.pending /\ Steady(tk) => Over(d)
  BY Completing
<1>3. o \in Copies /\ t \in o
  BY FileHasCopy
<1> HIDE DEF d, o, r
<1>t. task \in [Files -> TaskRecord] /\ task[t] \in TaskRecord
  BY DEF FileInv, FileTypes
<1>4. CASE tk.pending
  <2>1. \/ Busy(t) /\ Steady(d) /\ (t \in file_started' => d.file_stream)
        \/ ~Busy(t) /\ finished[t] = 1 /\ Over(d)
    BY <1>2, <1>4 DEF FileInv, FileTasks
  <2> QED
    BY <1>1, <1>2, <1>4, <2>1, Keeping DEF FileInv, FileTypes
<1>5. CASE ~tk.pending
  <2> USE DEF FileInv
  <2>1. Busy(t) /\ Steady(tk) /\ finished[t] = 0 /\ Over(d)
    BY <1>2, <1>5 DEF FileTasks
  <2>2. /\ DOMAIN r = OpFields /\ r.left = op[o].left \ {t}
        /\ op[o].left # {t} => r.state = op[o].state /\ r.returns = op[o].returns
        /\ op[o].left = {t} => r.state = "ended" /\ r.returns = op[o].returns + 1
    <3>1. t \in op[o].left
      BY <2>1 DEF Busy, o
    <3>2. DOMAIN op = Copies /\ DOMAIN op[o] = OpFields
      BY <1>3 DEF FileTypes
    <3> QED BY <1>3, <3>1, <3>2, Finishing DEF r
  <2>3. op'[o] = r /\ \A p \in Copies \ {o} : op'[p] = op[p]
    BY <1>1, <1>3, <1>5 DEF FileTypes
  <2>4. op[o].state = "running" /\ op[o].returns = 0 /\ op[o].left \subseteq o
    BY <1>3, <2>1 DEF FileOps, Busy, o
  <2>5. finished'[t] = 1 /\ \A x \in Files \ {t} : finished'[x] = finished[x] /\ task'[x] = task[x]
    BY <1>1, <1>5, <2>1 DEF FileTypes
  <2>6. FileTypes'
    BY <1>1, <1>2, <1>3, <1>5, <2>1, <2>2, <2>3 DEF FileTypes
  <2>7. FileOps'
    BY <2>2, <2>3, <2>4 DEF FileOps
  <2>8. FileNew'
    <3> SUFFICES ASSUME NEW p \in Copies, op'[p].state = "new", NEW x \in p
                 PROVE  finished'[x] = 0
      BY DEF FileNew
    <3>1. p # o /\ op[p].state = "new"
      BY <2>2, <2>3, <2>4
    <3>2. x \in Files /\ x # t
      BY <3>1, <1>3, FileOfOne
    <3> QED BY <3>1, <3>2, <2>5 DEF FileNew
  <2>9. /\ ~Busy(t)' /\ \A x \in Files \ {t} : Busy(x)' <=> Busy(x)
    BY <2>2, <2>3, FileHasCopy, FileOfOne DEF Busy, o, F!OpOf
  <2>10. FileTasks'
    <3> SUFFICES ASSUME NEW x \in Files
                 PROVE  /\ Busy(x)' => finished'[x] = 0 /\ Steady(task'[x])
                        /\ ~Busy(x)' /\ finished'[x] = 0 => task'[x] = F!NewTask
                        /\ finished'[x] = 1 => ~Busy(x)' /\ Over(task'[x])
                        /\ x \in file_started' => Busy(x)' \/ finished'[x] = 1
                        /\ x \in file_started' /\ Busy(x)' => task'[x].file_stream
      BY DEF FileTasks, F!NewTask, Steady, Over
    <3>1. CASE x = t
      <4>1. task'[t] = d
        BY <1>1, <1>t
      <4> QED BY <3>1, <4>1, <2>1, <2>5, <2>9
    <3>2. CASE x # t
      BY <3>2, <2>5, <2>9 DEF FileTasks
    <3> QED BY <3>1, <3>2
  <2> QED BY <2>6, <2>7, <2>8, <2>10
<1> QED BY <1>4, <1>5, <1>t DEF TaskRecord

\* What a call leaves when it returns: one that takes the file was of a busy task, which is
\* idle then; the others return to finished tasks too, and change nothing.
LEMMA Returning ==
  ASSUME FileInv, NEW t \in Files, NEW c \in task[t].calls
  PROVE  /\ c \notin Asking =>
              /\ F!Back(t, c) \in TaskRecord
              /\ F!Back(t, c).file_stream = task[t].file_stream
              /\ F!Back(t, c).pending = task[t].pending
              /\ task[t].file_stream
              /\ \/ Busy(t) /\ Steady(F!Back(t, c))
                 \/ ~Busy(t) /\ finished[t] = 1 /\ Over(F!Back(t, c)) /\ F!Back(t, c).pending
         /\ c \in Asking =>
              /\ Busy(t) /\ F!Idle(t, c) \in TaskRecord /\ Steady(F!Idle(t, c))
              /\ ~F!Idle(t, c).pending /\ F!Idle(t, c).calls \intersect Asking = {}
              /\ F!Idle(t, c).error = task[t].error
              /\ F!Idle(t, c).file_stream = task[t].file_stream
              /\ c # "open" => task[t].file_stream
              /\ c = "open" => ~task[t].file_stream /\ F!Idle(t, c).calls = {}
<1> DEFINE k == task[t]
           b == F!Back(t, c)
           i == F!Idle(t, c)
<1>1. k \in TaskRecord /\ c \in F!Calls
  BY DEF FileInv, FileTypes, TaskRecord
<1>2. /\ b \in TaskRecord /\ b.calls = k.calls \ {c} /\ b.pending = k.pending
      /\ b.file_stream = k.file_stream /\ b.error = k.error
  BY <1>1 DEF F!Back, TaskRecord
<1>3. /\ i \in TaskRecord /\ i.calls = k.calls \ {c} /\ i.pending = FALSE
      /\ i.file_stream = k.file_stream /\ i.error = k.error
  BY <1>1, <1>2 DEF F!Idle, TaskRecord
<1>4. \/ Busy(t) /\ Steady(k)
      \/ ~Busy(t) /\ finished[t] = 1 /\ Over(k)
  <2>1. Busy(t) => Steady(k)
    BY DEF FileInv, FileTasks
  <2>2. ~Busy(t) => finished[t] = 1 /\ Over(k)
    <3> SUFFICES ASSUME ~Busy(t) PROVE finished[t] = 1 /\ Over(k)
      OBVIOUS
    <3>1. k # F!NewTask
      BY DEF F!NewTask
    <3> QED BY <3>1 DEF FileInv, FileTasks, FileTypes
  <2> QED BY <2>1, <2>2
<1>t. k.pending \in BOOLEAN /\ k.file_stream \in BOOLEAN
  BY <1>1 DEF TaskRecord
<1> HIDE DEF k, b, i
<1>c. c \in k.calls
  BY DEF k
<1>5. ASSUME c \notin Asking
      PROVE  k.file_stream /\ \/ Busy(t) /\ Steady(b)
                              \/ ~Busy(t) /\ finished[t] = 1 /\ Over(b) /\ b.pending
  <2>1. CASE Busy(t) /\ Steady(k)
    <3>1. k.file_stream
      BY <1>5, <1>c, <1>t, <2>1 DEF Steady, Asking
    <3>2. Steady(b)
      BY <1>2, <1>5, <1>t, <2>1, <3>1 DEF Steady
    <3> QED BY <2>1, <3>1, <3>2
  <2>2. CASE ~Busy(t) /\ finished[t] = 1 /\ Over(k)
    <3>1. k.file_stream /\ k.pending
      BY <1>c, <1>t, <2>2 DEF Over
    <3>2. Over(b) /\ b.pending
      BY <1>2, <2>2, <3>1 DEF Over
    <3> QED BY <2>2, <3>1, <3>2
  <2> QED BY <1>4, <2>1, <2>2
<1>6. ASSUME c \in Asking
      PROVE  /\ Busy(t) /\ Steady(i) /\ i.calls \intersect Asking = {}
             /\ c # "open" => k.file_stream
             /\ c = "open" => ~k.file_stream /\ i.calls = {}
  <2>1. Busy(t) /\ Steady(k)
    BY <1>4, <1>6, <1>c DEF Over
  <2>2. /\ c # "open" => k.file_stream
        /\ c = "open" => ~k.file_stream /\ k.calls = {"open"}
    BY <1>c, <1>t, <2>1 DEF Steady
  <2>3. i.calls \intersect Asking = {}
    BY <1>3, <1>6, <1>c, <2>1 DEF Steady
  <2>4. Steady(i)
    BY <1>3, <1>6, <1>t, <2>1, <2>2, <2>3 DEF Steady, Asking
  <2> QED BY <1>3, <2>1, <2>2, <2>3, <2>4
<1> QED BY <1>2, <1>3, <1>5, <1>6 DEF k, b, i

\* spice_file_transfer_task_read_async
LEMMA Reading ==
  ASSUME NEW tk \in TaskRecord, tk.file_stream
  PROVE  /\ F!ReadAsync(tk) \in TaskRecord /\ F!ReadAsync(tk).file_stream
         /\ Steady(tk) => Steady(F!ReadAsync(tk))
         /\ tk.pending /\ Over(tk) => Over(F!ReadAsync(tk))
<1> DEFINE r == F!ReadAsync(tk)
<1>1. /\ r \in TaskRecord /\ r.file_stream = tk.file_stream
      /\ \/ r.pending = tk.pending /\ r.calls = tk.calls \union {"busy"} /\ tk.pending
         \/ r.pending = tk.pending /\ r.calls = tk.calls \union {"eof"} /\ ~tk.pending
         \/ r.pending = TRUE /\ r.calls = tk.calls \union {"read"} /\ ~tk.pending
  BY DEF F!ReadAsync, TaskRecord, F!Calls
<1>2. tk.pending \in BOOLEAN /\ tk.file_stream \in BOOLEAN /\ r.pending \in BOOLEAN
  BY <1>1 DEF TaskRecord
<1> HIDE DEF r
<1>3. Steady(tk) => Steady(r)
  <2> SUFFICES ASSUME Steady(tk) PROVE Steady(r)
    OBVIOUS
  <2>1. CASE r.calls = tk.calls \union {"busy"} /\ r.pending = tk.pending
    BY <1>1, <1>2, <2>1 DEF Steady, Asking
  <2>2. CASE r.calls = tk.calls \union {"eof"} /\ r.pending = tk.pending
    BY <1>1, <1>2, <2>2 DEF Steady, Asking
  <2>3. CASE r.calls = tk.calls \union {"read"} /\ r.pending = TRUE /\ ~tk.pending
    <3>1. tk.calls \intersect Asking = {}
      BY <1>2, <2>3 DEF Steady
    <3>2. r.calls \intersect Asking = {"read"}
      BY <2>3, <3>1 DEF Asking
    <3> QED BY <1>1, <2>3, <3>2 DEF Steady, Asking
  <2> QED BY <1>1, <2>1, <2>2, <2>3
<1>4. tk.pending /\ Over(tk) => Over(r)
  BY <1>1, <1>2 DEF Over, Asking
<1> QED BY <1>1, <1>3, <1>4 DEF r

LEMMA Outcome == ASSUME NEW t, NEW e \in F!Outcomes(t) PROVE e \in F!Errors
BY DEF F!Outcomes, F!Errors

\* Figures of an operation, that nothing but the reports reads
LEMMA Figures ==
  ASSUME DOMAIN op = Copies, \A o \in Copies : DOMAIN op[o] = OpFields, NEW o \in Copies,
         NEW f \in {"total_sent", "transfer_size", "progress"}, NEW v,
         op' = [op EXCEPT ![o] = [@ EXCEPT ![f] = v]]
  PROVE  /\ DOMAIN op' = Copies
         /\ \A p \in Copies : /\ DOMAIN op'[p] = OpFields /\ op'[p].left = op[p].left
                              /\ op'[p].state = op[p].state /\ op'[p].returns = op[p].returns
BY DEF OpFields

LEMMA OpenedKeeps ==
  ASSUME FileInv, NEW t \in Files, F!Opened(t) PROVE FileInv'
<1>1. PICK e \in F!Outcomes(t) :
        LET tk == [F!Idle(t, "open") EXCEPT !.file_stream = e = "none"]
        IN IF e # "none" \/ tk.error # "none"
             THEN F!TaskCompletes(t, tk, e)
             ELSE /\ task' = [task EXCEPT ![t] =
                       [tk EXCEPT !.pending = TRUE, !.calls = @ \union {"info"}]]
                  /\ UNCHANGED <<op, finished>>
  BY DEF F!Opened
<1>2. "open" \in task[t].calls /\ UNCHANGED <<file_started, can_send>>
  BY DEF F!Opened
<1>3. /\ Busy(t) /\ F!Idle(t, "open") \in TaskRecord /\ ~F!Idle(t, "open").pending
      /\ F!Idle(t, "open").calls = {} /\ ~task[t].file_stream
  BY <1>2, Returning DEF Asking
<1>4. e \in F!Errors
  BY Outcome
<1> DEFINE tk == [F!Idle(t, "open") EXCEPT !.file_stream = e = "none"]
<1>5. tk \in TaskRecord /\ ~tk.pending /\ tk.calls = {} /\ tk.file_stream = (e = "none")
  BY <1>3 DEF TaskRecord
<1>6. t \notin file_started
  BY <1>3 DEF FileInv, FileTasks
<1>7. CASE F!TaskCompletes(t, tk, e)
  <2>1. Steady(tk)
    BY <1>5 DEF Steady
  <2> HIDE DEF tk
  <2> QED BY <1>2, <1>3, <1>4, <1>5, <1>7, <2>1, Completes DEF TaskRecord
<1>8. CASE /\ e = "none" /\ UNCHANGED <<op, finished>>
           /\ task' = [task EXCEPT ![t] =
                         [tk EXCEPT !.pending = TRUE, !.calls = @ \union {"info"}]]
  <2> DEFINE d == [tk EXCEPT !.pending = TRUE, !.calls = @ \union {"info"}]
  <2>1. /\ d \in TaskRecord /\ d.pending = TRUE /\ d.calls = {"info"}
        /\ d.file_stream = tk.file_stream
    BY <1>5 DEF TaskRecord, F!Calls
  <2>2. d.file_stream /\ Steady(d)
    BY <1>5, <1>8, <2>1 DEF Steady, Asking
  <2> HIDE DEF d, tk
  <2>3. task' = [task EXCEPT ![t] = d]
    BY <1>8 DEF d
  <2>4. file_started' = file_started /\ can_send' = can_send /\ op' = op /\ finished' = finished
    BY <1>2, <1>8
  <2>5. /\ can_send' \subseteq Files /\ DOMAIN op' = Copies
        /\ \A o \in Copies : DOMAIN op'[o] = OpFields
    BY <2>4 DEF FileInv, FileTypes
  <2>6. Busy(t) /\ Steady(d) /\ (t \in file_started' => d.file_stream)
    BY <1>3, <2>2
  <2> QED BY <2>1, <2>3, <2>4, <2>5, <2>6, Keeping
<1> QED BY <1>1, <1>7, <1>8


LEMMA Staying ==
  ASSUME FileInv, NEW t \in Files, NEW tk \in TaskRecord,
         task' = [task EXCEPT ![t] = tk], UNCHANGED <<op, finished, file_started>>,
         can_send' \subseteq Files, task[t].file_stream => tk.file_stream,
         \/ Busy(t) /\ Steady(tk)
         \/ ~Busy(t) /\ finished[t] = 1 /\ Over(tk)
  PROVE  FileInv'
<1>1. /\ DOMAIN op' = Copies /\ \A o \in Copies : DOMAIN op'[o] = OpFields
      /\ file_started' = file_started /\ op' = op /\ finished' = finished
  BY DEF FileInv, FileTypes
<1>2. \/ Busy(t) /\ Steady(tk) /\ (t \in file_started' => tk.file_stream)
      \/ ~Busy(t) /\ finished[t] = 1 /\ Over(tk)
  BY <1>1 DEF FileInv, FileTasks
<1> QED BY <1>1, <1>2, Keeping

LEMMA SizeIsNat ==
  ASSUME NEW t \in Files
  PROVE  [x \in Files |-> IF x \in EmptyFiles THEN 0 ELSE Blocks][t] \in Nat
BY MainAssumption DEF F!FileTransferAssumption

LEMMA InfoDoneKeeps ==
  ASSUME FileInv, NEW t \in Files, F!InfoDone(t) PROVE FileInv'
<1> DEFINE n == [x \in Files |-> IF x \in EmptyFiles THEN 0 ELSE Blocks][t]
           i == F!Idle(t, "info")
           sized == [i EXCEPT !.file_size = n]
           o == F!OpOf(t)
<1>1. PICK e \in F!Outcomes(t) :
        \/ /\ F!TaskCompletes(t, i, e) /\ UNCHANGED file_started
        \/ /\ task' = [task EXCEPT ![t] = sized]
           /\ op' = [op EXCEPT ![o].transfer_size = @ + n]
           /\ file_started' = file_started \union {t} /\ UNCHANGED finished
        \/ /\ F!TaskCompletes(t, sized, "cancelled") /\ UNCHANGED file_started
  BY DEF F!InfoDone
<1>2. "info" \in task[t].calls /\ UNCHANGED can_send
  BY DEF F!InfoDone
<1>3. /\ Busy(t) /\ i \in TaskRecord /\ Steady(i) /\ task[t].file_stream
      /\ i.file_stream = task[t].file_stream
  BY <1>2, Returning DEF Asking
<1>4. e \in F!Errors /\ "cancelled" \in F!Errors
  BY Outcome DEF F!Errors
<1>5. /\ sized \in TaskRecord /\ Steady(sized) /\ sized.file_stream = i.file_stream
  <2>1. n \in Int
    BY SizeIsNat
  <2> HIDE DEF n, i
  <2> QED BY <1>3, <2>1 DEF TaskRecord, Steady
<1> HIDE DEF i, sized
<1>6. CASE F!TaskCompletes(t, i, e) /\ UNCHANGED file_started
  BY <1>2, <1>3, <1>4, <1>6, Completes
<1>7. CASE F!TaskCompletes(t, sized, "cancelled") /\ UNCHANGED file_started
  BY <1>2, <1>3, <1>4, <1>5, <1>7, Completes
<1>8. CASE /\ task' = [task EXCEPT ![t] = sized]
           /\ op' = [op EXCEPT ![o].transfer_size = @ + n]
           /\ file_started' = file_started \union {t} /\ UNCHANGED finished
  <2>1. op' = [op EXCEPT ![o] = [@ EXCEPT !["transfer_size"] = op[o].transfer_size + n]]
    <3>1. o \in Copies /\ DOMAIN op = Copies
      BY FileHasCopy DEF FileInv, FileTypes
    <3> HIDE DEF n, o
    <3> QED BY <1>8, <3>1
  <2> HIDE DEF n
  <2>2. /\ DOMAIN op' = Copies
        /\ \A p \in Copies : /\ DOMAIN op'[p] = OpFields /\ op'[p].left = op[p].left
                             /\ op'[p].state = op[p].state /\ op'[p].returns = op[p].returns
    BY <2>1, Figures, FileHasCopy DEF FileInv, FileTypes
  <2>3. file_started \subseteq file_started' /\ file_started' \subseteq file_started \union {t}
    BY <1>8
  <2>4. can_send' \subseteq Files
    BY <1>2 DEF FileInv, FileTypes
  <2>5. Busy(t) /\ Steady(sized) /\ (t \in file_started' => sized.file_stream)
    BY <1>3, <1>5
  <2> QED BY <1>5, <1>8, <2>2, <2>3, <2>4, <2>5, Keeping
<1> QED BY <1>1, <1>6, <1>7, <1>8

LEMMA ReadDoneKeeps ==
  ASSUME FileInv, NEW t \in Files, F!ReadDone(t) PROVE FileInv'
<1> DEFINE i == F!Idle(t, "read")
           read == [i EXCEPT !.read_bytes = @ + 1]
           toFlush == [read EXCEPT !.calls = @ \union {"flush"}]
           o == F!OpOf(t)
<1>1. PICK e \in F!Outcomes(t) :
        \/ F!TaskCompletes(t, i, e)
        \/ F!BlockRead(t, read)
        \/ task' = [task EXCEPT ![t] = i] /\ UNCHANGED <<op, finished>>
        \/ F!TaskCompletes(t, read, "cancelled")
  BY DEF F!ReadDone
<1>2. "read" \in task[t].calls /\ UNCHANGED <<can_send, file_started>>
  BY DEF F!ReadDone
<1>3. /\ Busy(t) /\ i \in TaskRecord /\ Steady(i) /\ task[t].file_stream
      /\ i.file_stream = task[t].file_stream
  BY <1>2, Returning DEF Asking
<1>4. e \in F!Errors /\ "cancelled" \in F!Errors
  BY Outcome DEF F!Errors
<1> HIDE DEF i
<1>5. /\ read \in TaskRecord /\ Steady(read) /\ read.file_stream = i.file_stream
  <2>1. /\ read \in TaskRecord /\ read.file_stream = i.file_stream
        /\ read.pending = i.pending /\ read.calls = i.calls
    <3>1. PICK n \in Int : n = i.read_bytes + 1
      BY <1>3 DEF TaskRecord
    <3>2. read = [i EXCEPT !.read_bytes = n]
      BY <3>1
    <3> HIDE DEF read
    <3> QED BY <1>3, <3>2 DEF TaskRecord
  <2> HIDE DEF read
  <2> QED BY <1>3, <2>1 DEF Steady
<1> HIDE DEF read
<1>6. /\ toFlush \in TaskRecord /\ Steady(toFlush) /\ toFlush.file_stream = i.file_stream
  <2>1. /\ toFlush \in TaskRecord /\ toFlush.file_stream = i.file_stream
        /\ toFlush.pending = read.pending /\ toFlush.calls = read.calls \union {"flush"}
    BY <1>5 DEF TaskRecord, F!Calls
  <2> HIDE DEF toFlush
  <2>2. toFlush.calls \intersect Asking = read.calls \intersect Asking
    BY <2>1 DEF Asking
  <2>3. Steady(toFlush)
    BY <1>3, <1>5, <2>1, <2>2 DEF Steady
  <2> QED BY <2>1, <2>3
<1>7. can_send' \subseteq Files
  BY <1>2 DEF FileInv, FileTypes
<1>8. CASE F!TaskCompletes(t, i, e)
  BY <1>2, <1>3, <1>4, <1>8, Completes
<1>9. CASE F!TaskCompletes(t, read, "cancelled")
  BY <1>2, <1>3, <1>4, <1>5, <1>9, Completes
<1>10. CASE task' = [task EXCEPT ![t] = i] /\ UNCHANGED <<op, finished>>
  BY <1>2, <1>3, <1>7, <1>10, Staying
<1>11. CASE F!BlockRead(t, read)
  <2>1. \/ task' = [task EXCEPT ![t] = read] /\ UNCHANGED op
        \/ /\ task' = [task EXCEPT ![t] = toFlush]
           /\ op' = [op EXCEPT ![o].total_sent = @ + 1]
    BY <1>11 DEF F!BlockRead
  <2>2. UNCHANGED finished
    BY <1>11 DEF F!BlockRead
  <2>3. CASE task' = [task EXCEPT ![t] = read] /\ UNCHANGED op
    BY <1>2, <1>3, <1>5, <1>7, <2>2, <2>3, Staying
  <2>4. CASE /\ task' = [task EXCEPT ![t] = toFlush]
             /\ op' = [op EXCEPT ![o].total_sent = @ + 1]
    <3>1. op' = [op EXCEPT ![o] = [@ EXCEPT !["total_sent"] = op[o].total_sent + 1]]
      <4>1. o \in Copies /\ DOMAIN op = Copies
        BY FileHasCopy DEF FileInv, FileTypes
      <4> HIDE DEF o
      <4> QED BY <2>4, <4>1
    <3>2. /\ DOMAIN op' = Copies
          /\ \A p \in Copies : /\ DOMAIN op'[p] = OpFields /\ op'[p].left = op[p].left
                               /\ op'[p].state = op[p].state /\ op'[p].returns = op[p].returns
      BY <3>1, Figures, FileHasCopy DEF FileInv, FileTypes
    <3>3. file_started' = file_started
      BY <1>2
    <3>5. Busy(t) /\ Steady(toFlush) /\ (t \in file_started' => toFlush.file_stream)
      BY <1>3, <1>6
    <3> HIDE DEF toFlush
    <3> QED BY <1>6, <1>7, <2>2, <2>4, <3>2, <3>3, <3>5, Keeping
  <2> QED BY <2>1, <2>3, <2>4
<1> QED BY <1>1, <1>8, <1>9, <1>10, <1>11

LEMMA EofDoneKeeps ==
  ASSUME FileInv, NEW t \in Files, F!EofDone(t) PROVE FileInv'
<1> DEFINE b == F!Back(t, "eof")
<1>1. /\ "eof" \in task[t].calls /\ UNCHANGED <<can_send, file_started>>
      /\ \/ F!TaskCompletes(t, b, "cancelled")
         \/ task' = [task EXCEPT ![t] = b] /\ UNCHANGED <<op, finished>>
  BY DEF F!EofDone
<1>2. /\ b \in TaskRecord /\ b.file_stream = task[t].file_stream
      /\ \/ Busy(t) /\ Steady(b)
         \/ ~Busy(t) /\ finished[t] = 1 /\ Over(b) /\ b.pending
  BY <1>1, Returning DEF Asking
<1>3. "cancelled" \in F!Errors /\ can_send' \subseteq Files
  BY <1>1 DEF F!Errors, FileInv, FileTypes
<1> HIDE DEF b
<1>4. CASE F!TaskCompletes(t, b, "cancelled")
  BY <1>1, <1>2, <1>3, <1>4, Completes
<1>5. CASE task' = [task EXCEPT ![t] = b] /\ UNCHANGED <<op, finished>>
  BY <1>1, <1>2, <1>3, <1>5, Staying
<1> QED BY <1>1, <1>4, <1>5

LEMMA BusyDoneKeeps ==
  ASSUME FileInv, NEW t \in Files, F!BusyDone(t) PROVE FileInv'
<1> DEFINE b == F!Back(t, "busy")
<1>1. PICK e \in F!Errors :
        /\ "busy" \in task[t].calls /\ UNCHANGED <<can_send, file_started>>
        /\ F!TaskCompletes(t, b, e)
  BY DEF F!BusyDone, F!Errors
<1>2. /\ b \in TaskRecord /\ b.file_stream = task[t].file_stream
      /\ \/ Busy(t) /\ Steady(b)
         \/ ~Busy(t) /\ finished[t] = 1 /\ Over(b) /\ b.pending
  BY <1>1, Returning DEF Asking
<1> QED BY <1>1, <1>2, Completes

LEMMA FlushedKeeps ==
  ASSUME FileInv, NEW t \in Files, F!Flushed(t) PROVE FileInv'
<1> DEFINE b == F!Back(t, "flush")
           o == F!OpOf(t)
<1>1. "flush" \in task[t].calls /\ UNCHANGED <<can_send, file_started>>
  BY DEF F!Flushed
<1>2. /\ b \in TaskRecord /\ b.file_stream = task[t].file_stream /\ task[t].file_stream
      /\ \/ Busy(t) /\ Steady(b)
         \/ ~Busy(t) /\ finished[t] = 1 /\ Over(b) /\ b.pending
  BY <1>1, Returning DEF Asking
<1>3. "cancelled" \in F!Errors /\ can_send' \subseteq Files /\ file_started' = file_started
  BY <1>1 DEF F!Errors, FileInv, FileTypes
<1> HIDE DEF b
<1>4. CASE F!TaskCompletes(t, b, "cancelled")
  BY <1>1, <1>2, <1>3, <1>4, Completes
<1>5. ASSUME NEW d \in {b, F!ReadAsync(b)}, task' = [task EXCEPT ![t] = d], UNCHANGED finished,
             NEW v, op' = [op EXCEPT ![o].progress = v]
      PROVE  FileInv'
  <2>1. /\ d \in TaskRecord /\ d.file_stream
        /\ \/ Busy(t) /\ Steady(d)
           \/ ~Busy(t) /\ finished[t] = 1 /\ Over(d)
    <3>1. CASE d = b
      BY <1>2, <3>1
    <3>2. CASE d = F!ReadAsync(b)
      BY <1>2, <3>2, Reading
    <3> QED BY <1>5, <3>1, <3>2
  <2>2. op' = [op EXCEPT ![o] = [@ EXCEPT !["progress"] = v]]
    <3>1. o \in Copies /\ DOMAIN op = Copies
      BY FileHasCopy DEF FileInv, FileTypes
    <3> HIDE DEF o
    <3> QED BY <1>5, <3>1
  <2>3. /\ DOMAIN op' = Copies
        /\ \A p \in Copies : /\ DOMAIN op'[p] = OpFields /\ op'[p].left = op[p].left
                             /\ op'[p].state = op[p].state /\ op'[p].returns = op[p].returns
    BY <2>2, Figures, FileHasCopy DEF FileInv, FileTypes
  <2> QED BY <1>3, <1>5, <2>1, <2>3, Keeping
<1>6. \/ F!TaskCompletes(t, b, "cancelled")
      \/ \E d \in {b, F!ReadAsync(b)}, v \in {op[o].progress, <<op[o].total_sent, op[o].transfer_size>>} :
           /\ task' = [task EXCEPT ![t] = d] /\ UNCHANGED finished
           /\ op' = [op EXCEPT ![o].progress = v]
  BY DEF F!Flushed, b
<1> QED BY <1>4, <1>5, <1>6

LEMMA ClosedKeeps ==
  ASSUME FileInv, NEW t \in Files, F!Closed(t) PROVE FileInv'
<1> DEFINE b == F!Back(t, "close")
<1>1. /\ "close" \in task[t].calls /\ UNCHANGED <<can_send, file_started, op, finished>>
      /\ task' = [task EXCEPT ![t] = b]
  BY DEF F!Closed
<1>2. /\ b \in TaskRecord /\ b.file_stream = task[t].file_stream
      /\ \/ Busy(t) /\ Steady(b)
         \/ ~Busy(t) /\ finished[t] = 1 /\ Over(b)
  BY <1>1, Returning DEF Asking
<1>3. can_send' \subseteq Files
  BY <1>1 DEF FileInv, FileTypes
<1> HIDE DEF b
<1> QED BY <1>1, <1>2, <1>3, Staying

\* What the agent may say is of a task that its operation has and that was announced.
LEMMA KnownIsBusy ==
  ASSUME FileInv, NEW t \in Files, F!Known(t)
  PROVE  Busy(t) /\ Steady(task[t]) /\ task[t].file_stream /\ task[t] \in TaskRecord
BY DEF F!Known, Busy, FileInv, FileTasks, FileTypes

LEMMA CanSendKeeps ==
  ASSUME FileInv, NEW t \in Files, F!CanSend(t) PROVE FileInv'
<1> DEFINE d == F!ReadAsync(task[t])
<1>1. /\ F!Known(t) /\ task' = [task EXCEPT ![t] = d]
      /\ UNCHANGED <<file_started, op, finished>> /\ can_send' = can_send \union {t}
  BY DEF F!CanSend
<1>2. d \in TaskRecord /\ d.file_stream /\ Steady(d) /\ Busy(t)
  BY <1>1, KnownIsBusy, Reading
<1>3. can_send' \subseteq Files
  BY <1>1 DEF FileInv, FileTypes
<1> HIDE DEF d
<1> QED BY <1>1, <1>2, <1>3, Staying

LEMMA AgentSaysKeeps ==
  ASSUME FileInv, NEW t \in Files, F!AgentSuccess(t) \/ F!AgentError(t) PROVE FileInv'
<1>1. PICK e \in F!Errors : /\ F!Known(t) /\ F!TaskCompletes(t, task[t], e)
                            /\ UNCHANGED <<can_send, file_started>>
  BY DEF F!AgentSuccess, F!AgentError, F!Errors
<1> QED BY <1>1, KnownIsBusy, Completes

\* A cancellation, and the return of the agent
LEMMA QuietKeeps ==
  ASSUME FileInv, UNCHANGED <<task, op, finished, file_started, can_send>> PROVE FileInv'
BY DEF FileInv, FileTypes, FileOps, FileTasks, FileNew, Busy, F!OpOf, Steady, Over, F!NewTask

LEMMA NewTaskIsSteady ==
  /\ F!NewTask \in TaskRecord /\ Steady(F!NewTask) /\ ~F!NewTask.pending
  /\ [F!NewTask EXCEPT !.pending = TRUE, !.calls = {"open"}] \in TaskRecord
  /\ Steady([F!NewTask EXCEPT !.pending = TRUE, !.calls = {"open"}])
<1>1. F!NewTask \in TaskRecord /\ Steady(F!NewTask) /\ ~F!NewTask.pending
  BY DEF F!NewTask, TaskRecord, F!Errors, Steady, Asking
<1> DEFINE d == [F!NewTask EXCEPT !.pending = TRUE, !.calls = {"open"}]
<1>2. d \in TaskRecord /\ d.pending = TRUE /\ d.calls = {"open"} /\ d.file_stream = FALSE
  <2>1. F!NewTask.file_stream = FALSE
    BY DEF F!NewTask
  <2> HIDE DEF F!NewTask
  <2> QED BY <1>1, <2>1 DEF TaskRecord, F!Calls
<1> HIDE DEF d
<1>3. Steady(d)
  BY <1>2 DEF Steady, Asking
<1> QED BY <1>1, <1>2, <1>3 DEF d

LEMMA CopyKeeps ==
  ASSUME FileInv, NEW o \in Copies, F!Copy(o) PROVE FileInv'
<1> DEFINE opening == [F!NewTask EXCEPT !.pending = TRUE, !.calls = {"open"}]
           lost(x) == F!Complete(x, F!NewTask, "failed")
<1>1. op[o].state = "new" /\ UNCHANGED <<file_started, can_send>>
  BY DEF F!Copy
<1>2. op[o].left = {} /\ op[o].returns = 0
  BY <1>1 DEF FileInv, FileOps
<1>3. \A x \in o : /\ x \in Files /\ F!OpOf(x) = o /\ finished[x] = 0 /\ ~Busy(x)
                   /\ task[x] = F!NewTask /\ x \notin file_started
  BY <1>1, <1>2, FileOfOne DEF FileInv, FileNew, FileTasks, Busy
<1>4. \A x \in Files \ o : F!OpOf(x) \in Copies \ {o}
  BY FileHasCopy
<1> DEFINE begun(ts) == [op EXCEPT ![o].state = "running", ![o].left = ts]
           ended(ts) == [begun(ts) EXCEPT ![o].state = "ended", ![o].left = {},
                                          ![o].returns = 1, ![o].failed = F!Cardinality(ts)]
<1>5. PICK ts \in {{}, o} :
        /\ task' = [x \in Files |->
                      IF x \notin ts THEN task[x]
                      ELSE IF ~file_agent_connected THEN F!Complete(x, task[x], "failed")
                      ELSE [task[x] EXCEPT !.pending = TRUE, !.calls = {"open"}]]
        /\ IF file_agent_connected \/ ts = {}
             THEN op' = begun(ts) /\ UNCHANGED finished
             ELSE /\ op' = ended(ts)
                  /\ finished' = [x \in Files |-> IF x \in ts THEN 1 ELSE finished[x]]
  <2>1. [x \in Copies |-> x][o] = o
    OBVIOUS
  <2>2. PICK dead \in BOOLEAN :
          LET ts == F!Created(o, dead) IN
          /\ task' = [x \in Files |->
                        IF x \notin ts THEN task[x]
                        ELSE IF ~file_agent_connected THEN F!Complete(x, task[x], "failed")
                        ELSE [task[x] EXCEPT !.pending = TRUE, !.calls = {"open"}]]
          /\ IF file_agent_connected \/ ts = {}
               THEN op' = begun(ts) /\ UNCHANGED finished
               ELSE /\ op' = ended(ts)
                    /\ finished' = [x \in Files |-> IF x \in ts THEN 1 ELSE finished[x]]
    BY DEF F!Copy
  <2>3. F!Created(o, dead) \in {{}, o}
    BY <2>1 DEF F!Created
  <2> HIDE DEF begun, ended
  <2> QED BY <2>2, <2>3
<1>6. \A x \in Files \ o : task'[x] = task[x] /\ finished'[x] = finished[x]
  BY <1>5 DEF FileInv, FileTypes
<1>7. DOMAIN op = Copies /\ \A p \in Copies : DOMAIN op[p] = OpFields
  BY DEF FileInv, FileTypes
<1>8. /\ DOMAIN op' = Copies /\ DOMAIN op'[o] = OpFields
      /\ \A p \in Copies \ {o} : op'[p] = op[p]
      /\ file_agent_connected \/ ts = {} =>
           op'[o].state = "running" /\ op'[o].left = ts /\ op'[o].returns = op[o].returns
      /\ ~file_agent_connected /\ ts # {} =>
           op'[o].state = "ended" /\ op'[o].left = {} /\ op'[o].returns = 1
  <2>1. /\ begun(ts)[o] = [op[o] EXCEPT !.state = "running", !.left = ts]
        /\ DOMAIN begun(ts) = Copies /\ \A p \in Copies \ {o} : begun(ts)[p] = op[p]
    BY <1>7
  <2>2. /\ DOMAIN begun(ts)[o] = OpFields /\ begun(ts)[o].state = "running"
        /\ begun(ts)[o].left = ts /\ begun(ts)[o].returns = op[o].returns
    BY <1>7, <2>1 DEF OpFields
  <2> HIDE DEF begun
  <2>3. /\ ended(ts)[o] = [begun(ts)[o] EXCEPT !.state = "ended", !.left = {}, !.returns = 1,
                                               !.failed = F!Cardinality(ts)]
        /\ DOMAIN ended(ts) = Copies /\ \A p \in Copies \ {o} : ended(ts)[p] = op[p]
    BY <2>1
  <2>4. /\ DOMAIN ended(ts)[o] = OpFields /\ ended(ts)[o].state = "ended"
        /\ ended(ts)[o].left = {} /\ ended(ts)[o].returns = 1
    BY <2>2, <2>3 DEF OpFields
  <2> HIDE DEF ended
  <2> QED BY <1>5, <2>1, <2>2, <2>3, <2>4
<1> HIDE DEF begun, ended
<1>9. \A x \in Files \ o : Busy(x)' <=> Busy(x)
  BY <1>4, <1>8 DEF Busy, F!OpOf
<1>10. \A x \in o : Busy(x)' <=> x \in op'[o].left
  BY <1>3 DEF Busy, F!OpOf
<1>11. \A x \in o :
         \/ op'[o].left = {} /\ finished'[x] = 0 /\ task'[x] = F!NewTask
         \/ op'[o].left = o /\ finished'[x] = 0 /\ task'[x] = opening
         \/ op'[o].left = {} /\ finished'[x] = 1 /\ task'[x] = lost(x)
  <2> HIDE DEF F!NewTask
  <2> TAKE x \in o
  <2>1. task[x] = F!NewTask /\ finished[x] = 0 /\ x \in Files
    BY <1>3
  <2>2. CASE ts = {}
    <3>1. op'[o].left = {} /\ UNCHANGED finished
      BY <1>5, <1>8, <2>2
    <3>2. task'[x] = task[x]
      BY <1>5, <2>1, <2>2
    <3> QED BY <2>1, <3>1, <3>2
  <2>3. CASE ts = o /\ file_agent_connected
    <3>1. op'[o].left = o /\ UNCHANGED finished
      BY <1>5, <1>8, <2>3
    <3>2. task'[x] = opening
      BY <1>5, <2>1, <2>3
    <3> QED BY <2>1, <3>1, <3>2
  <2>4. CASE ts = o /\ ~file_agent_connected
    <3>1. ts # {}
      BY <2>4
    <3>2. op'[o].left = {} /\ finished' = [z \in Files |-> IF z \in ts THEN 1 ELSE finished[z]]
      BY <1>5, <1>8, <2>4, <3>1
    <3>3. task'[x] = lost(x)
      BY <1>5, <2>1, <2>4
    <3> QED BY <2>1, <2>4, <3>2, <3>3
  <2> QED BY <1>5, <2>2, <2>3, <2>4
<1>12. /\ opening \in TaskRecord /\ Steady(opening)
       /\ \A x : lost(x) \in TaskRecord /\ Over(lost(x))
  BY NewTaskIsSteady, Completing DEF F!Errors
<1> HIDE DEF opening, lost
<1>13. FileTypes'
  <2>1. task' \in [Files -> TaskRecord] /\ finished' \in [Files -> {0, 1}]
    <3>1. DOMAIN task' = Files /\ DOMAIN finished' = Files
      BY <1>5 DEF FileInv, FileTypes
    <3>2. \A x \in Files : task'[x] \in TaskRecord /\ finished'[x] \in {0, 1}
      BY <1>6, <1>11, <1>12, NewTaskIsSteady DEF FileInv, FileTypes
    <3>3. /\ task' = [x \in Files |-> task'[x]]
          /\ finished' = [x \in Files |-> finished'[x]]
      BY <1>5, <3>1 DEF FileInv, FileTypes
    <3> QED BY <3>2, <3>3
  <2> QED BY <1>1, <1>7, <1>8, <2>1 DEF FileInv, FileTypes
<1>14. FileOps'
  <2>1. /\ op'[o].left \subseteq o
        /\ \/ op'[o].state = "running" /\ op'[o].returns = 0
           \/ op'[o].state = "ended" /\ op'[o].returns = 1 /\ op'[o].left = {}
    BY <1>2, <1>5, <1>8
  <2> QED BY <1>8, <2>1 DEF FileInv, FileOps
<1>15. FileNew'
  <2> SUFFICES ASSUME NEW p \in Copies, op'[p].state = "new", NEW x \in p PROVE finished'[x] = 0
    BY DEF FileNew
  <2>1. p # o /\ op[p].state = "new"
    BY <1>8
  <2>2. x \in Files \ o
    BY <2>1, FileOfOne
  <2> QED BY <1>6, <2>1, <2>2 DEF FileInv, FileNew
<1>16. FileTasks'
  <2> SUFFICES ASSUME NEW x \in Files
               PROVE  /\ Busy(x)' => finished'[x] = 0 /\ Steady(task'[x])
                      /\ ~Busy(x)' /\ finished'[x] = 0 => task'[x] = F!NewTask
                      /\ finished'[x] = 1 => ~Busy(x)' /\ Over(task'[x])
                      /\ x \in file_started' => Busy(x)' \/ finished'[x] = 1
                      /\ x \in file_started' /\ Busy(x)' => task'[x].file_stream
    BY DEF FileTasks, F!NewTask, Steady, Over
  <2>1. CASE x \in o
    BY <1>1, <1>3, <1>10, <1>11, <1>12, <2>1
  <2>2. CASE x \notin o
    BY <1>1, <1>6, <1>9, <2>2 DEF FileInv, FileTasks
  <2> QED BY <2>1, <2>2
<1> QED BY <1>13, <1>14, <1>15, <1>16 DEF FileInv

LEMMA Unflushing ==
  ASSUME NEW k \in TaskRecord
  PROVE  /\ [k EXCEPT !.calls = @ \ {"flush"}] \in TaskRecord
         /\ [k EXCEPT !.calls = @ \ {"flush"}].file_stream = k.file_stream
         /\ Steady(k) => Steady([k EXCEPT !.calls = @ \ {"flush"}])
         /\ Over(k) => Over([k EXCEPT !.calls = @ \ {"flush"}])
         /\ k.calls = {} => [k EXCEPT !.calls = @ \ {"flush"}] = k
<1> DEFINE d == [k EXCEPT !.calls = @ \ {"flush"}]
<1>1. /\ d \in TaskRecord /\ d.file_stream = k.file_stream /\ d.pending = k.pending
      /\ d.calls = k.calls \ {"flush"}
  BY DEF TaskRecord
<1>2. k.calls = {} => d = k
  BY DEF TaskRecord
<1> HIDE DEF d
<1>3. d.calls \intersect Asking = k.calls \intersect Asking
  BY <1>1 DEF Asking
<1>4. Steady(k) => Steady(d)
  BY <1>1, <1>3 DEF Steady
<1>5. Over(k) => Over(d)
  BY <1>1, <1>3 DEF Over
<1> QED BY <1>1, <1>2, <1>4, <1>5 DEF d

LEMMA ResetAgentKeeps ==
  ASSUME FileInv, F!ResetAgent PROVE FileInv'
<1> DEFINE ts == UNION {op[o].left : o \in Copies}
           emit == {x \in ts : ~task[x].pending}
           lost(x) == F!Complete(x, task[x], "failed")
           tk == [x \in Files |-> IF x \in ts THEN lost(x) ELSE task[x]]
<1>1. /\ task' = [x \in Files |-> [tk[x] EXCEPT !.calls = @ \ {"flush"}]]
      /\ op' = [o \in Copies |->
                  F!TaskFinished(o, emit \intersect [x \in Copies |-> x][o], tk)]
      /\ finished' = [x \in Files |-> IF x \in emit THEN finished[x] + 1 ELSE finished[x]]
      /\ UNCHANGED <<file_started, can_send>>
  BY DEF F!ResetAgent, F!Waits
<1>2. \A x \in Files : x \in ts <=> Busy(x)
  <2> SUFFICES ASSUME NEW x \in Files PROVE x \in ts <=> Busy(x)
    OBVIOUS
  <2>1. ASSUME x \in ts PROVE Busy(x)
    <3>1. PICK o \in Copies : x \in op[o].left
      BY <2>1
    <3>2. x \in o
      BY <3>1 DEF FileInv, FileOps
    <3> QED BY <3>1, <3>2, FileOfOne DEF Busy
  <2>2. ASSUME Busy(x) PROVE x \in ts
    BY <2>2, FileHasCopy DEF Busy
  <2> QED BY <2>1, <2>2
<1>3. \A o \in Copies : op[o].left \subseteq Files /\ op[o].left \subseteq ts
  <2> TAKE o \in Copies
  <2>1. op[o].left \subseteq o
    BY DEF FileInv, FileOps
  <2> QED BY <2>1, FileOfOne
<1>4. emit \subseteq Files
  BY <1>3
<1>5. \A x \in Files : x \in emit <=> Busy(x) /\ ~task[x].pending
  BY <1>2
<1>6. \A x \in Files : Busy(x) =>
        /\ lost(x) \in TaskRecord /\ lost(x).file_stream = task[x].file_stream
        /\ task[x].pending => Steady(lost(x))
        /\ ~task[x].pending => Over(lost(x))
  <2> TAKE x \in Files
  <2>1. task[x] \in TaskRecord /\ "failed" \in F!Errors
    BY DEF FileInv, FileTypes, F!Errors
  <2>2. Busy(x) => Steady(task[x])
    BY DEF FileInv, FileTasks
  <2> QED BY <2>1, <2>2, Completing
<1>7. \A x \in Files : tk[x] = IF Busy(x) THEN lost(x) ELSE task[x]
  BY <1>2
<1>8. \A o \in Copies :
        LET r == op'[o] IN
        /\ DOMAIN r = OpFields /\ r.left = op[o].left \ emit
        /\ op[o].left \intersect emit = {} => r.state = op[o].state /\ r.returns = op[o].returns
        /\ op[o].left \intersect emit # {} /\ op[o].left \subseteq emit =>
             r.state = "ended" /\ r.returns = op[o].returns + 1
        /\ ~(op[o].left \subseteq emit) => r.state = op[o].state /\ r.returns = op[o].returns
  <2> HIDE DEF emit, tk
  <2> TAKE o \in Copies
  <2>1. op'[o] = F!TaskFinished(o, emit \intersect o, tk)
    BY <1>1
  <2>2. DOMAIN op = Copies /\ DOMAIN op[o] = OpFields /\ op[o].left \subseteq o
    BY DEF FileInv, FileTypes, FileOps
  <2>3. PICK e : e = emit \intersect o
    OBVIOUS
  <2>4. LET r == F!TaskFinished(o, e, tk) IN
        /\ DOMAIN r = OpFields /\ r.left = op[o].left \ e
        /\ op[o].left \intersect e = {} => r.state = op[o].state /\ r.returns = op[o].returns
        /\ op[o].left \intersect e # {} /\ op[o].left \subseteq e =>
             r.state = "ended" /\ r.returns = op[o].returns + 1
        /\ ~(op[o].left \subseteq e) => r.state = op[o].state /\ r.returns = op[o].returns
    BY <2>2, Finishing
  <2>5. /\ op[o].left \ e = op[o].left \ emit
        /\ op[o].left \intersect e = op[o].left \intersect emit
        /\ op[o].left \subseteq e <=> op[o].left \subseteq emit
    BY <2>2, <2>3
  <2> QED BY <2>1, <2>3, <2>4, <2>5
<1> HIDE DEF ts, emit, tk, lost
<1>9. \A x \in Files : Busy(x)' <=> Busy(x) /\ x \notin emit
  <2> TAKE x \in Files
  <2>1. F!OpOf(x) \in Copies /\ F!OpOf(x)' = F!OpOf(x)
    BY FileHasCopy DEF F!OpOf
  <2> QED BY <1>8, <2>1 DEF Busy
<1>10. \A x \in Files :
         /\ finished[x] = 0 /\ x \in emit => finished'[x] = 1
         /\ x \notin emit => finished'[x] = finished[x]
         /\ task'[x] = [tk[x] EXCEPT !.calls = @ \ {"flush"}]
  <2> TAKE x \in Files
  <2>1. finished'[x] = IF x \in emit THEN finished[x] + 1 ELSE finished[x]
    BY <1>1
  <2>2. task'[x] = [tk[x] EXCEPT !.calls = @ \ {"flush"}]
    BY <1>1
  <2>3. finished[x] = 0 /\ x \in emit => finished'[x] = 1
    BY <2>1
  <2> QED BY <2>1, <2>2, <2>3
<1>11. \A x \in Files :
         /\ tk[x] \in TaskRecord /\ task'[x] \in TaskRecord
         /\ task'[x].file_stream = tk[x].file_stream
         /\ Steady(tk[x]) => Steady(task'[x])
         /\ Over(tk[x]) => Over(task'[x])
         /\ tk[x] = F!NewTask => task'[x] = F!NewTask
  <2> TAKE x \in Files
  <2>1. tk[x] \in TaskRecord
    BY <1>6, <1>7 DEF FileInv, FileTypes
  <2>2. F!NewTask.calls = {}
    BY DEF F!NewTask
  <2> QED BY <1>10, <2>1, <2>2, Unflushing
<1>12. FileTasks'
  <2> SUFFICES ASSUME NEW x \in Files
               PROVE  /\ Busy(x)' => finished'[x] = 0 /\ Steady(task'[x])
                      /\ ~Busy(x)' /\ finished'[x] = 0 => task'[x] = F!NewTask
                      /\ finished'[x] = 1 => ~Busy(x)' /\ Over(task'[x])
                      /\ x \in file_started' => Busy(x)' \/ finished'[x] = 1
                      /\ x \in file_started' /\ Busy(x)' => task'[x].file_stream
    BY DEF FileTasks, F!NewTask, Steady, Over
  <2>1. /\ Busy(x) => finished[x] = 0 /\ Steady(task[x])
        /\ ~Busy(x) /\ finished[x] = 0 => task[x] = F!NewTask
        /\ finished[x] = 1 => ~Busy(x) /\ Over(task[x])
        /\ x \in file_started => Busy(x) \/ finished[x] = 1
        /\ x \in file_started /\ Busy(x) => task[x].file_stream
        /\ file_started' = file_started
    BY <1>1 DEF FileInv, FileTasks
  <2>2. CASE ~Busy(x)
    BY <1>5, <1>7, <1>9, <1>10, <1>11, <2>1, <2>2
  <2>3. CASE Busy(x) /\ ~task[x].pending
    <3>1. x \in emit /\ ~Busy(x)'
      BY <1>5, <1>9, <2>3
    <3>2. finished'[x] = 1
      BY <1>10, <2>1, <2>3, <3>1
    <3>3. Over(task'[x])
      BY <1>6, <1>7, <1>11, <2>3
    <3> QED BY <3>1, <3>2, <3>3
  <2>4. CASE Busy(x) /\ task[x].pending
    BY <1>5, <1>6, <1>7, <1>9, <1>10, <1>11, <2>1, <2>4
  <2> QED BY <2>2, <2>3, <2>4
<1>13. FileTypes'
  <2>1. DOMAIN task' = Files /\ DOMAIN finished' = Files
    BY <1>1
  <2>2. \A x \in Files : task'[x] \in TaskRecord /\ finished'[x] \in {0, 1}
    <3> TAKE x \in Files
    <3>1. finished[x] \in {0, 1} /\ (Busy(x) => finished[x] = 0)
      BY DEF FileInv, FileTypes, FileTasks
    <3>2. finished'[x] \in {0, 1}
      BY <1>5, <1>10, <3>1
    <3> QED BY <1>11, <3>2
  <2>3. /\ task' = [x \in Files |-> task'[x]]
        /\ finished' = [x \in Files |-> finished'[x]]
    BY <1>1, <2>1
  <2>4. task' \in [Files -> TaskRecord] /\ finished' \in [Files -> {0, 1}]
    BY <2>2, <2>3
  <2>5. DOMAIN op' = Copies
    BY <1>1
  <2> QED BY <1>1, <1>8, <2>4, <2>5 DEF FileInv, FileTypes
<1>14. FileOps'
  <2> SUFFICES ASSUME NEW o \in Copies
               PROVE  /\ op'[o].left \subseteq o
                      /\ \/ op'[o].state = "new" /\ op'[o].returns = 0 /\ op'[o].left = {}
                         \/ op'[o].state = "running" /\ op'[o].returns = 0
                         \/ op'[o].state = "ended" /\ op'[o].returns = 1 /\ op'[o].left = {}
    BY DEF FileOps
  <2>1. /\ op[o].left \subseteq o
        /\ \/ op[o].state = "new" /\ op[o].returns = 0 /\ op[o].left = {}
           \/ op[o].state = "running" /\ op[o].returns = 0
           \/ op[o].state = "ended" /\ op[o].returns = 1 /\ op[o].left = {}
    BY DEF FileInv, FileOps
  <2>2. CASE op[o].left \intersect emit = {}
    BY <1>8, <2>1, <2>2
  <2>3. CASE op[o].left \intersect emit # {}
    BY <1>8, <2>1, <2>3
  <2> QED BY <2>2, <2>3
<1>15. FileNew'
  <2> SUFFICES ASSUME NEW o \in Copies, op'[o].state = "new", NEW x \in o PROVE finished'[x] = 0
    BY DEF FileNew
  <2>1. op[o].state = "new" /\ op[o].left = {}
    BY <1>8 DEF FileInv, FileOps
  <2>2. x \in Files /\ ~Busy(x)
    BY <2>1, FileOfOne DEF Busy
  <2> QED BY <1>5, <1>10, <2>1, <2>2 DEF FileInv, FileNew
<1> QED BY <1>12, <1>13, <1>14, <1>15 DEF FileInv

LEMMA FileInvInit == F!Init => FileInv
<1> SUFFICES ASSUME F!Init PROVE FileInv
  OBVIOUS
<1>1. /\ task = [t \in Files |-> F!NewTask] /\ op = [o \in Copies |-> F!NewOp]
      /\ finished = [t \in Files |-> 0] /\ file_started = {} /\ can_send = {}
  BY DEF F!Init
<1>2. /\ DOMAIN F!NewOp = OpFields /\ F!NewOp.left = {} /\ F!NewOp.state = "new"
      /\ F!NewOp.returns = 0
  BY DEF F!NewOp, OpFields
<1> HIDE DEF F!NewOp, F!NewTask
<1>3. \A t \in Files : ~Busy(t) /\ finished[t] = 0 /\ task[t] = F!NewTask
  BY <1>1, <1>2, FileHasCopy DEF Busy
<1>4. FileTypes
  BY <1>1, <1>2, NewTaskIsSteady DEF FileTypes
<1>5. FileOps
  BY <1>1, <1>2 DEF FileOps
<1>6. FileTasks
  BY <1>1, <1>3 DEF FileTasks
<1>7. FileNew
  BY <1>3, FileOfOne DEF FileNew
<1> QED BY <1>4, <1>5, <1>6, <1>7 DEF FileInv

LEMMA FileInvStep == FileInv /\ [F!Next]_(F!vars) => FileInv'
<1> SUFFICES ASSUME FileInv, [F!Next]_(F!vars) PROVE FileInv'
  OBVIOUS
<1>1. CASE UNCHANGED F!vars
  BY <1>1, QuietKeeps DEF F!vars
<1>2. CASE \E o \in Copies : F!Copy(o)
  BY <1>2, CopyKeeps
<1>3. ASSUME NEW t \in Files, F!Callback(t) PROVE FileInv'
  BY <1>3, OpenedKeeps, InfoDoneKeeps, ReadDoneKeeps, EofDoneKeeps, BusyDoneKeeps, FlushedKeeps,
     ClosedKeeps DEF F!Callback
<1>4. ASSUME NEW t \in Files, F!Answer(t) \/ F!AgentError(t) PROVE FileInv'
  BY <1>4, CanSendKeeps, AgentSaysKeeps DEF F!Answer
<1>5. ASSUME NEW t \in Files, F!Cancel(t) PROVE FileInv'
  BY <1>5, QuietKeeps DEF F!Cancel
<1>6. CASE F!ResetAgent
  BY <1>6, ResetAgentKeeps
<1>7. CASE F!AgentBack
  BY <1>7, QuietKeeps DEF F!AgentBack
<1> QED BY <1>1, <1>2, <1>3, <1>4, <1>5, <1>6, <1>7 DEF F!Next

LEMMA FileStep == [MCNext]_mcvars => [F!Next]_(F!vars)
<1> SUFFICES ASSUME [MCNext]_mcvars PROVE [F!Next]_(F!vars)
  OBVIOUS
<1>1. UNCHANGED fileVars => UNCHANGED F!vars
  BY DEF fileVars, F!vars
<1>2. CASE UNCHANGED mcvars
  BY <1>1, <1>2 DEF mcvars
<1>3. CASE MCNext
  <2>1. ASSUME NEW x \in {"agent", "framing", "forward"}, On(x) PROVE UNCHANGED fileVars
    BY <2>1 DEF On
  <2> QED BY <1>1, <1>3, <2>1 DEF MCNext, F!Next, F!Callback, F!Answer
<1> QED BY <1>2, <1>3

\* File transfers (spice_file_transfer_task_completed, file_transfer_operation_task_finished),
\* for any number of copies called for at any time, of any files, with the agent lost,
\* coming back and answering out of turn and with cancellations anywhere: a task emits
\* "finished" once, an operation returns once, and a callback that uses its operation
\* finds it.
THEOREM FileSafeTheorem == MCSpec => []FileSafe
<1>1. MCInit => FileInv
  BY FileInvInit DEF MCInit
<1>2. FileInv /\ [MCNext]_mcvars => FileInv'
  BY FileStep, FileInvStep
<1>3. FileInv => FileSafe
  <2> SUFFICES ASSUME FileInv PROVE F!FinishedOnce /\ F!OperationAlive
    BY DEF FileSafe
  <2>1. F!FinishedOnce
    <3>1. \A t \in Files : finished[t] <= 1
      BY DEF FileInv, FileTypes
    <3>2. \A o \in Copies : op[o].returns <= 1
      <4> TAKE o \in Copies
      <4>1. op[o].returns = 0 \/ op[o].returns = 1
        BY DEF FileInv, FileOps
      <4> QED BY <4>1
    <3> QED BY <3>1, <3>2 DEF F!FinishedOnce
  <2>2. F!OperationAlive
    <3> SUFFICES ASSUME NEW t \in Files, NEW c \in task[t].calls, c \in Asking
                 PROVE  op[F!OpOf(t)].state = "running" /\ t \in op[F!OpOf(t)].left
      BY DEF F!OperationAlive, Asking
    <3>1. Busy(t)
      BY Returning
    <3> QED BY <3>1, FileHasCopy DEF FileInv, FileOps, Busy
  <2> QED BY <2>1, <2>2
<1> QED BY <1>1, <1>2, <1>3, PTL DEF MCSpec

-----------------------------------------------------------------------------
(* Forwarded ports *)

ConnRecord == [refs : Int, cancelled : BOOLEAN, connecting : BOOLEAN,
               op : {"none", "connect", "read"}, write_buffer : Seq(Seq(Int)), writing : BOOLEAN,
               data_sent : Int, data_received : Int, ack_interval : Int]
AgentRecord == [st : {"none", "asked", "open", "closed"}, sent : Int, acked : Int, got : Int,
                owes : Nat]
Bulk == [command : {"DATA"}, id : P!Conns, data : Seq(Int)]
ClientMsgs == [command : {"ACCEPTED", "ACK", "CLOSE"}, id : P!Conns, size : Nat]
                \union Bulk \union [command : {"GONE", "CONNECTED"}]
AgentMsgs == [command : {"CONNECT", "ACK", "CLOSE"}, id : P!Conns, size : Int]
               \union Bulk \union [command : {"LISTEN", "SHUTDOWN", "START"}]

\* The messages of a queue, and what of them concerns the connection i
Elems(q) == {q[k] : k \in 1 .. Len(q)}
Sent(q, c, i) == \E m \in Elems(q) : m.command = c /\ m.id = i
Once(q, i) == \A j, k \in 1 .. Len(q) :
                /\ q[j].command = "ACCEPTED" /\ q[j].id = i
                /\ q[k].command = "ACCEPTED" /\ q[k].id = i
                => j = k

PortTypes ==
  /\ connections \subseteq made /\ made \subseteq P!Conns
  /\ conn \in [P!Conns -> ConnRecord] /\ agent \in [P!Conns -> AgentRecord]
  /\ DOMAIN progs = P!Conns
  /\ \A i \in P!Conns : DOMAIN progs[i] = {"read", "written"} /\ progs[i].read \in Int
  /\ toAgent \in Seq(AgentMsgs) /\ toClient \in Seq(ClientMsgs)

\* Connections are asked for by the side they belong to.
PortQueues ==
  /\ \A m \in Elems(toAgent) : m.command = "CONNECT" => m.id \in Local
  /\ \A m \in Elems(toClient) : m.command = "ACCEPTED" => m.id \in Guest

\* A connection of the guest is announced once, and nothing more is said of it before the
\* client is connected: no ACK meets a connect that is under way.
PortGuest(i) ==
  /\ Sent(toClient, "ACCEPTED", i) => i \notin made /\ agent[i].st # "none"
  /\ Once(toClient, i)
  /\ agent[i].st = "none" => i \notin made
  /\ agent[i].st = "open" \/ Sent(toClient, "ACK", i) \/ Sent(toAgent, "ACK", i)
       => i \in made /\ ~conn[i].connecting

\* References are exact; in the table, a connection writes while it has data to write, and
\* reads unless it is connecting or its window is full.
PortRefs(i) ==
  conn[i].refs = P!Operations(conn[i]) + (IF i \in connections THEN 1 ELSE 0)
PortConn(i) ==
  LET c == conn[i] IN
  /\ i \notin made => c = P!Unused
  /\ c.op = "connect" => c.connecting /\ i \in Guest
  /\ c.writing => ~c.connecting /\ c.write_buffer # <<>>
  /\ c.connecting => c.data_sent = 0 /\ c.op # "read"
  /\ i \in connections =>
       /\ ~c.cancelled
       /\ c.writing <=> c.write_buffer # <<>>
       /\ c.connecting => c.op = IF i \in Guest THEN "connect" ELSE "none"
       /\ ~c.connecting => (c.op = "read" <=> c.data_sent < WINDOW_SIZE)

PortInv ==
  /\ PortTypes /\ PortQueues
  /\ \A i \in Guest : PortGuest(i)
  /\ \A i \in P!Conns : PortRefs(i) /\ PortConn(i)

LEMMA PortConstants ==
  /\ Local \subseteq P!Conns /\ Guest \subseteq P!Conns
  /\ \A i \in P!Conns : (i \in Local) <=> (i \notin Guest)
  /\ WINDOW_SIZE \in Nat /\ WINDOW_SIZE >= 2 /\ WINDOW_SIZE \div 2 \in Nat
BY MainAssumption DEF P!PortForwardAssumption, P!Conns

LEMMA AfterAppend ==
  ASSUME NEW X, NEW q \in Seq(X), NEW m \in X
  PROVE  /\ Append(q, m) \in Seq(X) /\ Elems(Append(q, m)) = Elems(q) \union {m}
         /\ \A i : Once(q, i) /\ ~(m.command = "ACCEPTED" /\ m.id = i /\ Sent(q, "ACCEPTED", i))
                     => Once(Append(q, m), i)
<1>1. /\ Append(q, m) \in Seq(X) /\ Len(Append(q, m)) = Len(q) + 1
      /\ \A k \in 1 .. Len(q) : Append(q, m)[k] = q[k]
      /\ Append(q, m)[Len(q) + 1] = m
  BY AppendProperties
<1>2. Len(q) \in Nat
  BY LenProperties
<1>3. PICK a : a = Append(q, m)
  OBVIOUS
<1>4. Elems(a) = Elems(q) \union {m}
  <2>1. 1 .. Len(a) = (1 .. Len(q)) \union {Len(q) + 1}
    BY <1>1, <1>2, <1>3
  <2> QED BY <1>1, <1>3, <2>1 DEF Elems
<1>5. ASSUME NEW i, Once(q, i),
             ~(m.command = "ACCEPTED" /\ m.id = i /\ Sent(q, "ACCEPTED", i))
      PROVE  Once(a, i)
  <2> SUFFICES ASSUME NEW j \in 1 .. Len(a), NEW k \in 1 .. Len(a),
                      a[j].command = "ACCEPTED", a[j].id = i,
                      a[k].command = "ACCEPTED", a[k].id = i
               PROVE  j = k
    BY DEF Once
  <2>1. ASSUME NEW l \in 1 .. Len(a)
        PROVE  (l \in 1 .. Len(q) /\ a[l] = q[l]) \/ (l = Len(q) + 1 /\ a[l] = m)
    <3>1. PICK n \in Nat : n = Len(q)
      BY <1>2
    <3>2. l \in 1 .. n \/ l = n + 1
      BY <1>1, <1>3, <3>1
    <3> QED BY <1>1, <1>3, <3>1, <3>2
  <2>2. \A l \in 1 .. Len(q) : q[l].command = "ACCEPTED" /\ q[l].id = i => Sent(q, "ACCEPTED", i)
    BY DEF Sent, Elems
  <2> QED BY <1>5, <2>1, <2>2 DEF Once
<1> QED BY <1>1, <1>3, <1>4, <1>5

LEMMA AfterTail ==
  ASSUME NEW X, NEW q \in Seq(X), q # <<>>
  PROVE  /\ Tail(q) \in Seq(X) /\ Head(q) \in X /\ Head(q) \in Elems(q)
         /\ Elems(Tail(q)) \subseteq Elems(q)
         /\ \A i : Once(q, i) => Once(Tail(q), i)
         /\ \A i : Once(q, i) /\ Head(q).command = "ACCEPTED" /\ Head(q).id = i
                     => ~Sent(Tail(q), "ACCEPTED", i)
<1>1. /\ Tail(q) \in Seq(X) /\ Len(Tail(q)) = Len(q) - 1 /\ Head(q) \in X /\ Head(q) = q[1]
      /\ \A k \in 1 .. Len(Tail(q)) : Tail(q)[k] = q[k + 1]
  BY HeadTailProperties
<1>2. PICK n \in Nat : n = Len(q) /\ n >= 1
  BY EmptySeq, LenProperties
<1>3. PICK r : r = Tail(q)
  OBVIOUS
<1>4. Len(r) = n - 1 /\ \A k \in 1 .. n - 1 : r[k] = q[k + 1] /\ k + 1 \in 1 .. n
  BY <1>1, <1>2, <1>3
<1>5. Head(q) \in Elems(q) /\ Elems(r) \subseteq Elems(q)
  BY <1>1, <1>2, <1>4 DEF Elems
<1>6. ASSUME NEW i, Once(q, i) PROVE Once(r, i)
  <2> SUFFICES ASSUME NEW j \in 1 .. n - 1, NEW k \in 1 .. n - 1,
                      r[j].command = "ACCEPTED", r[j].id = i,
                      r[k].command = "ACCEPTED", r[k].id = i
               PROVE  j = k
    BY <1>4 DEF Once
  <2>1. j + 1 = k + 1
    BY <1>2, <1>4, <1>6 DEF Once
  <2> QED BY <2>1
<1>7. ASSUME NEW i, Once(q, i), Head(q).command = "ACCEPTED", Head(q).id = i,
             Sent(r, "ACCEPTED", i)
      PROVE  FALSE
  <2>1. PICK k \in 1 .. n - 1 : r[k].command = "ACCEPTED" /\ r[k].id = i
    BY <1>4, <1>7 DEF Sent, Elems
  <2>2. q[k + 1].command = "ACCEPTED" /\ q[k + 1].id = i /\ k + 1 \in 1 .. n /\ 1 \in 1 .. n
    BY <1>2, <1>4, <2>1
  <2>3. k + 1 = 1
    BY <1>1, <1>2, <1>7, <2>2 DEF Once
  <2> QED BY <2>3
<1> QED BY <1>1, <1>3, <1>5, <1>6, <1>7

LEMMA AfterConcat ==
  ASSUME NEW X, NEW q \in Seq(X), NEW r \in Seq(X)
  PROVE  q \o r \in Seq(X) /\ Elems(q \o r) \subseteq Elems(q) \union Elems(r)
<1>1. /\ q \o r \in Seq(X) /\ Len(q \o r) = Len(q) + Len(r)
      /\ \A k \in 1 .. Len(q) + Len(r) : (q \o r)[k] = IF k <= Len(q) THEN q[k] ELSE r[k - Len(q)]
  BY ConcatProperties
<1>2. Len(q) \in Nat /\ Len(r) \in Nat
  BY LenProperties
<1>3. PICK c : c = q \o r
  OBVIOUS
<1>4. ASSUME NEW k \in 1 .. Len(c) PROVE c[k] \in Elems(q) \union Elems(r)
  <2>1. CASE k <= Len(q)
    BY <1>1, <1>2, <1>3, <2>1 DEF Elems
  <2>2. CASE k > Len(q)
    <3>1. k - Len(q) \in 1 .. Len(r) /\ c[k] = r[k - Len(q)]
      BY <1>1, <1>2, <1>3, <2>2
    <3> QED BY <3>1 DEF Elems
  <2> QED BY <1>2, <2>1, <2>2
<1>5. Elems(c) \subseteq Elems(q) \union Elems(r)
  BY <1>4 DEF Elems
<1> QED BY <1>1, <1>3, <1>5

LEMMA AfterSubSeq ==
  ASSUME NEW X, NEW q \in Seq(X), NEW a \in 1 .. Len(q) + 1, NEW b \in 0 .. Len(q)
  PROVE  SubSeq(q, a, b) \in Seq(X) /\ Elems(SubSeq(q, a, b)) \subseteq Elems(q)
<1>1. /\ SubSeq(q, a, b) \in Seq(X)
      /\ Len(SubSeq(q, a, b)) = IF a <= b THEN b - a + 1 ELSE 0
      /\ \A k \in 1 .. b - a + 1 : SubSeq(q, a, b)[k] = q[a + k - 1]
  BY SubSeqProperties
<1>2. Len(q) \in Nat
  BY LenProperties
<1>3. PICK s : s = SubSeq(q, a, b)
  OBVIOUS
<1>4. ASSUME NEW k \in 1 .. Len(s) PROVE s[k] \in Elems(q)
  <2>1. k \in 1 .. b - a + 1 /\ a + k - 1 \in 1 .. Len(q)
    BY <1>1, <1>2, <1>3
  <2> QED BY <1>1, <1>3, <2>1 DEF Elems
<1> QED BY <1>1, <1>3, <1>4 DEF Elems

\* A step of the client that concerns the connection i, which becomes c; what it may have
\* taken is the head of the queue of the client, what it sends comes to that of the agent.
LEMMA ClientStep ==
  ASSUME PortInv, NEW i \in P!Conns, NEW c \in ConnRecord,
         conn' = [conn EXCEPT ![i] = c],
         connections' \subseteq made', \A j \in P!Conns \ {i} : j \in connections' <=> j \in connections,
         \/ made' = made
         \/ /\ made' = made \union {i} /\ i \notin made
            /\ i \in Guest => ~Sent(toClient', "ACCEPTED", i) /\ agent[i].st # "none",
         i \in made /\ c.connecting => conn[i].connecting,
         PortRefs(i)', PortConn(i)',
         toAgent' \in Seq(AgentMsgs),
         \A m \in Elems(toAgent') :
            \/ m \in Elems(toAgent)
            \/ /\ m.command = "CONNECT" => m.id \in Local
               /\ m.command = "ACK" => m.id = i /\ i \in made /\ ~c.connecting,
         toClient' \in Seq(ClientMsgs), Elems(toClient') \subseteq Elems(toClient),
         \A j : Once(toClient, j) => Once(toClient', j),
         UNCHANGED agent,
         DOMAIN progs' = P!Conns,
         \A j \in P!Conns : DOMAIN progs'[j] = {"read", "written"} /\ progs'[j].read \in Int
  PROVE  PortInv'
<1>1. PortTypes'
  BY DEF PortInv, PortTypes
<1>2. PortQueues'
  BY DEF PortInv, PortQueues
<1>3. ASSUME NEW j \in P!Conns \ {i} PROVE (PortRefs(j) /\ PortConn(j))'
  <2>1. /\ conn'[j] = conn[j] /\ (j \in connections' <=> j \in connections)
        /\ j \in made' <=> j \in made
    BY <1>3 DEF PortInv, PortTypes
  <2>2. PortRefs(j)'
    BY <2>1 DEF PortInv, PortRefs, P!Operations
  <2>3. PortConn(j)'
    BY <2>1 DEF PortInv, PortConn, P!Unused
  <2> QED BY <2>2, <2>3
<1>4. ASSUME NEW j \in Guest PROVE PortGuest(j)'
  <2>1. /\ Sent(toClient', "ACCEPTED", j) => Sent(toClient, "ACCEPTED", j)
        /\ Sent(toClient', "ACK", j) => Sent(toClient, "ACK", j)
        /\ Sent(toAgent', "ACK", j) => \/ Sent(toAgent, "ACK", j)
                                       \/ j = i /\ i \in made /\ ~c.connecting
    BY DEF Sent
  <2>2. PortGuest(j) /\ j \in P!Conns
    BY PortConstants DEF PortInv
  <2>3. conn'[i] = c /\ (j # i => conn'[j] = conn[j])
    BY <2>2 DEF PortInv, PortTypes
  <2>4. j \in made => j \in made'
    OBVIOUS
  <2>5. j \in made' => j \in made \/ (j = i /\ ~Sent(toClient', "ACCEPTED", i) /\ agent[i].st # "none")
    BY <1>4
  <2>6. j \in made /\ conn'[j].connecting => conn[j].connecting
    BY <2>3
  <2> QED BY <2>1, <2>2, <2>3, <2>4, <2>5, <2>6 DEF PortGuest
<1>5. \A j \in P!Conns : (PortRefs(j) /\ PortConn(j))'
  BY <1>3
<1> QED BY <1>1, <1>2, <1>4, <1>5 DEF PortInv

\* A step that touches no connection, but may take from and add to the queues
LEMMA QueueStep ==
  ASSUME PortInv, UNCHANGED <<connections, conn, made, progs>>,
         toAgent' \in Seq(AgentMsgs), toClient' \in Seq(ClientMsgs),
         agent' \in [P!Conns -> AgentRecord],
         \A m \in Elems(toAgent') : m \in Elems(toAgent) \/ m.command \notin {"CONNECT", "ACK"},
         \A m \in Elems(toClient') : m \in Elems(toClient) \/ (m.command = "ACCEPTED" => m.id \in Guest),
         \A j \in Guest :
            /\ Once(toClient', j)
            /\ Sent(toClient', "ACCEPTED", j) => j \notin made /\ agent'[j].st # "none"
            /\ agent'[j].st = "none" => agent[j].st = "none"
            /\ Sent(toClient', "ACK", j) =>
                 Sent(toClient, "ACK", j) \/ Sent(toAgent, "ACK", j) \/ agent[j].st = "open"
            /\ agent'[j].st = "open" => agent[j].st = "open" \/ Sent(toAgent, "ACK", j)
  PROVE  PortInv'
<1>1. PortTypes'
  BY DEF PortInv, PortTypes
<1>2. PortQueues'
  BY DEF PortInv, PortQueues
<1>3. \A j \in P!Conns : (PortRefs(j) /\ PortConn(j))'
  BY DEF PortInv, PortRefs, PortConn, P!Operations, P!Unused
<1>4. ASSUME NEW j \in Guest PROVE PortGuest(j)'
  <2>1. Sent(toAgent', "ACK", j) => Sent(toAgent, "ACK", j)
    BY DEF Sent
  <2> QED BY <2>1 DEF PortInv, PortGuest
<1> QED BY <1>1, <1>2, <1>3, <1>4 DEF PortInv

\* unref_connection, and what closing does to a connection
LEMMA Unreffing ==
  ASSUME NEW c \in ConnRecord
  PROVE  /\ P!Unref(c) \in ConnRecord /\ P!Unref(c).refs = c.refs - 1
         /\ P!Unref(c).op = c.op /\ P!Unref(c).writing = c.writing
         /\ P!Unref(c).connecting = c.connecting /\ P!Unref(c).data_sent = c.data_sent
         /\ P!Unref(c).cancelled = c.cancelled /\ P!Unref(c).write_buffer = c.write_buffer
BY DEF P!Unref, ConnRecord

LEMMA Closing ==
  ASSUME NEW i \in P!Conns, NEW c \in ConnRecord
  PROVE  /\ P!Closed(i, c) \in ConnRecord
         /\ i \in connections => P!Closed(i, c).refs = c.refs - 1
         /\ i \notin connections => P!Closed(i, c).refs = c.refs
         /\ P!Closed(i, c).op = c.op /\ P!Closed(i, c).writing = c.writing
         /\ P!Closed(i, c).connecting = c.connecting /\ P!Closed(i, c).data_sent = c.data_sent
         /\ P!Closed(i, c).write_buffer = c.write_buffer
<1> DEFINE d == P!Closed(i, c)
<1>1. CASE i \in connections
  <2>1. d = [P!Unref(c) EXCEPT !.cancelled = TRUE]
    BY <1>1 DEF P!Closed
  <2>2. P!Unref(c) \in ConnRecord
    BY Unreffing
  <2>3. /\ d \in ConnRecord /\ d.refs = P!Unref(c).refs /\ d.op = P!Unref(c).op
        /\ d.writing = P!Unref(c).writing /\ d.connecting = P!Unref(c).connecting
        /\ d.data_sent = P!Unref(c).data_sent /\ d.write_buffer = P!Unref(c).write_buffer
    BY <2>1, <2>2 DEF ConnRecord
  <2> QED BY <1>1, <2>3, Unreffing
<1>2. CASE i \notin connections
  <2>1. d = [c EXCEPT !.cancelled = TRUE]
    BY <1>2 DEF P!Closed
  <2>2. /\ d \in ConnRecord /\ d.refs = c.refs /\ d.op = c.op /\ d.writing = c.writing
        /\ d.connecting = c.connecting /\ d.data_sent = c.data_sent
        /\ d.write_buffer = c.write_buffer
    BY <2>1 DEF ConnRecord
  <2> QED BY <1>2, <2>2
<1> QED BY <1>1, <1>2

\* program_read, which takes a reference for the read
LEMMA ReadStarts ==
  ASSUME NEW c \in ConnRecord
  PROVE  /\ P!program_read(c) \in ConnRecord /\ P!program_read(c).refs = c.refs + 1
         /\ P!program_read(c).op = "read" /\ P!program_read(c).writing = c.writing
         /\ P!program_read(c).connecting = c.connecting
         /\ P!program_read(c).data_sent = c.data_sent
         /\ P!program_read(c).cancelled = c.cancelled
         /\ P!program_read(c).write_buffer = c.write_buffer
<1> DEFINE d == P!program_read(c)
<1>1. PICK n \in Int : n = c.refs + 1
  BY DEF ConnRecord
<1>2. d = [c EXCEPT !.op = "read", !.refs = n]
  BY <1>1 DEF P!program_read
<1> HIDE DEF d
<1>3. /\ d \in ConnRecord /\ d.refs = n /\ d.op = "read" /\ d.writing = c.writing
      /\ d.connecting = c.connecting /\ d.data_sent = c.data_sent
      /\ d.cancelled = c.cancelled /\ d.write_buffer = c.write_buffer
  BY <1>2 DEF ConnRecord
<1> QED BY <1>1, <1>3 DEF d

LEMMA UnusedTyped ==
  /\ P!Unused \in ConnRecord /\ P!Unused.refs = 0 /\ P!Unused.op = "none"
  /\ P!Unused.writing = FALSE /\ P!Unused.connecting = FALSE /\ P!Unused.cancelled = FALSE
  /\ P!Unused.data_sent = 0 /\ P!Unused.write_buffer = <<>>
BY EmptySeq DEF P!Unused, ConnRecord

LEMMA PortTyping ==
  ASSUME PortInv, NEW i \in P!Conns
  PROVE  /\ conn[i] \in ConnRecord /\ PortRefs(i) /\ PortConn(i)
         /\ toAgent \in Seq(AgentMsgs) /\ toClient \in Seq(ClientMsgs)
         /\ connections \subseteq made
         /\ conn[i].op # "none" \/ conn[i].writing => i \in made
         /\ i \in connections => i \in made
BY DEF PortInv, PortTypes, PortConn, P!Unused

\* What send_command puts in the queue
LEMMA Sending ==
  ASSUME PortInv, NEW m \in AgentMsgs, toAgent' = Append(toAgent, m)
  PROVE  toAgent' \in Seq(AgentMsgs) /\ Elems(toAgent') = Elems(toAgent) \union {m}
BY AfterAppend DEF PortInv, PortTypes

\* close_connection at the end of an operation, which held one reference
LEMMA ClosingKeeps ==
  ASSUME PortInv, NEW i \in P!Conns, NEW k \in ConnRecord, P!CloseAndUnref(i, k),
         UNCHANGED <<made, toClient, agent, progs>>, i \in made,
         k.refs = P!Operations(k) + 1 + (IF i \in connections THEN 1 ELSE 0),
         k.op # "connect", k.writing => ~k.connecting /\ k.write_buffer # <<>>,
         k.connecting => k.data_sent = 0 /\ k.op # "read" /\ conn[i].connecting
  PROVE  PortInv'
<1> DEFINE c == P!Unref(P!Closed(i, k))
           m == [command |-> "CLOSE", id |-> i, size |-> 0]
<1>1. /\ toAgent' = Append(toAgent, m) /\ connections' = connections \ {i}
      /\ conn' = [conn EXCEPT ![i] = c]
  BY DEF P!CloseAndUnref, P!Send, P!Msg, P!DropFromTable, P!Put
<1>2. m \in AgentMsgs
  BY DEF AgentMsgs
<1>3. /\ c \in ConnRecord /\ c.refs = k.refs - 1 - (IF i \in connections THEN 1 ELSE 0)
      /\ c.op = k.op /\ c.writing = k.writing /\ c.connecting = k.connecting
      /\ c.data_sent = k.data_sent /\ c.write_buffer = k.write_buffer
  <2>1. k.refs \in Int
    BY DEF ConnRecord
  <2> QED BY <2>1, Closing, Unreffing
<1>4. toAgent' \in Seq(AgentMsgs) /\ \A x \in Elems(toAgent') : x \in Elems(toAgent) \/ x = m
  BY <1>1, <1>2, Sending
<1>5. m.command = "CLOSE"
  OBVIOUS
<1> HIDE DEF c, m
<1>6. conn'[i] = c /\ i \notin connections'
  BY <1>1 DEF PortInv, PortTypes
<1>7. P!Operations(c) = P!Operations(k) /\ P!Operations(k) \in Int
  BY <1>3 DEF P!Operations
<1>8. PortRefs(i)'
  <2>1. c.refs = P!Operations(c)
    BY <1>3, <1>7 DEF ConnRecord
  <2> QED BY <1>3, <1>6, <1>7, <2>1 DEF PortRefs, P!Operations
<1>9. PortConn(i)'
  BY <1>3, <1>6 DEF PortConn
<1> QED BY <1>1, <1>3, <1>4, <1>5, <1>8, <1>9, ClientStep DEF PortInv, PortTypes

LEMMA AcceptKeeps ==
  ASSUME PortInv, NEW i \in P!Conns, P!Accept(i) PROVE PortInv'
<1> DEFINE c == [P!Unused EXCEPT !.refs = 1, !.connecting = TRUE,
                                 !.ack_interval = WINDOW_SIZE \div 2]
           m == [command |-> "CONNECT", id |-> i, size |-> WINDOW_SIZE \div 2]
<1>1. /\ i \in Local /\ i \notin made /\ conn' = [conn EXCEPT ![i] = c]
      /\ made' = made \union {i} /\ connections' = connections \union {i}
      /\ toAgent' = Append(toAgent, m) /\ UNCHANGED <<progs, toClient, agent>>
  BY DEF P!Accept, P!Fresh, P!Put, P!Send, P!Msg, P!avars
<1>2. m \in AgentMsgs
  BY PortConstants DEF AgentMsgs
<1>3. /\ c \in ConnRecord /\ c.refs = 1 /\ c.connecting = TRUE /\ c.op = "none"
      /\ c.writing = FALSE /\ c.write_buffer = <<>> /\ c.data_sent = 0 /\ c.cancelled = FALSE
  <2>1. PICK w \in Int : w = WINDOW_SIZE \div 2
    BY PortConstants
  <2>2. c = [P!Unused EXCEPT !.refs = 1, !.connecting = TRUE, !.ack_interval = w]
    BY <2>1
  <2>3. PICK u \in ConnRecord : u = P!Unused
    BY UnusedTyped
  <2>4. /\ u.op = "none" /\ u.writing = FALSE /\ u.write_buffer = <<>> /\ u.data_sent = 0
        /\ u.cancelled = FALSE
    BY <2>3, UnusedTyped
  <2>n. PICK n \in Int : n = 1
    OBVIOUS
  <2> DEFINE v == [u EXCEPT !.refs = n, !.connecting = TRUE]
  <2>5. c = [v EXCEPT !.ack_interval = w]
    BY <2>2, <2>3, <2>n
  <2>7. /\ v \in ConnRecord /\ v.refs = n /\ v.connecting = TRUE /\ v.op = u.op
        /\ v.writing = u.writing /\ v.write_buffer = u.write_buffer
        /\ v.data_sent = u.data_sent /\ v.cancelled = u.cancelled
    BY DEF ConnRecord
  <2> HIDE DEF c, v
  <2>6. /\ c \in ConnRecord /\ c.refs = n /\ c.connecting = TRUE /\ c.op = u.op
        /\ c.writing = u.writing /\ c.write_buffer = u.write_buffer
        /\ c.data_sent = u.data_sent /\ c.cancelled = u.cancelled
    BY <2>5, <2>7 DEF ConnRecord
  <2> QED BY <2>4, <2>6, <2>n
<1> HIDE DEF c
<1>4. c \in ConnRecord
  BY <1>3
<1>5. conn'[i] = c /\ i \in connections' /\ i \in made' /\ i \notin Guest
  BY <1>1, PortConstants DEF PortInv, PortTypes
<1>6. PortRefs(i)' /\ PortConn(i)'
  BY <1>3, <1>5 DEF PortRefs, PortConn, P!Operations
<1>7. toAgent' \in Seq(AgentMsgs) /\ \A x \in Elems(toAgent') : x \in Elems(toAgent) \/ x = m
  BY <1>1, <1>2, Sending
<1>8. m.command = "CONNECT" /\ m.id \in Local
  BY <1>1
<1> HIDE DEF m
<1> QED BY <1>1, <1>4, <1>5, <1>6, <1>7, <1>8, ClientStep DEF PortInv, PortTypes

LEMMA ConnectedKeeps ==
  ASSUME PortInv, NEW i \in P!Conns, NEW ok \in BOOLEAN, P!Connected(i, ok) PROVE PortInv'
<1> DEFINE k == [conn[i] EXCEPT !.op = "none"]
<1>1. /\ conn[i].op = "connect" /\ UNCHANGED <<made, progs, toClient, agent>>
      /\ \/ k.cancelled /\ P!Put(i, P!Unref(k)) /\ UNCHANGED <<connections, toAgent>>
         \/ P!CloseAndUnref(i, k)
         \/ /\ ~k.cancelled
            /\ P!Put(i, P!Unref(P!program_read([k EXCEPT !.connecting = FALSE])))
            /\ P!Send(P!Msg("ACK", i, WINDOW_SIZE \div 2)) /\ UNCHANGED connections
  BY DEF P!Connected, P!avars
<1>2. /\ conn[i] \in ConnRecord /\ PortRefs(i) /\ PortConn(i) /\ i \in made
      /\ toAgent \in Seq(AgentMsgs) /\ toClient \in Seq(ClientMsgs) /\ connections \subseteq made
  BY <1>1, PortTyping
<1>3. /\ conn[i].connecting /\ i \in Guest /\ ~conn[i].writing /\ conn[i].data_sent = 0
  BY <1>1, <1>2 DEF PortConn, ConnRecord
<1>4. conn[i].refs = 1 + (IF i \in connections THEN 1 ELSE 0)
  BY <1>1, <1>2, <1>3 DEF PortRefs, P!Operations
<1>5. /\ k \in ConnRecord /\ k.op = "none" /\ k.refs = conn[i].refs
      /\ k.connecting = conn[i].connecting /\ k.writing = conn[i].writing
      /\ k.data_sent = conn[i].data_sent /\ k.cancelled = conn[i].cancelled
      /\ k.write_buffer = conn[i].write_buffer
  BY <1>2 DEF ConnRecord
<1>6. P!Operations(k) = 0
  BY <1>3, <1>5 DEF P!Operations
<1> HIDE DEF k
<1>7. CASE k.cancelled /\ P!Put(i, P!Unref(k)) /\ UNCHANGED <<connections, toAgent>>
  <2> DEFINE c == P!Unref(k)
  <2>1. /\ c \in ConnRecord /\ c.refs = conn[i].refs - 1 /\ c.op = "none"
        /\ c.connecting = conn[i].connecting /\ ~c.writing /\ c.data_sent = 0
    BY <1>3, <1>5, Unreffing
  <2>2. conn' = [conn EXCEPT ![i] = c] /\ i \notin connections
    BY <1>2, <1>5, <1>7 DEF P!Put, PortConn
  <2> HIDE DEF c
  <2>3. conn'[i] = c
    BY <2>2 DEF PortInv, PortTypes
  <2>4. PortRefs(i)' /\ PortConn(i)'
    BY <1>1, <1>2, <1>3, <1>4, <1>7, <2>1, <2>2, <2>3 DEF PortRefs, PortConn, P!Operations
  <2> QED BY <1>1, <1>2, <1>3, <1>7, <2>1, <2>2, <2>4, ClientStep DEF PortInv, PortTypes
<1>8. CASE P!CloseAndUnref(i, k)
  BY <1>1, <1>2, <1>3, <1>4, <1>5, <1>6, <1>8, ClosingKeeps
<1>9. CASE /\ ~k.cancelled
           /\ P!Put(i, P!Unref(P!program_read([k EXCEPT !.connecting = FALSE])))
           /\ P!Send(P!Msg("ACK", i, WINDOW_SIZE \div 2)) /\ UNCHANGED connections
  <2> DEFINE d == P!program_read([k EXCEPT !.connecting = FALSE])
             c == P!Unref(d)
             m == [command |-> "ACK", id |-> i, size |-> WINDOW_SIZE \div 2]
  <2>1. /\ d \in ConnRecord /\ d.refs = conn[i].refs + 1 /\ d.op = "read"
        /\ d.connecting = FALSE /\ d.writing = conn[i].writing /\ d.data_sent = 0
        /\ d.cancelled = conn[i].cancelled /\ d.write_buffer = conn[i].write_buffer
    <3> DEFINE e == [k EXCEPT !.connecting = FALSE]
    <3>1. /\ e \in ConnRecord /\ e.refs = k.refs /\ e.connecting = FALSE
          /\ e.writing = k.writing /\ e.data_sent = k.data_sent
          /\ e.cancelled = k.cancelled /\ e.write_buffer = k.write_buffer
      BY <1>5 DEF ConnRecord
    <3> HIDE DEF e
    <3>2. d = P!program_read(e)
      BY DEF e
    <3> HIDE DEF d
    <3> QED BY <1>3, <1>5, <3>1, <3>2, ReadStarts
  <2>2. /\ c \in ConnRecord /\ c.refs = conn[i].refs /\ c.op = "read" /\ c.connecting = FALSE
        /\ c.writing = conn[i].writing /\ c.data_sent = 0
        /\ c.cancelled = conn[i].cancelled /\ c.write_buffer = conn[i].write_buffer
    <3> HIDE DEF d
    <3>1. conn[i].refs \in Int
      BY <1>2 DEF ConnRecord
    <3> QED BY <2>1, <3>1, Unreffing
  <2>3. conn' = [conn EXCEPT ![i] = c] /\ toAgent' = Append(toAgent, m)
    BY <1>9 DEF P!Put, P!Send, P!Msg
  <2>4. m \in AgentMsgs /\ m.command = "ACK" /\ m.id = i
    BY PortConstants DEF AgentMsgs
  <2> HIDE DEF c, m
  <2>5. toAgent' \in Seq(AgentMsgs) /\ \A x \in Elems(toAgent') : x \in Elems(toAgent) \/ x = m
    BY <2>3, <2>4, Sending
  <2>6. conn'[i] = c
    BY <2>3 DEF PortInv, PortTypes
  <2>7. PortRefs(i)' /\ PortConn(i)'
    BY <1>1, <1>2, <1>3, <1>4, <1>9, <2>2, <2>6, PortConstants
       DEF PortRefs, PortConn, P!Operations, ConnRecord
  <2> QED BY <1>1, <1>2, <1>3, <1>9, <2>2, <2>3, <2>4, <2>5, <2>7, ClientStep
          DEF PortInv, PortTypes
<1> QED BY <1>1, <1>7, <1>8, <1>9

LEMMA ReadStopsKeeps ==
  ASSUME PortInv, NEW i \in P!Conns, P!ReadCancelled(i) \/ P!ReadEnds(i) PROVE PortInv'
<1> DEFINE k == [conn[i] EXCEPT !.op = "none"]
<1>1. /\ conn[i].op = "read" /\ UNCHANGED <<made, progs, toClient, agent>>
      /\ \/ conn[i].cancelled /\ P!Put(i, P!Unref(k)) /\ UNCHANGED <<connections, toAgent>>
         \/ P!CloseAndUnref(i, k)
  BY DEF P!ReadCancelled, P!ReadEnds, P!avars
<1>2. /\ conn[i] \in ConnRecord /\ PortRefs(i) /\ PortConn(i) /\ i \in made
      /\ toAgent \in Seq(AgentMsgs) /\ toClient \in Seq(ClientMsgs) /\ connections \subseteq made
  BY <1>1, PortTyping
<1>3. /\ k \in ConnRecord /\ k.op = "none" /\ k.refs = conn[i].refs
      /\ k.connecting = conn[i].connecting /\ k.writing = conn[i].writing
      /\ k.data_sent = conn[i].data_sent /\ k.write_buffer = conn[i].write_buffer
  BY <1>2 DEF ConnRecord
<1>4. /\ P!Operations(conn[i]) = P!Operations(k) + 1 /\ P!Operations(k) \in Int
  BY <1>1, <1>3 DEF P!Operations
<1>5. k.refs = P!Operations(k) + 1 + (IF i \in connections THEN 1 ELSE 0)
  BY <1>2, <1>3, <1>4 DEF PortRefs
<1>6. k.writing => ~k.connecting /\ k.write_buffer # <<>>
  BY <1>2, <1>3 DEF PortConn
<1>7. k.connecting => k.data_sent = 0
  BY <1>2, <1>3 DEF PortConn
<1> HIDE DEF k
<1>8. CASE conn[i].cancelled /\ P!Put(i, P!Unref(k)) /\ UNCHANGED <<connections, toAgent>>
  <2> DEFINE c == P!Unref(k)
  <2>1. /\ c \in ConnRecord /\ c.refs = k.refs - 1 /\ c.op = "none" /\ c.writing = k.writing
        /\ c.connecting = k.connecting /\ c.data_sent = k.data_sent
        /\ c.write_buffer = k.write_buffer
    BY <1>3, Unreffing
  <2>2. conn' = [conn EXCEPT ![i] = c] /\ i \notin connections
    BY <1>2, <1>8 DEF P!Put, PortConn
  <2> HIDE DEF c
  <2>3. conn'[i] = c /\ i \notin connections'
    BY <1>8, <2>2 DEF PortInv, PortTypes
  <2>4. P!Operations(c) = P!Operations(k)
    BY <1>3, <2>1 DEF P!Operations
  <2>5. c.refs = P!Operations(c)
    BY <1>4, <1>5, <2>1, <2>2, <2>4
  <2>6. PortRefs(i)' /\ PortConn(i)'
    BY <1>1, <1>2, <1>3, <1>4, <1>6, <1>7, <2>1, <2>3, <2>4, <2>5
       DEF PortRefs, PortConn, P!Operations
  <2> QED BY <1>1, <1>2, <1>3, <1>8, <2>1, <2>2, <2>6, ClientStep DEF PortInv, PortTypes
<1>9. CASE P!CloseAndUnref(i, k)
  BY <1>1, <1>2, <1>3, <1>5, <1>6, <1>7, <1>9, ClosingKeeps
<1> QED BY <1>1, <1>8, <1>9

LEMMA WriteFailsKeeps ==
  ASSUME PortInv, NEW i \in P!Conns, P!WriteFails(i) PROVE PortInv'
<1> DEFINE k == [conn[i] EXCEPT !.writing = FALSE]
<1>1. /\ conn[i].writing /\ UNCHANGED <<made, progs, toClient, agent>>
      /\ P!CloseAndUnref(i, k)
  BY DEF P!WriteFails, P!avars
<1>2. /\ conn[i] \in ConnRecord /\ PortRefs(i) /\ PortConn(i) /\ i \in made
  BY <1>1, PortTyping
<1>3. /\ k \in ConnRecord /\ k.writing = FALSE /\ k.refs = conn[i].refs /\ k.op = conn[i].op
      /\ k.connecting = conn[i].connecting /\ k.data_sent = conn[i].data_sent
  BY <1>2 DEF ConnRecord
<1>4. ~conn[i].connecting /\ conn[i].op # "connect"
  BY <1>1, <1>2 DEF PortConn
<1>5. /\ P!Operations(conn[i]) = P!Operations(k) + 1 /\ P!Operations(k) \in Int
  BY <1>1, <1>3 DEF P!Operations
<1>6. k.refs = P!Operations(k) + 1 + (IF i \in connections THEN 1 ELSE 0)
  BY <1>2, <1>3, <1>5 DEF PortRefs
<1> HIDE DEF k
<1> QED BY <1>1, <1>2, <1>3, <1>4, <1>6, ClosingKeeps

LEMMA StretchTyped ==
  ASSUME NEW a \in Int, NEW n \in Nat
  PROVE  P!Stretch(a, n) \in Seq(Int)
BY SeqDef DEF P!Stretch

LEMMA ReadKeeps ==
  ASSUME PortInv, NEW i \in P!Conns, P!Read(i) PROVE PortInv'
<1>1. PICK n \in 1 .. MaxRead :
        /\ conn[i].op = "read" /\ ~conn[i].cancelled
        /\ progs' = [progs EXCEPT ![i].read = @ + n]
        /\ toAgent' = Append(toAgent, P!Data(i, P!Stretch(progs[i].read, n)))
        /\ P!Put(i, IF conn[i].data_sent + n < WINDOW_SIZE
                      THEN [conn[i] EXCEPT !.data_sent = conn[i].data_sent + n]
                      ELSE P!Unref([conn[i] EXCEPT !.data_sent = conn[i].data_sent + n,
                                                   !.op = "none"]))
        /\ UNCHANGED <<connections, made, toClient, agent>>
  BY DEF P!Read, P!Send, P!avars, P!InWindow
<1>2. /\ conn[i] \in ConnRecord /\ PortRefs(i) /\ PortConn(i) /\ i \in made
      /\ toAgent \in Seq(AgentMsgs) /\ toClient \in Seq(ClientMsgs) /\ connections \subseteq made
  BY <1>1, PortTyping
<1>3. n \in Nat /\ n > 0 /\ MaxRead \in Nat
  BY MainAssumption DEF P!PortForwardAssumption
<1>4. PICK s \in Int : s = conn[i].data_sent + n
  BY <1>2, <1>3 DEF ConnRecord
<1> DEFINE m == P!Data(i, P!Stretch(progs[i].read, n))
<1>5. m \in AgentMsgs /\ m.command = "DATA"
  <2>1. P!Stretch(progs[i].read, n) \in Seq(Int)
    BY <1>3, StretchTyped DEF PortInv, PortTypes
  <2> QED BY <2>1 DEF P!Data, AgentMsgs, Bulk
<1> HIDE DEF m
<1>6. toAgent' \in Seq(AgentMsgs) /\ \A x \in Elems(toAgent') : x \in Elems(toAgent) \/ x = m
  BY <1>1, <1>5, Sending DEF m
<1>7. /\ DOMAIN progs' = P!Conns
      /\ \A j \in P!Conns : DOMAIN progs'[j] = {"read", "written"} /\ progs'[j].read \in Int
  BY <1>1, <1>3 DEF PortInv, PortTypes
<1>8. ~conn[i].connecting
  BY <1>1, <1>2 DEF PortConn
<1>9. CASE s < WINDOW_SIZE
  <2> DEFINE c == [conn[i] EXCEPT !.data_sent = s]
  <2>1. /\ c \in ConnRecord /\ c.refs = conn[i].refs /\ c.op = "read" /\ c.data_sent = s
        /\ c.connecting = conn[i].connecting /\ c.writing = conn[i].writing
        /\ c.cancelled = conn[i].cancelled /\ c.write_buffer = conn[i].write_buffer
    BY <1>1, <1>2 DEF ConnRecord
  <2>2. conn' = [conn EXCEPT ![i] = c]
    BY <1>1, <1>4, <1>9 DEF P!Put
  <2> HIDE DEF c
  <2>3. conn'[i] = c
    BY <2>2 DEF PortInv, PortTypes
  <2>4. PortRefs(i)' /\ PortConn(i)'
    BY <1>1, <1>2, <1>8, <1>9, <2>1, <2>3 DEF PortRefs, PortConn, P!Operations
  <2> QED BY <1>1, <1>2, <1>5, <1>6, <1>7, <1>8, <2>1, <2>2, <2>4, ClientStep
          DEF PortInv, PortTypes
<1>10. CASE ~(s < WINDOW_SIZE)
  <2> DEFINE e == [conn[i] EXCEPT !.data_sent = s, !.op = "none"]
             c == P!Unref(e)
  <2>1. /\ e \in ConnRecord /\ e.refs = conn[i].refs /\ e.op = "none" /\ e.data_sent = s
        /\ e.connecting = conn[i].connecting /\ e.writing = conn[i].writing
        /\ e.cancelled = conn[i].cancelled /\ e.write_buffer = conn[i].write_buffer
    BY <1>2 DEF ConnRecord
  <2>2. conn' = [conn EXCEPT ![i] = c]
    BY <1>1, <1>4, <1>10 DEF P!Put
  <2> HIDE DEF e
  <2>3. /\ c \in ConnRecord /\ c.refs = conn[i].refs - 1 /\ c.op = "none" /\ c.data_sent = s
        /\ c.connecting = conn[i].connecting /\ c.writing = conn[i].writing
        /\ c.cancelled = conn[i].cancelled /\ c.write_buffer = conn[i].write_buffer
    BY <2>1, Unreffing
  <2> HIDE DEF c
  <2>4. conn'[i] = c
    BY <2>2 DEF PortInv, PortTypes
  <2>5. PortRefs(i)'
    <3>1. P!Operations(conn[i]) = P!Operations(c) + 1 /\ P!Operations(c) \in Int
      BY <1>1, <2>3 DEF P!Operations
    <3>2. c.refs = P!Operations(c) + (IF i \in connections THEN 1 ELSE 0)
      BY <1>2, <2>3, <3>1 DEF PortRefs
    <3> QED BY <1>1, <2>4, <3>2 DEF PortRefs, P!Operations
  <2>6. PortConn(i)'
    BY <1>1, <1>2, <1>8, <1>10, <2>3, <2>4 DEF PortConn
  <2> QED BY <1>1, <1>2, <1>5, <1>6, <1>7, <1>8, <2>2, <2>3, <2>5, <2>6, ClientStep
          DEF PortInv, PortTypes
<1> QED BY <1>9, <1>10

LEMMA RestTyped ==
  ASSUME NEW b \in Seq(Seq(Int)), b # <<>>, NEW n \in 1 .. Len(Head(b))
  PROVE  P!Rest(b, n) \in Seq(Seq(Int))
<1>1. Head(b) \in Seq(Int) /\ Tail(b) \in Seq(Seq(Int))
  BY HeadTailProperties
<1>2. Len(Head(b)) \in Nat
  BY <1>1, LenProperties
<1>3. n + 1 \in 1 .. Len(Head(b)) + 1 /\ Len(Head(b)) \in 0 .. Len(Head(b))
  BY <1>2
<1>4. PICK r : r = SubSeq(Head(b), n + 1, Len(Head(b)))
  OBVIOUS
<1>5. r \in Seq(Int)
  BY <1>1, <1>3, <1>4, AfterSubSeq
<1>6. PICK f : f = IF r = <<>> THEN <<>> ELSE <<r>>
  OBVIOUS
<1>7. f \in Seq(Seq(Int))
  <2>1. CASE r = <<>>
    BY <1>6, <2>1, EmptySeq
  <2>2. CASE r # <<>>
    BY <1>5, <1>6, <2>2
  <2> QED BY <2>1, <2>2
<1>8. P!Rest(b, n) = f \o Tail(b)
  BY <1>4, <1>6 DEF P!Rest
<1> QED BY <1>1, <1>7, <1>8, ConcatProperties

LEMMA WrittenKeeps ==
  ASSUME PortInv, NEW i \in P!Conns, P!Written(i) PROVE PortInv'
<1>1. PICK n \in 1 .. Len(Head(conn[i].write_buffer)), acks \in BOOLEAN :
        LET left == P!Rest(conn[i].write_buffer, n)
            received == conn[i].data_received + n
            w == [conn[i] EXCEPT !.write_buffer = left, !.writing = left # <<>>]
            held == IF left = <<>> THEN P!Unref(w) ELSE w
        IN /\ conn[i].writing
           /\ progs' = [progs EXCEPT ![i].written =
                          @ \o SubSeq(Head(conn[i].write_buffer), 1, n)]
           /\ IF acks THEN P!Send(P!Msg("ACK", i, received)) ELSE UNCHANGED toAgent
           /\ P!Put(i, [held EXCEPT !.data_received = P!AfterAck(received, acks)])
           /\ UNCHANGED <<connections, made, toClient, agent>>
  BY DEF P!Written, P!avars
<1>2. /\ conn[i] \in ConnRecord /\ PortRefs(i) /\ PortConn(i) /\ i \in made
      /\ toAgent \in Seq(AgentMsgs) /\ toClient \in Seq(ClientMsgs) /\ connections \subseteq made
  BY <1>1, PortTyping
<1>3. /\ conn[i].write_buffer \in Seq(Seq(Int)) /\ conn[i].write_buffer # <<>>
      /\ ~conn[i].connecting
  BY <1>1, <1>2 DEF PortConn, ConnRecord
<1>4. PICK left \in Seq(Seq(Int)) : left = P!Rest(conn[i].write_buffer, n)
  BY <1>3, RestTyped
<1>5. n \in Int
  <2>1. Len(Head(conn[i].write_buffer)) \in Nat
    BY <1>3, HeadTailProperties, LenProperties
  <2> QED BY <2>1
<1>6. PICK received \in Int : received = conn[i].data_received + n
  BY <1>2, <1>5 DEF ConnRecord
<1>7. PICK b \in BOOLEAN : b <=> left # <<>>
  OBVIOUS
<1>8. PICK d \in Int : d = P!AfterAck(received, acks)
  BY DEF P!AfterAck
<1> DEFINE w == [conn[i] EXCEPT !.write_buffer = left, !.writing = b]
           held == IF left = <<>> THEN P!Unref(w) ELSE w
           c == [held EXCEPT !.data_received = d]
<1>9. conn' = [conn EXCEPT ![i] = c]
  <2>1. b = (left # <<>>)
    BY <1>7
  <2> QED BY <1>1, <1>4, <1>6, <1>8, <2>1 DEF P!Put
<1>10. /\ w \in ConnRecord /\ w.write_buffer = left /\ w.writing = b /\ w.refs = conn[i].refs
       /\ w.op = conn[i].op /\ w.connecting = conn[i].connecting
       /\ w.data_sent = conn[i].data_sent /\ w.cancelled = conn[i].cancelled
  BY <1>2 DEF ConnRecord
<1> HIDE DEF w
<1>11. /\ held \in ConnRecord /\ held.write_buffer = left /\ held.writing = b
       /\ left = <<>> => held.refs = conn[i].refs - 1
       /\ left # <<>> => held.refs = conn[i].refs
       /\ held.op = conn[i].op /\ held.connecting = conn[i].connecting
       /\ held.data_sent = conn[i].data_sent /\ held.cancelled = conn[i].cancelled
  <2>1. CASE left = <<>>
    BY <1>10, <2>1, Unreffing
  <2>2. CASE left # <<>>
    BY <1>10, <2>2
  <2> QED BY <2>1, <2>2
<1> HIDE DEF held
<1>12. /\ c \in ConnRecord /\ c.write_buffer = left /\ c.writing = b /\ c.refs = held.refs
       /\ c.op = conn[i].op /\ c.connecting = conn[i].connecting
       /\ c.data_sent = conn[i].data_sent /\ c.cancelled = conn[i].cancelled
  BY <1>11 DEF ConnRecord
<1> HIDE DEF c
<1>13. conn'[i] = c
  BY <1>9 DEF PortInv, PortTypes
<1>14. PortRefs(i)'
  <2>1. conn[i].writing = TRUE /\ conn[i].refs \in Int
    BY <1>1, <1>2 DEF ConnRecord
  <2>2. CASE left = <<>>
    <3>1. P!Operations(conn[i]) = P!Operations(c) + 1 /\ P!Operations(c) \in Int
      BY <1>7, <1>12, <2>1, <2>2 DEF P!Operations
    <3>2. c.refs = P!Operations(c) + (IF i \in connections THEN 1 ELSE 0)
      BY <1>2, <1>11, <1>12, <2>2, <3>1 DEF PortRefs
    <3> QED BY <1>1, <1>13, <3>2 DEF PortRefs, P!Operations
  <2>3. CASE left # <<>>
    <3>1. P!Operations(conn[i]) = P!Operations(c)
      BY <1>7, <1>12, <2>1, <2>3 DEF P!Operations
    <3>2. c.refs = P!Operations(c) + (IF i \in connections THEN 1 ELSE 0)
      BY <1>2, <1>11, <1>12, <2>3, <3>1 DEF PortRefs
    <3> QED BY <1>1, <1>13, <3>2 DEF PortRefs, P!Operations
  <2> QED BY <2>2, <2>3
<1>15. PortConn(i)'
  BY <1>1, <1>2, <1>3, <1>7, <1>12, <1>13 DEF PortConn
<1>16. /\ toAgent' \in Seq(AgentMsgs)
       /\ \A x \in Elems(toAgent') : x \in Elems(toAgent) \/ (x.command = "ACK" /\ x.id = i)
  <2>1. CASE acks
    <3> DEFINE m == P!Msg("ACK", i, received)
    <3>1. m \in AgentMsgs /\ m.command = "ACK" /\ m.id = i
      BY DEF P!Msg, AgentMsgs
    <3>2. toAgent' = Append(toAgent, m)
      BY <1>1, <1>6, <2>1 DEF P!Send
    <3> HIDE DEF m
    <3> QED BY <3>1, <3>2, Sending
  <2>2. CASE ~acks
    BY <1>1, <1>2, <2>2
  <2> QED BY <2>1, <2>2
<1>17. /\ DOMAIN progs' = P!Conns
       /\ \A j \in P!Conns : DOMAIN progs'[j] = {"read", "written"} /\ progs'[j].read \in Int
  BY <1>1 DEF PortInv, PortTypes
<1> QED BY <1>1, <1>2, <1>3, <1>9, <1>12, <1>14, <1>15, <1>16, <1>17, ClientStep
        DEF PortInv, PortTypes
\* What the client's handlers of messages have in common
LEMMA Received ==
  ASSUME PortInv, NEW c, P!Receive(c)
  PROVE  /\ Head(toClient) \in ClientMsgs /\ Head(toClient) \in Elems(toClient)
         /\ Head(toClient).command = c
         /\ toClient' \in Seq(ClientMsgs) /\ Elems(toClient') \subseteq Elems(toClient)
         /\ \A j : Once(toClient, j) => Once(toClient', j)
         /\ \A j : Once(toClient, j) /\ Head(toClient).command = "ACCEPTED" /\ Head(toClient).id = j
                     => ~Sent(toClient', "ACCEPTED", j)
         /\ UNCHANGED agent
<1>1. /\ toClient # <<>> /\ toClient' = Tail(toClient) /\ Head(toClient).command = c
      /\ UNCHANGED agent
  BY DEF P!Receive, P!avars
<1>2. toClient \in Seq(ClientMsgs)
  BY DEF PortInv, PortTypes
<1> QED BY <1>1, <1>2, AfterTail

\* The handlers that leave the connections as they are
LEMMA QuietStep ==
  ASSUME PortInv, UNCHANGED <<connections, conn, made, progs, agent>>,
         toAgent' \in Seq(AgentMsgs),
         \A m \in Elems(toAgent') : m \in Elems(toAgent) \/ m.command \notin {"CONNECT", "ACK"},
         toClient' \in Seq(ClientMsgs), Elems(toClient') \subseteq Elems(toClient),
         \A j : Once(toClient, j) => Once(toClient', j)
  PROVE  PortInv'
<1>1. agent' \in [P!Conns -> AgentRecord]
  BY DEF PortInv, PortTypes
<1>2. ASSUME NEW j \in Guest
      PROVE  /\ Once(toClient', j)
             /\ Sent(toClient', "ACCEPTED", j) => j \notin made /\ agent'[j].st # "none"
             /\ agent'[j].st = "none" => agent[j].st = "none"
             /\ Sent(toClient', "ACK", j) =>
                  Sent(toClient, "ACK", j) \/ Sent(toAgent, "ACK", j) \/ agent[j].st = "open"
             /\ agent'[j].st = "open" => agent[j].st = "open" \/ Sent(toAgent, "ACK", j)
  <2>1. PortGuest(j)
    BY DEF PortInv
  <2> QED BY <2>1 DEF PortGuest, Sent
<1> QED BY <1>1, <1>2, QueueStep

LEMMA AcceptedKeeps ==
  ASSUME PortInv, P!handle_accepted PROVE PortInv'
<1> DEFINE h == Head(toClient)
<1>1. /\ h \in ClientMsgs /\ h \in Elems(toClient) /\ h.command = "ACCEPTED"
      /\ toClient' \in Seq(ClientMsgs) /\ Elems(toClient') \subseteq Elems(toClient)
      /\ \A j : Once(toClient, j) => Once(toClient', j)
      /\ \A j : Once(toClient, j) /\ h.id = j => ~Sent(toClient', "ACCEPTED", j)
      /\ UNCHANGED <<agent, progs>>
  BY Received DEF P!handle_accepted
<1>2. PICK i \in P!Conns : i = h.id /\ h.size \in Nat
  BY <1>1 DEF ClientMsgs, Bulk
<1>3. i \in Guest
  BY <1>1, <1>2 DEF PortInv, PortQueues
<1>4. i \notin made /\ agent[i].st # "none" /\ ~Sent(toClient', "ACCEPTED", i)
  BY <1>1, <1>2, <1>3 DEF PortInv, PortGuest, Sent
<1>5. CASE assoc
  <2> DEFINE c == [P!Unused EXCEPT !.refs = 2, !.connecting = TRUE, !.op = "connect",
                                   !.ack_interval = h.size]
  <2>1. /\ conn' = [conn EXCEPT ![i] = c] /\ connections' = connections \union {i}
        /\ made' = made \union {i} /\ UNCHANGED toAgent
    BY <1>2, <1>5 DEF P!handle_accepted, P!Put
  <2>2. /\ c \in ConnRecord /\ c.refs = 2 /\ c.connecting = TRUE /\ c.op = "connect"
        /\ c.writing = FALSE /\ c.write_buffer = <<>> /\ c.data_sent = 0 /\ c.cancelled = FALSE
    <3>1. PICK u \in ConnRecord : u = P!Unused
      BY UnusedTyped
    <3>2. /\ u.writing = FALSE /\ u.write_buffer = <<>> /\ u.data_sent = 0
          /\ u.cancelled = FALSE
      BY <3>1, UnusedTyped
    <3>3. PICK n \in Int : n = 2
      OBVIOUS
    <3>4. PICK s \in Int : s = h.size
      BY <1>2
    <3> DEFINE v == [u EXCEPT !.refs = n, !.connecting = TRUE]
               w == [v EXCEPT !.op = "connect"]
    <3>5. c = [w EXCEPT !.ack_interval = s]
      BY <3>1, <3>3, <3>4
    <3>6. /\ v \in ConnRecord /\ v.refs = n /\ v.connecting = TRUE
          /\ v.writing = u.writing /\ v.write_buffer = u.write_buffer
          /\ v.data_sent = u.data_sent /\ v.cancelled = u.cancelled
      BY DEF ConnRecord
    <3> HIDE DEF c, v
    <3>7. /\ w \in ConnRecord /\ w.refs = n /\ w.connecting = TRUE /\ w.op = "connect"
          /\ w.writing = u.writing /\ w.write_buffer = u.write_buffer
          /\ w.data_sent = u.data_sent /\ w.cancelled = u.cancelled
      BY <3>6 DEF ConnRecord
    <3> HIDE DEF w
    <3>8. /\ c \in ConnRecord /\ c.refs = n /\ c.connecting = TRUE /\ c.op = "connect"
          /\ c.writing = u.writing /\ c.write_buffer = u.write_buffer
          /\ c.data_sent = u.data_sent /\ c.cancelled = u.cancelled
      BY <3>5, <3>7 DEF ConnRecord
    <3> QED BY <3>2, <3>3, <3>8
  <2> HIDE DEF c
  <2>3. conn'[i] = c /\ i \in connections' /\ i \in made'
    BY <1>2, <2>1 DEF PortInv, PortTypes
  <2>4. PortRefs(i)' /\ PortConn(i)'
    BY <1>3, <2>2, <2>3 DEF PortRefs, PortConn, P!Operations
  <2>5. /\ connections' \subseteq made' /\ toAgent' \in Seq(AgentMsgs)
        /\ DOMAIN progs' = P!Conns
        /\ \A j \in P!Conns : DOMAIN progs'[j] = {"read", "written"} /\ progs'[j].read \in Int
    BY <1>1, <2>1 DEF PortInv, PortTypes
  <2>6. \A m \in Elems(toAgent') : m \in Elems(toAgent)
    BY <2>1
  <2> QED BY <1>1, <1>2, <1>3, <1>4, <2>1, <2>2, <2>4, <2>5, <2>6, ClientStep
<1>6. CASE ~assoc
  <2> DEFINE m == [command |-> "CLOSE", id |-> i, size |-> 0]
  <2>1. toAgent' = Append(toAgent, m) /\ UNCHANGED <<conn, connections, made>>
    BY <1>2, <1>6 DEF P!handle_accepted, P!Send, P!Msg
  <2>2. m \in AgentMsgs /\ m.command = "CLOSE"
    BY <1>2 DEF AgentMsgs
  <2> HIDE DEF m
  <2>3. toAgent' \in Seq(AgentMsgs) /\ \A x \in Elems(toAgent') : x \in Elems(toAgent) \/ x = m
    BY <2>1, <2>2, Sending
  <2> QED BY <1>1, <2>1, <2>2, <2>3, QuietStep
<1> QED BY <1>5, <1>6

LEMMA DataKeeps ==
  ASSUME PortInv, P!handle_data PROVE PortInv'
<1> DEFINE h == Head(toClient)
<1>1. /\ h \in ClientMsgs /\ h \in Elems(toClient) /\ h.command = "DATA"
      /\ toClient' \in Seq(ClientMsgs) /\ Elems(toClient') \subseteq Elems(toClient)
      /\ \A j : Once(toClient, j) => Once(toClient', j)
      /\ UNCHANGED <<connections, made, toAgent, agent, progs>>
  BY Received DEF P!handle_data
<1>2. PICK i \in P!Conns : i = h.id /\ h.data \in Seq(Int)
  BY <1>1 DEF ClientMsgs, Bulk
<1>3. toAgent' \in Seq(AgentMsgs) /\ \A m \in Elems(toAgent') : m \in Elems(toAgent)
  BY <1>1 DEF PortInv, PortTypes
<1>4. CASE i \in connections /\ ~conn[i].connecting
  <2>1. /\ conn[i] \in ConnRecord /\ PortRefs(i) /\ PortConn(i) /\ i \in made
    BY <1>2, <1>4, PortTyping
  <2>2. PICK buffer : buffer = Append(conn[i].write_buffer, h.data)
    OBVIOUS
  <2>3. /\ buffer \in Seq(Seq(Int)) /\ buffer # <<>>
        /\ Len(buffer) = 1 <=> conn[i].write_buffer = <<>>
    <3>1. conn[i].write_buffer \in Seq(Seq(Int))
      BY <2>1 DEF ConnRecord
    <3>2. PICK n \in Nat : n = Len(conn[i].write_buffer)
      BY <3>1, LenProperties
    <3>3. buffer \in Seq(Seq(Int)) /\ Len(buffer) = n + 1
      BY <1>2, <2>2, <3>1, <3>2, AppendProperties
    <3>4. buffer # <<>>
      BY <3>3, EmptySeq
    <3>5. n = 0 <=> conn[i].write_buffer = <<>>
      BY <3>1, <3>2, EmptySeq
    <3> QED BY <3>3, <3>4, <3>5
  <2>4. PICK r \in Int : r = IF Len(buffer) = 1 THEN conn[i].refs + 1 ELSE conn[i].refs
    BY <2>1 DEF ConnRecord
  <2> DEFINE v == [conn[i] EXCEPT !.write_buffer = buffer, !.writing = TRUE]
             c == [v EXCEPT !.refs = r]
  <2>5. conn' = [conn EXCEPT ![i] = c]
    BY <1>2, <1>4, <2>2, <2>4 DEF P!handle_data, P!Put
  <2>6. /\ v \in ConnRecord /\ v.write_buffer = buffer /\ v.writing = TRUE
        /\ v.op = conn[i].op /\ v.connecting = conn[i].connecting
        /\ v.data_sent = conn[i].data_sent /\ v.cancelled = conn[i].cancelled
    BY <2>1, <2>3 DEF ConnRecord
  <2> HIDE DEF v
  <2>7. /\ c \in ConnRecord /\ c.write_buffer = buffer /\ c.writing = TRUE /\ c.refs = r
        /\ c.op = conn[i].op /\ c.connecting = conn[i].connecting
        /\ c.data_sent = conn[i].data_sent /\ c.cancelled = conn[i].cancelled
    BY <2>6 DEF ConnRecord
  <2> HIDE DEF c
  <2>8. conn'[i] = c
    BY <1>2, <2>5 DEF PortInv, PortTypes
  <2>9. conn[i].writing <=> conn[i].write_buffer # <<>>
    BY <1>4, <2>1 DEF PortConn
  <2>10. PortRefs(i)'
    <3>1. P!Operations(c) = P!Operations(conn[i]) + (IF conn[i].writing THEN 0 ELSE 1)
      BY <2>7 DEF P!Operations
    <3>2. conn[i].refs = P!Operations(conn[i]) + (IF i \in connections THEN 1 ELSE 0)
      BY <2>1 DEF PortRefs
    <3>3. r = IF conn[i].writing THEN conn[i].refs ELSE conn[i].refs + 1
      BY <2>3, <2>4, <2>9
    <3>4. P!Operations(conn[i]) \in Int
      BY DEF P!Operations
    <3>5. c.refs = P!Operations(c) + (IF i \in connections THEN 1 ELSE 0)
      BY <2>7, <3>1, <3>2, <3>3, <3>4
    <3> QED BY <1>1, <2>8, <3>5 DEF PortRefs, P!Operations
  <2>11. PortConn(i)'
    BY <1>1, <1>4, <2>1, <2>3, <2>7, <2>8 DEF PortConn
  <2> QED BY <1>1, <1>2, <1>3, <1>4, <2>1, <2>5, <2>7, <2>10, <2>11, ClientStep
          DEF PortInv, PortTypes
<1>5. CASE ~(i \in connections /\ ~conn[i].connecting)
  <2>1. UNCHANGED conn
    BY <1>2, <1>5 DEF P!handle_data
  <2> QED BY <1>1, <1>3, <2>1, QuietStep
<1> QED BY <1>4, <1>5

LEMMA CloseKeeps ==
  ASSUME PortInv, P!handle_close PROVE PortInv'
<1> DEFINE h == Head(toClient)
<1>1. /\ h \in ClientMsgs /\ h.command = "CLOSE"
      /\ toClient' \in Seq(ClientMsgs) /\ Elems(toClient') \subseteq Elems(toClient)
      /\ \A j : Once(toClient, j) => Once(toClient', j)
      /\ UNCHANGED <<made, agent, progs>>
  BY Received DEF P!handle_close
<1>2. PICK i \in P!Conns : i = h.id
  BY <1>1 DEF ClientMsgs, Bulk
<1>3. CASE i \in connections
  <2> DEFINE c == P!Closed(i, conn[i])
  <2>1. /\ conn' = [conn EXCEPT ![i] = c] /\ connections' = connections \ {i}
        /\ UNCHANGED toAgent
    BY <1>2, <1>3 DEF P!handle_close, P!Put, P!DropFromTable
  <2>2. /\ conn[i] \in ConnRecord /\ PortRefs(i) /\ PortConn(i) /\ i \in made
    BY <1>3, PortTyping
  <2>3. /\ c \in ConnRecord /\ c.refs = conn[i].refs - 1 /\ c.op = conn[i].op
        /\ c.writing = conn[i].writing /\ c.connecting = conn[i].connecting
        /\ c.data_sent = conn[i].data_sent /\ c.write_buffer = conn[i].write_buffer
    BY <1>3, <2>2, Closing
  <2> HIDE DEF c
  <2>4. conn'[i] = c /\ i \notin connections'
    BY <2>1 DEF PortInv, PortTypes
  <2>5. P!Operations(c) = P!Operations(conn[i]) /\ P!Operations(c) \in Int
    BY <2>3 DEF P!Operations
  <2>6. c.refs = P!Operations(c)
    BY <1>3, <2>2, <2>3, <2>5 DEF PortRefs
  <2>7. PortRefs(i)'
    BY <2>4, <2>5, <2>6 DEF PortRefs, P!Operations
  <2>8. PortConn(i)'
    BY <1>1, <2>2, <2>3, <2>4 DEF PortConn
  <2>9. toAgent' \in Seq(AgentMsgs) /\ \A m \in Elems(toAgent') : m \in Elems(toAgent)
    BY <2>1 DEF PortInv, PortTypes
  <2> QED BY <1>1, <2>1, <2>2, <2>3, <2>7, <2>8, <2>9, ClientStep DEF PortInv, PortTypes
<1>4. CASE i \notin connections
  <2> DEFINE m == [command |-> "CLOSE", id |-> i, size |-> 0]
  <2>1. toAgent' = Append(toAgent, m) /\ UNCHANGED <<conn, connections>>
    BY <1>2, <1>4 DEF P!handle_close, P!Send, P!Msg
  <2>2. m \in AgentMsgs /\ m.command = "CLOSE"
    BY DEF AgentMsgs
  <2> HIDE DEF m
  <2>3. toAgent' \in Seq(AgentMsgs) /\ \A x \in Elems(toAgent') : x \in Elems(toAgent) \/ x = m
    BY <2>1, <2>2, Sending
  <2> QED BY <1>1, <2>1, <2>2, <2>3, QuietStep
<1> QED BY <1>3, <1>4

LEMMA AckKeeps ==
  ASSUME PortInv, P!handle_ack PROVE PortInv'
<1> DEFINE h == Head(toClient)
<1>1. /\ h \in ClientMsgs /\ h \in Elems(toClient) /\ h.command = "ACK"
      /\ toClient' \in Seq(ClientMsgs) /\ Elems(toClient') \subseteq Elems(toClient)
      /\ \A j : Once(toClient, j) => Once(toClient', j)
      /\ UNCHANGED <<connections, made, toAgent, agent, progs>>
  BY Received DEF P!handle_ack
<1>2. PICK i \in P!Conns : i = h.id /\ h.size \in Nat
  BY <1>1 DEF ClientMsgs, Bulk
<1>3. toAgent' \in Seq(AgentMsgs) /\ \A m \in Elems(toAgent') : m \in Elems(toAgent)
  BY <1>1 DEF PortInv, PortTypes
<1>4. conn[i] \in ConnRecord /\ PortRefs(i) /\ PortConn(i) /\ (i \in connections => i \in made)
  BY PortTyping
<1>5. PICK n \in Int : n = h.size /\ n >= 0
  BY <1>2
<1>6. PICK s \in Int : s = conn[i].data_sent - n
  BY <1>4 DEF ConnRecord
<1>7. CASE i \in connections /\ conn[i].connecting
  <2>1. i \notin Guest
    <3>1. Sent(toClient, "ACK", i)
      BY <1>1, <1>2 DEF Sent
    <3> QED BY <1>7, <3>1 DEF PortInv, PortGuest
  <2>2. /\ conn[i].op = "none" /\ ~conn[i].writing /\ conn[i].data_sent = 0
        /\ conn[i].write_buffer = <<>> /\ ~conn[i].cancelled
    BY <1>4, <1>7, <2>1 DEF PortConn
  <2> DEFINE e == [conn[i] EXCEPT !.connecting = FALSE, !.ack_interval = n]
             c == P!program_read(e)
  <2>3. conn' = [conn EXCEPT ![i] = c]
    BY <1>2, <1>5, <1>7 DEF P!handle_ack, P!Put
  <2>4. /\ e \in ConnRecord /\ e.refs = conn[i].refs /\ e.connecting = FALSE
        /\ e.writing = conn[i].writing /\ e.data_sent = conn[i].data_sent
        /\ e.cancelled = conn[i].cancelled /\ e.write_buffer = conn[i].write_buffer
    BY <1>4, <1>5 DEF ConnRecord
  <2> HIDE DEF e
  <2>5. /\ c \in ConnRecord /\ c.refs = conn[i].refs + 1 /\ c.op = "read"
        /\ c.connecting = FALSE /\ c.writing = conn[i].writing
        /\ c.data_sent = conn[i].data_sent /\ c.cancelled = conn[i].cancelled
        /\ c.write_buffer = conn[i].write_buffer
    BY <2>4, ReadStarts
  <2> HIDE DEF c
  <2>6. conn'[i] = c
    BY <2>3 DEF PortInv, PortTypes
  <2>7. conn[i].refs = 1
    BY <1>4, <1>7, <2>2 DEF PortRefs, P!Operations
  <2>8. PortRefs(i)'
    BY <1>1, <1>7, <2>2, <2>5, <2>6, <2>7 DEF PortRefs, P!Operations
  <2>9. PortConn(i)'
    BY <1>1, <1>4, <1>7, <2>2, <2>5, <2>6, PortConstants DEF PortConn
  <2> QED BY <1>1, <1>3, <1>4, <1>7, <2>3, <2>5, <2>8, <2>9, ClientStep
          DEF PortInv, PortTypes
<1>8. CASE i \in connections /\ ~conn[i].connecting
  <2>1. /\ ~conn[i].cancelled /\ (conn[i].writing <=> conn[i].write_buffer # <<>>)
        /\ (conn[i].op = "read" <=> conn[i].data_sent < WINDOW_SIZE)
        /\ conn[i].op # "connect"
    BY <1>4, <1>8 DEF PortConn
  <2> DEFINE e == [conn[i] EXCEPT !.data_sent = s]
             c == IF P!Resumes(conn[i].data_sent, s) THEN P!program_read(e) ELSE e
  <2>2. conn' = [conn EXCEPT ![i] = c]
    BY <1>2, <1>5, <1>6, <1>8 DEF P!handle_ack, P!Put
  <2>3. /\ e \in ConnRecord /\ e.refs = conn[i].refs /\ e.connecting = conn[i].connecting
        /\ e.writing = conn[i].writing /\ e.data_sent = s /\ e.op = conn[i].op
        /\ e.cancelled = conn[i].cancelled /\ e.write_buffer = conn[i].write_buffer
    BY <1>4 DEF ConnRecord
  <2> HIDE DEF e
  <2>4. conn[i].op \in {"none", "read"} /\ conn[i].data_sent \in Int /\ conn[i].refs \in Int
    BY <1>4, <2>1 DEF ConnRecord
  <2>5. CASE P!Resumes(conn[i].data_sent, s)
    <3>1. s < WINDOW_SIZE /\ conn[i].op = "none"
      BY <2>1, <2>4, <2>5, PortConstants DEF P!Resumes
    <3>2. /\ c \in ConnRecord /\ c.refs = conn[i].refs + 1 /\ c.op = "read"
          /\ c.connecting = conn[i].connecting /\ c.writing = conn[i].writing
          /\ c.data_sent = s /\ c.cancelled = conn[i].cancelled
          /\ c.write_buffer = conn[i].write_buffer
      BY <2>3, <2>5, ReadStarts
    <3> HIDE DEF c
    <3>3. conn'[i] = c
      BY <2>2 DEF PortInv, PortTypes
    <3>4. P!Operations(c) = P!Operations(conn[i]) + 1 /\ P!Operations(conn[i]) \in Int
      BY <3>1, <3>2 DEF P!Operations
    <3>5. c.refs = P!Operations(c) + (IF i \in connections THEN 1 ELSE 0)
      BY <1>4, <3>2, <3>4 DEF PortRefs
    <3>6. PortRefs(i)'
      BY <1>1, <3>3, <3>5 DEF PortRefs, P!Operations
    <3>7. PortConn(i)'
      BY <1>1, <1>4, <1>8, <2>1, <3>1, <3>2, <3>3 DEF PortConn
    <3> QED BY <1>1, <1>3, <1>4, <1>8, <2>2, <3>2, <3>6, <3>7, ClientStep
            DEF PortInv, PortTypes
  <2>6. CASE ~P!Resumes(conn[i].data_sent, s)
    <3>1. conn[i].op = "read" <=> s < WINDOW_SIZE
      BY <1>5, <1>6, <2>1, <2>4, <2>6, PortConstants DEF P!Resumes
    <3>2. c = e
      BY <2>6
    <3> HIDE DEF c
    <3>3. conn'[i] = e
      BY <2>2, <3>2 DEF PortInv, PortTypes
    <3>4. P!Operations(e) = P!Operations(conn[i])
      BY <2>3 DEF P!Operations
    <3>5. e.refs = P!Operations(e) + (IF i \in connections THEN 1 ELSE 0)
      BY <1>4, <2>3, <3>4 DEF PortRefs
    <3>6. PortRefs(i)'
      BY <1>1, <3>3, <3>5 DEF PortRefs, P!Operations
    <3>7. PortConn(i)'
      BY <1>1, <1>4, <1>8, <2>1, <2>3, <3>1, <3>3 DEF PortConn
    <3> QED BY <1>1, <1>3, <1>4, <1>8, <2>2, <2>3, <3>2, <3>6, <3>7, ClientStep
            DEF PortInv, PortTypes
  <2> QED BY <2>5, <2>6
<1>9. CASE i \notin connections
  <2>1. UNCHANGED conn
    BY <1>2, <1>9 DEF P!handle_ack
  <2> QED BY <1>1, <1>3, <2>1, QuietStep
<1> QED BY <1>7, <1>8, <1>9

LEMMA DisconnectedKeeps ==
  ASSUME PortInv, P!agent_disconnected PROVE PortInv'
<1>1. /\ toClient' \in Seq(ClientMsgs) /\ Elems(toClient') \subseteq Elems(toClient)
      /\ \A j : Once(toClient, j) => Once(toClient', j)
      /\ UNCHANGED <<made, toAgent, agent, progs>> /\ connections' = {}
      /\ conn' = [i \in P!Conns |-> IF i \in connections THEN P!Unref(conn[i]) ELSE conn[i]]
  BY Received DEF P!agent_disconnected
<1>2. ASSUME NEW i \in P!Conns
      PROVE  /\ conn'[i] \in ConnRecord
             /\ conn'[i].refs = IF i \in connections THEN conn[i].refs - 1 ELSE conn[i].refs
             /\ conn'[i].op = conn[i].op /\ conn'[i].writing = conn[i].writing
             /\ conn'[i].connecting = conn[i].connecting
             /\ conn'[i].data_sent = conn[i].data_sent
             /\ conn'[i].write_buffer = conn[i].write_buffer
             /\ i \notin connections => conn'[i] = conn[i]
  BY <1>1, PortTyping, Unreffing
<1>3. PortTypes'
  <2>1. conn' \in [P!Conns -> ConnRecord]
    BY <1>1, <1>2
  <2> QED BY <1>1, <2>1 DEF PortInv, PortTypes
<1>4. PortQueues'
  BY <1>1 DEF PortInv, PortQueues
<1>5. ASSUME NEW i \in Guest PROVE PortGuest(i)'
  <2>1. PortGuest(i) /\ i \in P!Conns
    BY PortConstants DEF PortInv
  <2>2. conn'[i].connecting = conn[i].connecting
    BY <1>2, <2>1
  <2> QED BY <1>1, <2>1, <2>2 DEF PortGuest, Sent
<1>6. ASSUME NEW i \in P!Conns PROVE (PortRefs(i) /\ PortConn(i))'
  <2>1. PortRefs(i) /\ PortConn(i) /\ conn[i] \in ConnRecord /\ (i \in connections => i \in made)
    BY PortTyping
  <2>2. conn'[i].refs = P!Operations(conn[i]) /\ P!Operations(conn'[i]) = P!Operations(conn[i])
    <3>1. P!Operations(conn[i]) \in Int
      BY DEF P!Operations
    <3> QED BY <1>2, <2>1, <3>1 DEF PortRefs, P!Operations
  <2>3. PortRefs(i)'
    <3>1. P!Operations(conn[i]) \in Int
      BY DEF P!Operations
    <3> QED BY <1>1, <2>2, <3>1 DEF PortRefs, P!Operations
  <2>4. PortConn(i)'
    BY <1>1, <1>2, <2>1 DEF PortConn, P!Unused
  <2> QED BY <2>3, <2>4
<1> QED BY <1>3, <1>4, <1>5, <1>6 DEF PortInv

LEMMA StartKeeps ==
  ASSUME PortInv, P!agent_start PROVE PortInv'
<1> DEFINE m == [command |-> "START"]
<1>1. /\ toClient' \in Seq(ClientMsgs) /\ Elems(toClient') \subseteq Elems(toClient)
      /\ \A j : Once(toClient, j) => Once(toClient', j)
      /\ UNCHANGED <<connections, conn, made, agent, progs>>
  BY Received DEF P!agent_start
<1>2. PICK k \in 0 .. Len(toAgent) :
        toAgent' = (SubSeq(toAgent, 1, k) \o <<m>>) \o SubSeq(toAgent, k + 1, Len(toAgent))
  BY DEF P!agent_start, P!Plain
<1>3. toAgent \in Seq(AgentMsgs)
  BY DEF PortInv, PortTypes
<1>4. PICK n \in Nat : n = Len(toAgent)
  BY <1>3, LenProperties
<1>5. 1 \in 1 .. n + 1 /\ k \in 0 .. n /\ k + 1 \in 1 .. n + 1 /\ n \in 0 .. n
  BY <1>4
<1>6. PICK a : a = SubSeq(toAgent, 1, k)
  OBVIOUS
<1>7. PICK b : b = SubSeq(toAgent, k + 1, Len(toAgent))
  OBVIOUS
<1>8. a \in Seq(AgentMsgs) /\ Elems(a) \subseteq Elems(toAgent)
  BY <1>3, <1>4, <1>5, <1>6, AfterSubSeq
<1>9. b \in Seq(AgentMsgs) /\ Elems(b) \subseteq Elems(toAgent)
  BY <1>3, <1>4, <1>5, <1>7, AfterSubSeq
<1>10. m \in AgentMsgs
  BY DEF AgentMsgs
<1>11. <<m>> \in Seq(AgentMsgs) /\ Elems(<<m>>) = {m}
  BY <1>10 DEF Elems
<1>12. m.command = "START"
  OBVIOUS
<1> HIDE DEF m
<1>13. PICK f : f = a \o <<m>>
  OBVIOUS
<1>14. f \in Seq(AgentMsgs) /\ Elems(f) \subseteq Elems(a) \union {m}
  BY <1>8, <1>11, <1>13, AfterConcat
<1>15. toAgent' = f \o b
  BY <1>2, <1>6, <1>7, <1>13
<1>16. toAgent' \in Seq(AgentMsgs) /\ Elems(toAgent') \subseteq Elems(f) \union Elems(b)
  BY <1>9, <1>14, <1>15, AfterConcat
<1> QED BY <1>1, <1>8, <1>9, <1>12, <1>14, <1>16, QuietStep

\* The calls of the client that associate the port
LEMMA AssociateKeeps ==
  ASSUME PortInv,
         P!AssociateRemote \/ P!DisassociateRemote \/ P!AssociateLocal \/ P!AcceptFails
  PROVE  PortInv'
<1> DEFINE m == [command |-> "SHUTDOWN"]
           n == [command |-> "LISTEN"]
<1>1. UNCHANGED <<connections, conn, made, progs, agent, toClient>>
  BY DEF P!AssociateRemote, P!DisassociateRemote, P!AssociateLocal, P!AcceptFails, P!avars
<1>2. /\ m \in AgentMsgs /\ n \in AgentMsgs /\ m.command = "SHUTDOWN" /\ n.command = "LISTEN"
  BY DEF AgentMsgs
<1>3. /\ toAgent \in Seq(AgentMsgs) /\ toClient' \in Seq(ClientMsgs)
      /\ Elems(toClient') \subseteq Elems(toClient)
      /\ \A j : Once(toClient, j) => Once(toClient', j)
  BY <1>1 DEF PortInv, PortTypes
<1>4. CASE P!AssociateRemote
  <2>1. PICK r : r = IF assoc THEN <<m>> ELSE <<>>
    OBVIOUS
  <2>2. r \in Seq(AgentMsgs) /\ Elems(r) \subseteq {m}
    <3> HIDE DEF m
    <3>1. CASE assoc
      <4>1. r = <<m>>
        BY <2>1, <3>1
      <4> QED BY <1>2, <4>1 DEF Elems
    <3>2. CASE ~assoc
      <4>1. r = <<>>
        BY <2>1, <3>2
      <4>2. Len(r) = 0 /\ r \in Seq(AgentMsgs)
        BY <4>1, EmptySeq
      <4> QED BY <4>2 DEF Elems
    <3> QED BY <3>1, <3>2
  <2>3. toAgent' = (toAgent \o r) \o <<n>>
    BY <1>4, <2>1 DEF P!AssociateRemote, P!Plain
  <2> HIDE DEF m, n
  <2>4. PICK f : f = toAgent \o r
    OBVIOUS
  <2>5. f \in Seq(AgentMsgs) /\ Elems(f) \subseteq Elems(toAgent) \union {m}
    BY <1>3, <2>2, <2>4, AfterConcat
  <2>6. <<n>> \in Seq(AgentMsgs) /\ Elems(<<n>>) = {n}
    BY <1>2 DEF Elems
  <2>7. toAgent' \in Seq(AgentMsgs) /\ Elems(toAgent') \subseteq Elems(f) \union {n}
    BY <2>3, <2>4, <2>5, <2>6, AfterConcat
  <2> QED BY <1>1, <1>2, <1>3, <2>5, <2>7, QuietStep
<1>5. CASE P!DisassociateRemote
  <2>1. toAgent' = Append(toAgent, m)
    BY <1>5 DEF P!DisassociateRemote, P!Send, P!Plain
  <2> HIDE DEF m
  <2>2. toAgent' \in Seq(AgentMsgs) /\ \A x \in Elems(toAgent') : x \in Elems(toAgent) \/ x = m
    BY <1>2, <2>1, Sending
  <2> QED BY <1>1, <1>2, <1>3, <2>2, QuietStep
<1>6. CASE P!AssociateLocal \/ P!AcceptFails
  <2>1. UNCHANGED toAgent
    BY <1>6 DEF P!AssociateLocal, P!AcceptFails
  <2> QED BY <1>1, <1>3, <2>1, QuietStep
<1> QED BY <1>4, <1>5, <1>6

\* A step of the agent on one connection, which may answer with one message
LEMMA AgentStep ==
  ASSUME PortInv, NEW i \in P!Conns, NEW a \in AgentRecord, NEW m \in ClientMsgs,
         agent' = [agent EXCEPT ![i] = a],
         UNCHANGED <<connections, conn, made, progs>>,
         toAgent' \in Seq(AgentMsgs), Elems(toAgent') \subseteq Elems(toAgent),
         toClient' = toClient \/ toClient' = Append(toClient, m),
         m.command = "ACCEPTED" =>
           m.id = i /\ i \in Guest /\ agent[i].st = "none" /\ a.st # "none",
         m.command = "ACK" => m.id = i /\ (i \in Guest => agent[i].st = "open"),
         a.st = "none" => agent[i].st = "none",
         a.st = "open" /\ i \in Guest => agent[i].st = "open" \/ Sent(toAgent, "ACK", i)
  PROVE  PortInv'
<1>1. toClient \in Seq(ClientMsgs) /\ agent \in [P!Conns -> AgentRecord]
  BY DEF PortInv, PortTypes
<1>2. \A j \in P!Conns : agent'[j] = IF j = i THEN a ELSE agent[j]
  BY <1>1
<1>3. agent' \in [P!Conns -> AgentRecord]
  BY <1>1
<1>4. /\ toClient' \in Seq(ClientMsgs) /\ Elems(toClient') \subseteq Elems(toClient) \union {m}
      /\ \A j : Once(toClient, j) /\ ~(m.command = "ACCEPTED" /\ m.id = j
                                        /\ Sent(toClient, "ACCEPTED", j))
                  => Once(toClient', j)
  <2>1. CASE toClient' = toClient
    BY <1>1, <2>1
  <2>2. CASE toClient' = Append(toClient, m)
    BY <1>1, <2>2, AfterAppend
  <2> QED BY <2>1, <2>2
<1>5. ASSUME NEW j \in Guest
      PROVE  /\ Once(toClient', j)
             /\ Sent(toClient', "ACCEPTED", j) => j \notin made /\ agent'[j].st # "none"
             /\ agent'[j].st = "none" => agent[j].st = "none"
             /\ Sent(toClient', "ACK", j) =>
                  Sent(toClient, "ACK", j) \/ Sent(toAgent, "ACK", j) \/ agent[j].st = "open"
             /\ agent'[j].st = "open" => agent[j].st = "open" \/ Sent(toAgent, "ACK", j)
  <2>1. PortGuest(j) /\ j \in P!Conns
    BY PortConstants DEF PortInv
  <2>2. Once(toClient', j)
    BY <1>4, <2>1 DEF PortGuest
  <2>3. /\ Sent(toClient', "ACCEPTED", j) =>
              Sent(toClient, "ACCEPTED", j) \/ (m.command = "ACCEPTED" /\ m.id = j)
        /\ Sent(toClient', "ACK", j) =>
              Sent(toClient, "ACK", j) \/ (m.command = "ACK" /\ m.id = j)
    BY <1>4 DEF Sent
  <2>4. Sent(toClient', "ACCEPTED", j) => j \notin made /\ agent'[j].st # "none"
    BY <1>2, <2>1, <2>3 DEF PortGuest
  <2> QED BY <1>2, <2>1, <2>2, <2>3, <2>4
<1>6. \A x \in Elems(toClient') : x \in Elems(toClient) \/ (x.command = "ACCEPTED" => x.id \in Guest)
  BY <1>4
<1> QED BY <1>3, <1>4, <1>5, <1>6, QueueStep

LEMMA Guestlessly ==
  ASSUME NEW st \in {"none", "asked", "open", "closed"}
  PROVE  P!Guestless(st) \in AgentRecord /\ P!Guestless(st).st = st
BY DEF P!Guestless, AgentRecord

LEMMA AgentAcceptsKeeps ==
  ASSUME PortInv, NEW i \in P!Conns, P!AgentAccepts(i) PROVE PortInv'
<1> DEFINE a == [agent[i] EXCEPT !.st = "asked"]
           m == [command |-> "ACCEPTED", id |-> i, size |-> WINDOW_SIZE \div 2]
<1>1. /\ i \in Guest /\ agent[i].st = "none"
      /\ agent' = [agent EXCEPT ![i] = a] /\ toClient' = Append(toClient, m)
      /\ UNCHANGED <<connections, conn, made, progs, toAgent>>
  BY DEF P!AgentAccepts, P!Fresh, P!AgentEnd, P!Reply, P!Msg, P!cvars
<1>2. a \in AgentRecord /\ a.st = "asked"
  BY DEF PortInv, PortTypes, AgentRecord
<1>3. m \in ClientMsgs /\ m.command = "ACCEPTED" /\ m.id = i
  BY PortConstants DEF ClientMsgs
<1>4. toAgent' \in Seq(AgentMsgs) /\ Elems(toAgent') \subseteq Elems(toAgent)
  BY <1>1 DEF PortInv, PortTypes
<1> HIDE DEF a, m
<1> QED BY <1>1, <1>2, <1>3, <1>4, AgentStep

LEMMA AgentSendsKeeps ==
  ASSUME PortInv, NEW i \in P!Conns, P!AgentSends(i) PROVE PortInv'
<1>1. agent[i] \in AgentRecord /\ agent[i].sent \in Int
  BY DEF PortInv, PortTypes, AgentRecord
<1>2. PICK n \in Nat : n = IF agent[i].sent + MaxRead <= Bytes THEN MaxRead ELSE Bytes - agent[i].sent
  BY <1>1, MainAssumption DEF P!AgentSends, P!PortForwardAssumption
<1>3. PICK s \in Int : s = agent[i].sent + n
  BY <1>1
<1> DEFINE a == [agent[i] EXCEPT !.sent = s]
           m == P!Data(i, P!Stretch(agent[i].sent, n))
<1>4. /\ agent[i].st = "open" /\ agent' = [agent EXCEPT ![i] = a]
      /\ toClient' = Append(toClient, m)
      /\ UNCHANGED <<connections, conn, made, progs, toAgent>>
  BY <1>2, <1>3 DEF P!AgentSends, P!AgentEnd, P!Reply, P!cvars
<1>5. a \in AgentRecord /\ a.st = "open"
  BY <1>1, <1>4 DEF AgentRecord
<1>6. m \in ClientMsgs /\ m.command = "DATA"
  BY <1>1, StretchTyped DEF P!Data, ClientMsgs, Bulk
<1>7. toAgent' \in Seq(AgentMsgs) /\ Elems(toAgent') \subseteq Elems(toAgent)
  BY <1>4 DEF PortInv, PortTypes
<1> HIDE DEF a, m
<1> QED BY <1>4, <1>5, <1>6, <1>7, AgentStep

LEMMA AgentClosesKeeps ==
  ASSUME PortInv, NEW i \in P!Conns, P!AgentCloses(i) PROVE PortInv'
<1> DEFINE a == P!Guestless("closed")
           m == [command |-> "CLOSE", id |-> i, size |-> 0]
<1>1. /\ agent' = [agent EXCEPT ![i] = a] /\ toClient' = Append(toClient, m)
      /\ UNCHANGED <<connections, conn, made, progs, toAgent>>
  BY DEF P!AgentCloses, P!AgentEnd, P!Reply, P!Msg, P!cvars
<1>2. a \in AgentRecord /\ a.st = "closed"
  BY Guestlessly
<1>3. m \in ClientMsgs /\ m.command = "CLOSE"
  BY DEF ClientMsgs
<1>4. toAgent' \in Seq(AgentMsgs) /\ Elems(toAgent') \subseteq Elems(toAgent)
  BY <1>1 DEF PortInv, PortTypes
<1> HIDE DEF a, m
<1> QED BY <1>1, <1>2, <1>3, <1>4, AgentStep

LEMMA AgentReceivesKeeps ==
  ASSUME PortInv, P!AgentReceives PROVE PortInv'
<1> DEFINE h == Head(toAgent)
<1>1. /\ toAgent # <<>> /\ toAgent' = Tail(toAgent)
      /\ UNCHANGED <<connections, conn, made, progs>>
  BY DEF P!AgentReceives, P!cvars
<1>2. toAgent \in Seq(AgentMsgs) /\ toClient \in Seq(ClientMsgs)
  BY DEF PortInv, PortTypes
<1>3. /\ h \in AgentMsgs /\ h \in Elems(toAgent)
      /\ toAgent' \in Seq(AgentMsgs) /\ Elems(toAgent') \subseteq Elems(toAgent)
  BY <1>1, <1>2, AfterTail
<1>4. CASE P!Quiet
  BY <1>1, <1>2, <1>3, <1>4, QuietStep DEF P!Quiet
<1>5. CASE ~P!Quiet
  <2>1. PICK i : i = h.id
    OBVIOUS
  <2>2. PICK c : c = h.command
    OBVIOUS
  <2>3. \/ c = "CONNECT" /\ P!AgentConnects(h)
        \/ c = "ACK" /\ agent[i].st = "asked" /\ UNCHANGED toClient
           /\ P!AgentEnd(i, [agent[i] EXCEPT !.st = "open"])
        \/ c = "ACK" /\ agent[i].st = "open" /\ UNCHANGED toClient
           /\ P!AgentEnd(i, [agent[i] EXCEPT !.acked = agent[i].acked + h.size])
        \/ c = "DATA" /\ agent[i].st = "open" /\ P!AgentTakesData(h)
        \/ c = "CLOSE" /\ agent[i].st # "none" /\ UNCHANGED toClient
           /\ P!AgentEnd(i, P!Guestless("closed"))
    BY <1>5, <2>1, <2>2 DEF P!AgentReceives
  <2>4. /\ i \in P!Conns
        /\ c \in {"CONNECT", "ACK", "CLOSE"} => h.size \in Int
        /\ c = "DATA" => h.data \in Seq(Int)
    BY <1>3, <2>1, <2>2, <2>3 DEF AgentMsgs, Bulk
  <2>5. /\ agent[i] \in AgentRecord /\ agent[i].acked \in Int /\ agent[i].got \in Int
        /\ agent[i].owes \in Nat
    BY <2>4 DEF PortInv, PortTypes, AgentRecord
  <2>6. PICK p : p = [command |-> "GONE"]
    OBVIOUS
  <2>7. p \in ClientMsgs /\ p.command = "GONE"
    BY <2>6 DEF ClientMsgs
  <2>8. CASE c = "CONNECT" /\ P!AgentConnects(h)
    <3>1. i \in Local /\ i \notin Guest
      BY <1>3, <2>1, <2>2, <2>4, <2>8, PortConstants DEF PortInv, PortQueues
    <3>2. CASE /\ P!AgentEnd(i, [agent[i] EXCEPT !.st = "open"])
               /\ P!Reply(P!Msg("ACK", i, WINDOW_SIZE \div 2))
      <4> DEFINE a == [agent[i] EXCEPT !.st = "open"]
                 m == [command |-> "ACK", id |-> i, size |-> WINDOW_SIZE \div 2]
      <4>1. agent' = [agent EXCEPT ![i] = a] /\ toClient' = Append(toClient, m)
        BY <3>2 DEF P!AgentEnd, P!Reply, P!Msg
      <4>2. a \in AgentRecord /\ a.st = "open"
        BY <2>5 DEF AgentRecord
      <4>3. m \in ClientMsgs /\ m.command = "ACK" /\ m.id = i
        BY <2>4, PortConstants DEF ClientMsgs
      <4> HIDE DEF a, m
      <4> QED BY <1>1, <1>3, <2>4, <3>1, <4>1, <4>2, <4>3, AgentStep
    <3>3. CASE P!AgentEnd(i, P!Guestless("closed")) /\ P!Reply(P!Msg("CLOSE", i, 0))
      <4> DEFINE a == P!Guestless("closed")
                 m == [command |-> "CLOSE", id |-> i, size |-> 0]
      <4>1. agent' = [agent EXCEPT ![i] = a] /\ toClient' = Append(toClient, m)
        BY <3>3 DEF P!AgentEnd, P!Reply, P!Msg
      <4>2. a \in AgentRecord /\ a.st = "closed"
        BY Guestlessly
      <4>3. m \in ClientMsgs /\ m.command = "CLOSE"
        BY <2>4 DEF ClientMsgs
      <4> HIDE DEF a, m
      <4> QED BY <1>1, <1>3, <2>4, <4>1, <4>2, <4>3, AgentStep
    <3> QED BY <2>1, <2>8, <3>2, <3>3 DEF P!AgentConnects
  <2>9. CASE /\ c = "ACK" /\ agent[i].st = "asked" /\ UNCHANGED toClient
             /\ P!AgentEnd(i, [agent[i] EXCEPT !.st = "open"])
    <3> DEFINE a == [agent[i] EXCEPT !.st = "open"]
    <3>1. a \in AgentRecord /\ a.st = "open"
      BY <2>5 DEF AgentRecord
    <3>2. agent' = [agent EXCEPT ![i] = a] /\ toClient' = toClient
      BY <2>9 DEF P!AgentEnd
    <3>3. Sent(toAgent, "ACK", i)
      BY <1>3, <2>1, <2>2, <2>9 DEF Sent
    <3> HIDE DEF a
    <3> QED BY <1>1, <1>3, <2>4, <2>7, <3>1, <3>2, <3>3, AgentStep
  <2>10. CASE /\ c = "ACK" /\ agent[i].st = "open" /\ UNCHANGED toClient
              /\ P!AgentEnd(i, [agent[i] EXCEPT !.acked = agent[i].acked + h.size])
    <3>0. PICK n \in Int : n = agent[i].acked + h.size
      BY <2>4, <2>5, <2>10
    <3> DEFINE a == [agent[i] EXCEPT !.acked = n]
    <3>1. a \in AgentRecord /\ a.st = agent[i].st
      BY <2>5 DEF AgentRecord
    <3>2. agent' = [agent EXCEPT ![i] = a] /\ toClient' = toClient
      BY <2>10, <3>0 DEF P!AgentEnd
    <3> HIDE DEF a
    <3> QED BY <1>1, <1>3, <2>4, <2>7, <2>10, <3>1, <3>2, AgentStep
  <2>11. CASE c = "DATA" /\ agent[i].st = "open" /\ P!AgentTakesData(h)
    <3>1. Len(h.data) \in Nat
      BY <2>4, <2>11, LenProperties
    <3>2. PICK n \in Nat : n = agent[i].owes + Len(h.data)
      BY <2>5, <3>1
    <3>3. PICK g \in Int : g = agent[i].got + Len(h.data)
      BY <2>5, <3>1
    <3>4. PICK z \in Nat : z = 0
      OBVIOUS
    <3> DEFINE b == [agent[i] EXCEPT !.got = g]
               x == [b EXCEPT !.owes = z]
               y == [b EXCEPT !.owes = n]
               m == [command |-> "ACK", id |-> i, size |-> n]
    <3>5. \/ agent' = [agent EXCEPT ![i] = x] /\ toClient' = Append(toClient, m)
          \/ agent' = [agent EXCEPT ![i] = y] /\ UNCHANGED toClient
      BY <2>1, <2>11, <3>2, <3>3, <3>4 DEF P!AgentTakesData, P!AgentEnd, P!Reply, P!Msg
    <3>6. b \in AgentRecord /\ b.st = agent[i].st
      BY <2>5 DEF AgentRecord
    <3> HIDE DEF b
    <3>7. x \in AgentRecord /\ x.st = b.st /\ y \in AgentRecord /\ y.st = b.st
      BY <3>6 DEF AgentRecord
    <3>8. m \in ClientMsgs /\ m.command = "ACK" /\ m.id = i
      BY <2>4 DEF ClientMsgs
    <3> HIDE DEF m, x, y
    <3> QED BY <1>1, <1>3, <2>4, <2>11, <3>5, <3>6, <3>7, <3>8, AgentStep
  <2>12. CASE /\ c = "CLOSE" /\ agent[i].st # "none" /\ UNCHANGED toClient
              /\ P!AgentEnd(i, P!Guestless("closed"))
    <3> DEFINE a == P!Guestless("closed")
    <3>1. a \in AgentRecord /\ a.st = "closed"
      BY Guestlessly
    <3>2. agent' = [agent EXCEPT ![i] = a] /\ toClient' = toClient
      BY <2>12 DEF P!AgentEnd
    <3> HIDE DEF a
    <3> QED BY <1>1, <1>3, <2>4, <2>7, <3>1, <3>2, AgentStep
  <2> QED BY <2>3, <2>8, <2>9, <2>10, <2>11, <2>12
<1> QED BY <1>4, <1>5

LEMMA AgentGoesKeeps ==
  ASSUME PortInv, P!AgentDies \/ P!AgentStarts PROVE PortInv'
<1>1. PICK m \in {[command |-> "GONE"], [command |-> "CONNECTED"]} :
        toClient' = Append(toClient, m)
  BY DEF P!AgentDies, P!AgentStarts, P!Reply, P!Plain
<1>2. m \in ClientMsgs /\ m.command \in {"GONE", "CONNECTED"}
  BY DEF ClientMsgs
<1>3. UNCHANGED <<connections, conn, made, progs, toAgent>>
  BY DEF P!AgentDies, P!AgentStarts, P!cvars
<1>4. /\ toClient \in Seq(ClientMsgs) /\ toAgent' \in Seq(AgentMsgs)
      /\ agent \in [P!Conns -> AgentRecord]
  BY <1>3 DEF PortInv, PortTypes
<1>5. /\ toClient' \in Seq(ClientMsgs) /\ Elems(toClient') = Elems(toClient) \union {m}
      /\ \A j : Once(toClient, j) => Once(toClient', j)
  BY <1>1, <1>2, <1>4, AfterAppend
<1>6. /\ agent' \in [P!Conns -> AgentRecord]
      /\ \A j \in P!Conns : /\ agent'[j].st = "none" <=> agent[j].st = "none"
                            /\ agent'[j].st = "open" => agent[j].st = "open"
  <2>1. CASE P!AgentDies
    <3>1. agent' = [i \in P!Conns |-> IF agent[i].st = "none" THEN agent[i]
                                      ELSE P!Guestless("closed")]
      BY <2>1 DEF P!AgentDies
    <3> QED BY <1>4, <3>1, Guestlessly
  <2>2. CASE P!AgentStarts
    BY <1>4, <2>2 DEF P!AgentStarts
  <2> QED BY <2>1, <2>2
<1>7. ASSUME NEW j \in Guest
      PROVE  /\ Once(toClient', j)
             /\ Sent(toClient', "ACCEPTED", j) => j \notin made /\ agent'[j].st # "none"
             /\ agent'[j].st = "none" => agent[j].st = "none"
             /\ Sent(toClient', "ACK", j) =>
                  Sent(toClient, "ACK", j) \/ Sent(toAgent, "ACK", j) \/ agent[j].st = "open"
             /\ agent'[j].st = "open" => agent[j].st = "open" \/ Sent(toAgent, "ACK", j)
  <2>1. PortGuest(j) /\ j \in P!Conns
    BY PortConstants DEF PortInv
  <2>2. /\ Sent(toClient', "ACCEPTED", j) => Sent(toClient, "ACCEPTED", j)
        /\ Sent(toClient', "ACK", j) => Sent(toClient, "ACK", j)
    BY <1>2, <1>5 DEF Sent
  <2> QED BY <1>5, <1>6, <2>1, <2>2 DEF PortGuest
<1>8. /\ \A x \in Elems(toAgent') : x \in Elems(toAgent)
      /\ \A x \in Elems(toClient') :
           x \in Elems(toClient) \/ (x.command = "ACCEPTED" => x.id \in Guest)
  BY <1>2, <1>3, <1>5
<1> QED BY <1>3, <1>4, <1>5, <1>6, <1>7, <1>8, QueueStep

LEMMA PortInvInit == P!Init => PortInv
<1> SUFFICES ASSUME P!Init PROVE PortInv
  OBVIOUS
<1>1. /\ connections = {} /\ made = {} /\ conn = [i \in P!Conns |-> P!Unused]
      /\ agent = [i \in P!Conns |-> P!Guestless("none")]
      /\ progs = [i \in P!Conns |-> [read |-> 0, written |-> <<>>]]
      /\ toAgent = <<>> /\ toClient = <<>>
  BY DEF P!Init
<1>2. Len(toAgent) = 0 /\ Len(toClient) = 0 /\ Elems(toAgent) = {} /\ Elems(toClient) = {}
  <2>1. Len(toAgent) = 0 /\ Len(toClient) = 0
    BY <1>1, EmptySeq
  <2> QED BY <2>1 DEF Elems
<1>3. PortTypes
  <2>1. toAgent \in Seq(AgentMsgs) /\ toClient \in Seq(ClientMsgs)
    BY <1>1, EmptySeq
  <2>2. conn \in [P!Conns -> ConnRecord] /\ agent \in [P!Conns -> AgentRecord]
    BY <1>1, UnusedTyped, Guestlessly
  <2> QED BY <1>1, <2>1, <2>2 DEF PortTypes
<1>4. PortQueues
  BY <1>2 DEF PortQueues
<1>5. ASSUME NEW i \in Guest PROVE PortGuest(i)
  <2>1. ~Sent(toClient, "ACCEPTED", i) /\ ~Sent(toClient, "ACK", i) /\ ~Sent(toAgent, "ACK", i)
    BY <1>2 DEF Sent
  <2>2. Once(toClient, i)
    BY <1>2 DEF Once
  <2>3. agent[i].st = "none"
    BY <1>1, PortConstants, Guestlessly
  <2> QED BY <1>1, <2>1, <2>2, <2>3 DEF PortGuest
<1>6. ASSUME NEW i \in P!Conns PROVE PortRefs(i) /\ PortConn(i)
  <2>1. conn[i] = P!Unused
    BY <1>1
  <2> QED BY <1>1, <2>1, UnusedTyped DEF PortRefs, PortConn, P!Operations
<1> QED BY <1>3, <1>4, <1>5, <1>6 DEF PortInv

LEMMA PortInvStep == PortInv /\ [P!Next]_(P!vars) => PortInv'
<1> SUFFICES ASSUME PortInv, [P!Next]_(P!vars) PROVE PortInv'
  OBVIOUS
<1>1. CASE UNCHANGED P!vars
  <2>1. UNCHANGED <<connections, conn, made, progs, toAgent, toClient, agent>>
    BY <1>1 DEF P!vars, P!cvars, P!avars
  <2>2. toAgent' \in Seq(AgentMsgs) /\ toClient' \in Seq(ClientMsgs)
    BY <2>1 DEF PortInv, PortTypes
  <2> QED BY <2>1, <2>2, QuietStep
<1>2. CASE P!AssociateRemote \/ P!DisassociateRemote \/ P!AssociateLocal \/ P!AcceptFails
  BY <1>2, AssociateKeeps
<1>3. CASE P!Handle
  BY <1>3, AcceptedKeeps, DataKeeps, CloseKeeps, AckKeeps, DisconnectedKeeps, StartKeeps
     DEF P!Handle
<1>4. ASSUME NEW i \in P!Conns,
             P!Accept(i) \/ P!Callbacks(i) \/ P!ReadEnds(i) \/ P!WriteFails(i)
      PROVE  PortInv'
  BY <1>4, AcceptKeeps, ConnectedKeeps, ReadStopsKeeps, ReadKeeps, WrittenKeeps, WriteFailsKeeps
     DEF P!Callbacks
<1>5. CASE P!AgentReceives \/ P!AgentDies \/ P!AgentStarts
  BY <1>5, AgentReceivesKeeps, AgentGoesKeeps
<1>6. ASSUME NEW i \in P!Conns, P!AgentAccepts(i) \/ P!AgentSends(i) \/ P!AgentCloses(i)
      PROVE  PortInv'
  BY <1>6, AgentAcceptsKeeps, AgentSendsKeeps, AgentClosesKeeps
<1> QED BY <1>1, <1>2, <1>3, <1>4, <1>5, <1>6 DEF P!Next

LEMMA PortStep == [MCNext]_mcvars => [P!Next]_(P!vars)
<1> SUFFICES ASSUME [MCNext]_mcvars PROVE [P!Next]_(P!vars)
  OBVIOUS
<1>1. UNCHANGED forwardVars => UNCHANGED P!vars
  BY DEF forwardVars, P!vars, P!cvars, P!avars
<1>2. CASE UNCHANGED mcvars
  BY <1>1, <1>2 DEF mcvars
<1>3. CASE MCNext
  <2>1. ASSUME NEW x \in {"agent", "framing", "file"}, On(x) PROVE UNCHANGED forwardVars
    BY <2>1 DEF On
  <2> QED BY <1>1, <1>3, <2>1 DEF MCNext, P!Next, P!Handle, P!Callbacks
<1> QED BY <1>2, <1>3

\* Forwarded ports (unref_connection, close_connection, connection_read_callback,
\* connection_write_callback), for any connections and any window, with the agent lost and
\* back at any time: a connection has exactly one reference for its place in the table and
\* one for each of its operations, so that none ends on a freed struct and none is leaked.
THEOREM ForwardSafeTheorem == MCSpec => []ForwardSafe
<1>1. MCInit => PortInv
  BY PortInvInit DEF MCInit
<1>2. PortInv /\ [MCNext]_mcvars => PortInv'
  BY PortStep, PortInvStep
<1>3. PortInv => ForwardSafe
  BY DEF PortInv, PortRefs, ForwardSafe, P!RefExact
<1> QED BY <1>1, <1>2, <1>3, PTL DEF MCSpec

-----------------------------------------------------------------------------
(* The queue of agent messages *)

LEMMA AgentQueueStep == [MCNext]_mcvars => [Next]_vars
<1> SUFFICES ASSUME [MCNext]_mcvars PROVE [Next]_vars
  OBVIOUS
<1>1. CASE UNCHANGED mcvars
  BY <1>1 DEF mcvars
<1>2. CASE MCNext
  <2>1. ASSUME NEW x \in {"framing", "file", "forward"}, On(x) PROVE UNCHANGED vars
    BY <2>1 DEF On
  <2> QED BY <1>2, <2>1 DEF MCNext, Next, Main, Server, Coroutine
<1> QED BY <1>1, <1>2

\* The queue of agent messages (agent_msg_queue_many, agent_send_msg_queue,
\* file_xfer_flush_async, spice_main_channel_reset), for any tasks, messages and tokens, and
\* whatever the server sends while a task is between its wakeup and its flush request: the
\* messages stay whole and in order, each request that waits has the one entry of a chunk
\* that is still to be sent, and success is reported for data that left the queue.
THEOREM AgentSafeTheorem == MCSpec => []AgentSafe
<1>1. MCInit => StreamInv
  BY StreamInit DEF MCInit
<1>2. StreamInv /\ [MCNext]_mcvars => StreamInv'
  BY AgentQueueStep, StreamStep
<1>3. StreamInv => AgentSafe
  BY StreamSafe DEF AgentSafe
<1> QED BY <1>1, <1>2, <1>3, PTL DEF MCSpec
=============================================================================
