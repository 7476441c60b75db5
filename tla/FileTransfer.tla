---------------------------- MODULE FileTransfer ----------------------------
(***************************************************************************)
(* Copying files to the guest (channel-main.c, spice-file-transfer-task.c):*)
(* an operation has a task per file; a task opens its file, announces it,  *)
(* and reads and flushes a block at a time once the agent says so.  Errors,*)
(* cancellations, the agent's answers and the loss of the agent come in    *)
(* between any two callbacks.                                              *)
(*                                                                         *)
(* Every action is one callback of the main loop or one message of the     *)
(* agent.  A GTask returned in the dispatch that made it (the "eof" and    *)
(* "busy" answers of spice_file_transfer_task_read_async) runs its callback*)
(* later; any other runs it at once.                                       *)
(***************************************************************************)
EXTENDS Integers, FiniteSets, FiniteSetsExt

CONSTANTS
  Ops, Tasks,    \* calls of spice_main_channel_file_copy_async, and their files
  TasksOf,       \* the files of each operation
  Size,          \* the blocks of each file
  AnyAgent,      \* the agent may answer out of turn
  Precancelled,  \* an operation may be given a cancelled cancellable
  RacyCancel,    \* a cancellation may come inside a callback
  MayShrink,     \* a file may end before its announced size
  MayFail        \* files, and the agent, may fail

FileTransferAssumption ==
  /\ TasksOf \in [Ops -> SUBSET Tasks] /\ Size \in [Tasks -> Nat]
  /\ \A o, p \in Ops : o # p => TasksOf[o] \intersect TasksOf[p] = {}
  /\ \A o \in Ops : TasksOf[o] # {} /\ IsFiniteSet(TasksOf[o])
  /\ {AnyAgent, Precancelled, RacyCancel, MayShrink, MayFail} \subseteq BOOLEAN

VARIABLES
  agent_connected,
  task,       \* SpiceFileTransferTask; calls: the callbacks it waits for
  op,         \* FileTransferOperation; left: its table of tasks
  shared,     \* the operations whose files share the caller's cancellable
  cancelled,  \* the tasks whose cancellable is cancelled
  started,    \* the tasks whose START message was queued
  can_send,   \* those the agent let send
  queued,     \* the blocks of data queued to the agent, per task
  finished,   \* how often each task emitted "finished"
  odd         \* history: the operations that met what the code does not expect

vars == <<agent_connected, task, op, shared, cancelled, started, can_send,
          queued, finished, odd>>

Errors == {"none", "cancelled", "failed"}
Calls == {"open", "info", "read", "eof", "busy", "flush", "close"}

TypeOK ==
  /\ agent_connected \in BOOLEAN
  /\ task \in [Tasks -> [completed : BOOLEAN, pending : BOOLEAN, error : Errors,
                         file_stream : BOOLEAN, read_bytes : Nat,
                         file_size : Nat, calls : SUBSET Calls]]
  /\ \A t \in Tasks : task[t].read_bytes <= Size[t]
  /\ \A o \in Ops :
       /\ op[o].state \in {"new", "running", "ended"}
       /\ op[o].left \subseteq TasksOf[o]
       /\ op[o].total_sent \in Nat /\ op[o].transfer_size \in Int
       /\ op[o].returns \in Nat
  /\ shared \subseteq Ops
  /\ cancelled \subseteq Tasks /\ started \subseteq Tasks
  /\ can_send \subseteq Tasks
  /\ queued \in [Tasks -> Nat] /\ finished \in [Tasks -> Nat]
  /\ odd \subseteq Ops

NewTask == [completed |-> FALSE, pending |-> FALSE, error |-> "none",
            file_stream |-> FALSE, read_bytes |-> 0, file_size |-> 0,
            calls |-> {}]
NewOp == [state |-> "new", left |-> {}, total_sent |-> 0, transfer_size |-> 0,
          succeed |-> 0, cancelled |-> 0, failed |-> 0, returns |-> 0,
          progress |-> <<-1, -1>>]

Init ==
  /\ agent_connected = TRUE
  /\ task = [t \in Tasks |-> NewTask] /\ op = [o \in Ops |-> NewOp]
  /\ shared = {} /\ cancelled = {} /\ started = {} /\ can_send = {}
  /\ queued = [t \in Tasks |-> 0] /\ finished = [t \in Tasks |-> 0]
  /\ odd = {}

OpOf(t) == CHOOSE o \in Ops : t \in TasksOf[o]

(* A cancellable cancelled beforehand, a cancellation inside a callback, a *)
(* file that shrinks, an agent that answers out of turn.                   *)
Odd(o, happens) == odd' = IF happens THEN odd \union {o} ELSE odd

-----------------------------------------------------------------------------
(* spice_file_transfer_task_completed: the first error stays; a task with a*)
(* call pending only remembers that it is over; any other closes its file, *)
(* which leaves it pending, and emits "finished".                          *)
NeverWaits(tk) == FALSE
Waits(tk) == tk.pending
Complete(t, tk, err) ==
  LET e == IF tk.error = "none" THEN err ELSE tk.error
  IN IF Waits(tk)
       THEN [tk EXCEPT !.completed = TRUE,
                       !.error = IF e = "none" THEN "failed" ELSE e]
       ELSE [tk EXCEPT !.completed = TRUE, !.error = e,
                       !.pending = tk.file_stream,
                       !.calls = IF tk.file_stream THEN @ \union {"close"} ELSE @]

(* file_transfer_operation_task_finished, for the tasks ts of o that emit, *)
(* tk being what they became; with the last one the operation returns.     *)
WholeFile(tk) == tk.file_size
Remaining(tk) == tk.file_size - tk.read_bytes
Unread(ts, tk) == MapThenSumSet(LAMBDA t : Remaining(tk[t]), ts)
TaskFinished(o, ts, tk) ==
  LET known == ts \intersect op[o].left
      with(e) == {t \in known : tk[t].error = e}
      left == op[o].left \ known
  IN [op[o] EXCEPT
        !.transfer_size = @ - Unread(with("cancelled") \union with("failed"), tk),
        !.cancelled = @ + Cardinality(with("cancelled")),
        !.failed = @ + Cardinality(with("failed")),
        !.succeed = @ + Cardinality(with("none")),
        !.left = left,
        !.state = IF known # {} /\ left = {} THEN "ended" ELSE @,
        !.returns = IF known # {} /\ left = {} THEN @ + 1 ELSE @]

(* Task t, in the state tk, completes with err. *)
TaskCompletes(t, tk, err) ==
  LET done == Complete(t, tk, err)
  IN /\ task' = [task EXCEPT ![t] = done]
     /\ IF Waits(tk)
          THEN UNCHANGED <<op, finished>>
          ELSE /\ op' = [op EXCEPT ![OpOf(t)] =
                           TaskFinished(OpOf(t), {t}, task')]
               /\ finished' = [finished EXCEPT ![t] = @ + 1]

(* spice_file_transfer_task_read_async *)
ReadPastEnd(tk) ==
  IF tk.pending THEN [tk EXCEPT !.calls = @ \union {"busy"}]
  ELSE [tk EXCEPT !.calls = @ \union {"read"}, !.pending = TRUE]
ReadAsync(tk) ==
  IF tk.pending THEN [tk EXCEPT !.calls = @ \union {"busy"}]
  ELSE IF tk.read_bytes = tk.file_size
         THEN [tk EXCEPT !.calls = @ \union {"eof"}]
         ELSE [tk EXCEPT !.calls = @ \union {"read"}, !.pending = TRUE]

(* The call c of t returned. *)
Back(t, c) == [task[t] EXCEPT !.calls = @ \ {c}]
StillPending(t, c) == Back(t, c)
Idle(t, c) == [Back(t, c) EXCEPT !.pending = FALSE]

(* What a call to the file system, or a GTask, returns. *)
Outcomes(t) == IF t \in cancelled THEN {"cancelled"}
               ELSE {"none"} \union (IF MayFail THEN {"failed"} ELSE {})

-----------------------------------------------------------------------------
(* spice_main_channel_file_copy_async: without an agent every task ends at *)
(* once; with a cancelled cancellable there is no task at all.             *)
Created(o, dead) == IF dead THEN {} ELSE TasksOf[o]

Copy(o) ==
  /\ op[o].state = "new"
  /\ \E share \in BOOLEAN, dead \in (IF Precancelled THEN BOOLEAN ELSE {FALSE}) :
       LET ts == Created(o, dead)
           tk == [t \in Tasks |->
                    IF t \notin ts THEN task[t]
                    ELSE IF ~agent_connected THEN Complete(t, task[t], "failed")
                    ELSE [task[t] EXCEPT !.pending = TRUE, !.calls = {"open"}]]
           begun == [op EXCEPT ![o].state = "running", ![o].left = ts]
       IN /\ dead => share
          /\ shared' = IF share THEN shared \union {o} ELSE shared
          /\ Odd(o, dead)
          /\ task' = tk
          /\ IF agent_connected \/ ts = {}
               THEN op' = begun /\ UNCHANGED finished
               ELSE /\ op' = [begun EXCEPT
                         ![o].state = "ended", ![o].left = {}, ![o].returns = 1,
                         ![o].failed = Cardinality(ts)]
                    /\ finished' = [t \in Tasks |-> IF t \in ts THEN 1
                                                    ELSE finished[t]]
  /\ UNCHANGED <<agent_connected, cancelled, started, can_send, queued>>

(* The user cancels a task, or an operation, whose files share a cancellable. *)
Cancelling(t) == IF OpOf(t) \in shared THEN TasksOf[OpOf(t)] ELSE {t}
Cancel(t) ==
  /\ op[OpOf(t)].state = "running" /\ t \notin cancelled
  /\ cancelled' = cancelled \union Cancelling(t)
  /\ UNCHANGED <<agent_connected, task, op, shared, started, can_send, queued,
                 finished, odd>>

(* spice_file_transfer_task_read_file_cb *)
Opened(t) ==
  /\ "open" \in task[t].calls
  /\ \E e \in Outcomes(t) :
       LET tk == [Idle(t, "open") EXCEPT !.file_stream = e = "none"]
       IN IF e # "none" \/ tk.error # "none"
            THEN TaskCompletes(t, tk, e)
            ELSE /\ task' = [task EXCEPT ![t] =
                       [tk EXCEPT !.pending = TRUE, !.calls = @ \union {"info"}]]
                 /\ UNCHANGED <<op, finished>>
  /\ UNCHANGED <<agent_connected, shared, cancelled, started, can_send, queued,
                 odd>>

(* spice_file_transfer_task_query_info_cb, whose notifications may find the*)
(* user cancelling, then file_xfer_init_task_async_cb.                     *)
InfoDone(t) ==
  /\ "info" \in task[t].calls
  /\ \E e \in Outcomes(t) :
       LET tk == Idle(t, "info") IN
       \/ /\ e # "none" \/ tk.error # "none"
          /\ TaskCompletes(t, tk, e)
          /\ UNCHANGED <<cancelled, started, odd>>
       \/ /\ e = "none" /\ tk.error = "none"
          /\ task' = [task EXCEPT ![t] = [tk EXCEPT !.file_size = Size[t]]]
          /\ op' = [op EXCEPT ![OpOf(t)].transfer_size = @ + Size[t]]
          /\ started' = started \union {t}
          /\ UNCHANGED <<cancelled, finished, odd>>
       \/ /\ RacyCancel /\ e = "none" /\ tk.error = "none"
          /\ cancelled' = cancelled \union Cancelling(t)
          /\ TaskCompletes(t, [tk EXCEPT !.file_size = Size[t]], "cancelled")
          /\ Odd(OpOf(t), TRUE) /\ UNCHANGED started
  /\ UNCHANGED <<agent_connected, shared, can_send, queued>>

(* spice_file_transfer_task_read_stream_cb, then file_xfer_read_async_cb:  *)
(* a block is queued for the agent, and flushed.                           *)
BlockRead(t, tk) ==
  /\ queued' = [queued EXCEPT ![t] = @ + 1]
  /\ IF tk.completed THEN task' = [task EXCEPT ![t] = tk] /\ UNCHANGED op
     ELSE /\ task' = [task EXCEPT ![t] = [tk EXCEPT !.calls = @ \union {"flush"}]]
          /\ op' = [op EXCEPT ![OpOf(t)].total_sent = @ + 1]
  /\ UNCHANGED finished

ReadDone(t) ==
  /\ "read" \in task[t].calls
  /\ \E e \in Outcomes(t) :
       LET tk == Idle(t, "read")
           ok == e = "none" /\ tk.error = "none"
           read == [tk EXCEPT !.read_bytes = @ + 1] IN
       \/ ~ok /\ TaskCompletes(t, tk, e) /\ UNCHANGED <<cancelled, queued, odd>>
       \/ ok /\ BlockRead(t, read) /\ UNCHANGED <<cancelled, odd>>
       \/ /\ ok /\ MayShrink  \* the end of the file, before its size
          /\ task' = [task EXCEPT ![t] = tk]
          /\ Odd(OpOf(t), TRUE) /\ UNCHANGED <<op, cancelled, queued, finished>>
       \/ /\ ok /\ RacyCancel
          /\ cancelled' = cancelled \union Cancelling(t)
          /\ TaskCompletes(t, read, "cancelled")
          /\ Odd(OpOf(t), TRUE) /\ UNCHANGED queued
  /\ UNCHANGED <<agent_connected, shared, started, can_send>>

(* file_xfer_read_async_cb, on what read_async answered without a read: the*)
(* whole file was read, where an empty one is sent as an empty block ...   *)
EofDone(t) ==
  /\ "eof" \in task[t].calls
  /\ IF t \in cancelled
       THEN TaskCompletes(t, Back(t, "eof"), "cancelled") /\ UNCHANGED queued
       ELSE /\ task' = [task EXCEPT ![t] = Back(t, "eof")]
            /\ queued' = [queued EXCEPT ![t] =
                            IF task[t].file_size = 0 THEN @ + 1 ELSE @]
            /\ UNCHANGED <<op, finished>>
  /\ UNCHANGED <<agent_connected, shared, cancelled, started, can_send, odd>>

(* ... or the task was pending. *)
BusyDone(t) ==
  /\ "busy" \in task[t].calls
  /\ TaskCompletes(t, Back(t, "busy"),
                   IF t \in cancelled THEN "cancelled" ELSE "failed")
  /\ UNCHANGED <<agent_connected, shared, cancelled, started, can_send, queued,
                 odd>>

(* file_xfer_data_flushed_cb: the next read, with the progress before it.  *)
BytesLeft(t) == ~task[t].completed /\ task[t].read_bytes < task[t].file_size
MoreToRead(t) == ~task[t].completed
Flushed(t) ==
  /\ "flush" \in task[t].calls
  /\ IF t \in cancelled
       THEN TaskCompletes(t, Back(t, "flush"), "cancelled")
       ELSE /\ task' = [task EXCEPT ![t] = IF MoreToRead(t)
                                             THEN ReadAsync(Back(t, "flush"))
                                             ELSE Back(t, "flush")]
            /\ op' = [op EXCEPT ![OpOf(t)].progress =
                        IF MoreToRead(t)
                          THEN <<op[OpOf(t)].total_sent, op[OpOf(t)].transfer_size>>
                          ELSE @]
            /\ UNCHANGED finished
  /\ UNCHANGED <<agent_connected, shared, cancelled, started, can_send, queued,
                 odd>>

(* spice_file_transfer_task_close_stream_cb *)
Closed(t) == /\ "close" \in task[t].calls
             /\ task' = [task EXCEPT ![t] = Back(t, "close")]
             /\ UNCHANGED <<agent_connected, op, shared, cancelled, started,
                            can_send, queued, finished, odd>>

-----------------------------------------------------------------------------
(* main_agent_handle_xfer_status, for a task its operation still has.  An  *)
(* agent out of turn repeats CAN_SEND; bound: not once all data is queued, *)
(* and not while an answer of read_async or a flush is outstanding.        *)
Known(t) == agent_connected /\ t \in started /\ t \in op[OpOf(t)].left

CanSend(t) ==
  /\ Known(t) /\ ~task[t].completed
  /\ \/ t \notin can_send
     \/ /\ AnyAgent /\ queued[t] <= Size[t]
        /\ task[t].calls \intersect {"eof", "busy", "flush"} = {}
  /\ can_send' = can_send \union {t}
  /\ task' = [task EXCEPT ![t] = ReadAsync(task[t])]
  /\ Odd(OpOf(t), t \in can_send)
  /\ UNCHANGED <<agent_connected, op, shared, cancelled, started, queued, finished>>

(* The agent has the whole file: its last block left the queue. *)
AllSent(t) == /\ queued[t] = IF Size[t] = 0 THEN 1 ELSE Size[t]
              /\ "flush" \notin task[t].calls
AgentSuccess(t) ==
  /\ Known(t) /\ (AnyAgent \/ AllSent(t))
  /\ TaskCompletes(t, task[t], "none")
  /\ Odd(OpOf(t), ~AllSent(t))
  /\ UNCHANGED <<agent_connected, shared, cancelled, started, can_send, queued>>

AgentError(t) ==
  /\ MayFail /\ Known(t)
  /\ TaskCompletes(t, task[t], "failed")
  /\ UNCHANGED <<agent_connected, shared, cancelled, started, can_send, queued,
                 odd>>

(* spice_main_channel_reset_agent: the tasks of every operation complete   *)
(* with an error, then the flush requests.                                 *)
ResetAgent ==
  /\ MayFail /\ agent_connected
  /\ agent_connected' = FALSE
  /\ LET ts == UNION {op[o].left : o \in Ops}
         emit == {t \in ts : ~Waits(task[t])}
         tk == [t \in Tasks |-> IF t \in ts THEN Complete(t, task[t], "failed")
                                ELSE task[t]]
     IN /\ task' = [t \in Tasks |-> [tk[t] EXCEPT !.calls = @ \ {"flush"}]]
        /\ op' = [o \in Ops |-> TaskFinished(o, emit \intersect TasksOf[o], tk)]
        /\ finished' = [t \in Tasks |-> IF t \in emit THEN finished[t] + 1
                                        ELSE finished[t]]
  /\ UNCHANGED <<shared, cancelled, started, can_send, queued, odd>>

(* The agent is back, for new operations. *)
AgentBack == /\ ~agent_connected /\ agent_connected' = TRUE
             /\ UNCHANGED <<task, op, shared, cancelled, started, can_send,
                            queued, finished, odd>>

-----------------------------------------------------------------------------
Callback(t) == \/ Opened(t) \/ InfoDone(t) \/ ReadDone(t) \/ EofDone(t)
               \/ BusyDone(t) \/ Flushed(t) \/ Closed(t)
Answer(t) == CanSend(t) \/ AgentSuccess(t)

Next == \/ \E o \in Ops : Copy(o)
        \/ \E t \in Tasks : Callback(t) \/ Answer(t) \/ AgentError(t) \/ Cancel(t)
        \/ ResetAgent \/ AgentBack

(* The main loop calls back, the channel sends or drops what was queued,   *)
(* and an agent answers a file that was announced, and one it has whole.   *)
Fairness == \A t \in Tasks : WF_vars(Callback(t)) /\ WF_vars(Answer(t))

Spec == Init /\ [][Next]_vars /\ Fairness

-----------------------------------------------------------------------------
(* A task emits "finished" once, so it drops its reference once, and an    *)
(* operation returns once (spice_file_transfer_task_completed, which five  *)
(* callbacks and the agent's messages reach, in any order).                *)
FinishedOnce == /\ \A t \in Tasks : finished[t] <= 1
                /\ \A o \in Ops : op[o].returns <= 1

(* A callback that uses its operation finds it: a task with such a call    *)
(* outstanding and no error is in the table of an operation that was not   *)
(* freed (xfer_op, the user data of file_xfer_init_task_async_cb and       *)
(* file_xfer_read_async_cb).                                               *)
OperationAlive ==
  \A t \in Tasks :
    /\ task[t].calls \intersect {"open", "info", "read"} # {}
    /\ task[t].error = "none"
    => op[OpOf(t)].state = "running" /\ t \in op[OpOf(t)].left

(* Nothing of a transfer goes to the agent before its START message or     *)
(* after it ended, but the answer to a read that found the whole file      *)
(* (file_xfer_read_async_cb).                                              *)
NoLateData ==
  [][\A t \in Tasks : queued'[t] > queued[t] /\ task[t].file_size > 0
       => t \in started /\ finished[t] = 0]_vars

(* Unless an operation is odd, what the user is told adds up: the bytes    *)
(* sent never pass the bytes to send and are all of them when the operation*)
(* returns (file_transfer_operation_task_finished), and when every file    *)
(* arrived, one of them with data, the last progress reported is that of   *)
(* all the data (file_xfer_data_flushed_cb).                               *)
AllReported(o) == op[o].progress = <<op[o].transfer_size, op[o].transfer_size>>
ProgressCoherent ==
  \A o \in Ops \ odd :
    /\ op[o].total_sent <= op[o].transfer_size
    /\ op[o].state = "ended" => op[o].total_sent = op[o].transfer_size
    /\ /\ op[o].state = "ended" /\ op[o].succeed = Cardinality(TasksOf[o])
       /\ \E t \in TasksOf[o] : Size[t] > 0
       => AllReported(o)

(* An operation that is not odd ends, and its callback is called, whatever *)
(* fails or is cancelled (spice_main_channel_file_copy_async) ...          *)
OperationEnds ==
  \A o \in Ops : op[o].state = "running" ~> (op[o].state = "ended" \/ o \in odd)

(* ... as the documentation of that function says of every operation: "When*)
(* the operation is finished, callback will be called".                    *)
CallbackCalled == \A o \in Ops : op[o].state = "running" ~> op[o].state = "ended"
=============================================================================
