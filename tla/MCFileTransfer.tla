--------------------------- MODULE MCFileTransfer ---------------------------
(* FileTransfer with one operation of two files, one of them empty. *)
EXTENDS FileTransfer
CONSTANTS copy, a, b
MCOps == {copy}
MCTasks == {a, b}
MCTasksOf == [o \in MCOps |-> MCTasks]
MCSize == [t \in MCTasks |-> IF t = a THEN 2 ELSE 0]
=============================================================================
