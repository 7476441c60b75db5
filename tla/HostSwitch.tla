----------------------------- MODULE HostSwitch -----------------------------
(***************************************************************************)
(* What a live migration promises: the channels of a session all talk to   *)
(* one host, before it, after it and when it was aborted.  Only while the  *)
(* session moves may they disagree, and it moves at most to the target.    *)
(***************************************************************************)
VARIABLE at   \* the host the session talks to, "moving" or "closed"

Init == at = "src"

Begin  == at = "src" /\ at' = "moving"
Abort  == at = "moving" /\ at' = "src"
Finish == at = "moving" /\ at' = "dst"
Close  == at # "closed" /\ at' = "closed"

Next == Begin \/ Abort \/ Finish \/ Close

Spec == Init /\ [][Next]_at
=============================================================================
