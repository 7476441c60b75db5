-------------------------- MODULE OrderedDelivery --------------------------
(***************************************************************************)
(* What the transmit side of a channel promises its users: the messages a  *)
(* connection accepted are dealt with in the order they were accepted, none*)
(* twice and none skipped: each is delivered, but for those that may not be*)
(* sent; a connection that ends delivers nothing more.                     *)
(***************************************************************************)
EXTENDS Naturals, Sequences

CONSTANTS Message, Unsendable
VARIABLES accepted, delivered,
          taken,   \* how many of the accepted messages were dealt with
          ended    \* the connection is ending, or has ended

Init == accepted = <<>> /\ delivered = <<>> /\ taken = 0 /\ ended = FALSE

Accept == /\ \E m \in Message : accepted' = Append(accepted, m)
          /\ UNCHANGED <<delivered, taken, ended>>

Take == /\ ~ended /\ taken < Len(accepted)
        /\ taken' = taken + 1
        /\ LET m == accepted[taken + 1] IN
           delivered' = IF m \in Unsendable THEN delivered ELSE Append(delivered, m)
        /\ UNCHANGED <<accepted, ended>>

\* The rest of the messages is lost, at once or one by one.
End == /\ ended' = TRUE
       /\ taken' \in taken .. Len(accepted)
       /\ UNCHANGED <<accepted, delivered>>

NewConnection == /\ ended
                 /\ accepted' = <<>> /\ delivered' = <<>> /\ taken' = 0 /\ ended' = FALSE

Next == Accept \/ Take \/ End \/ NewConnection

Spec == Init /\ [][Next]_<<accepted, delivered, taken, ended>>
=============================================================================
