--------------------------- MODULE MCChannelXmit ---------------------------
(* Instances of ChannelXmit for TLC. *)
EXTENDS ChannelXmit

MCReadOnly == {<<Main, 2>>}
=============================================================================
