----------------------------- MODULE MCChannelSync ----------------------------
(* Instances of ChannelSync for TLC. *)
EXTENDS ChannelSync

CONSTANTS t1, t2
=============================================================================
