---------------------------- MODULE MCChannelKeys ----------------------------
(* The instance of ChannelKeys for TLC. *)
EXTENDS ChannelKeys

MCFirstKeys == <<"ka", "kb">>
MCOtherKeys == <<"kc">>
=============================================================================
