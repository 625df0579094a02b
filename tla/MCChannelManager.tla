-------------------------- MODULE MCChannelManager --------------------------
(* ChannelManager for TLC: the servents and the services are alike.        *)
EXTENDS ChannelManager, TLC

CommandSymmetry == Permutations(Admins) \cup Permutations(Services)
=============================================================================
