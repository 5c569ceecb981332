---------------------------- MODULE MCChatClient ----------------------------
(* A small instance of ChatClient: two channels, and one message the tab and *)
(* others race over.                                                         *)
EXTENDS ChatClient, TLC

CONSTANTS a, b

MCChannels == {a, b}
ChannelSymmetry == Permutations(MCChannels)
=============================================================================
