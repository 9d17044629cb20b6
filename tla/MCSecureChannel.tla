---------------------------- MODULE MCSecureChannel ----------------------------
EXTENDS SecureChannel

CONSTANTS payload1, payload2

MCHomes == {payload1, payload2}

\* The payloads differ in nothing but the name: one of them is there first.
MCChannelInit == ChannelInit /\ home = payload1

MCChannelSpec == MCChannelInit /\ [][ChannelNext]_channelVars /\ ChannelFairness
=============================================================================
