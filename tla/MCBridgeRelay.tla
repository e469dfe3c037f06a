---------------------------- MODULE MCBridgeRelay ----------------------------
EXTENDS BridgeRelay
=============================================================================
