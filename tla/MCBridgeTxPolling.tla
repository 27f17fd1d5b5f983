------------------------- MODULE MCBridgeTxPolling -------------------------
EXTENDS BridgeTxPolling
=============================================================================
