--------------------------- MODULE MCGatewayCall ---------------------------
EXTENDS GatewayCall
=============================================================================
