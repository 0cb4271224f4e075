--------------------------- MODULE MCMediaAssets ---------------------------
EXTENDS MediaAssets
CONSTANTS u1, u2, short, long, broken, v1, v2
=============================================================================
