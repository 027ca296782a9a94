--------------------------- MODULE MCSerialPageRank ----------------------------
EXTENDS SerialPageRank, MCGraphs
================================================================================
