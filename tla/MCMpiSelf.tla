------------------------------- MODULE MCMpiSelf -------------------------------
EXTENDS MpiSelf, MCGraphs
================================================================================
