----------------------------- MODULE MCCppPageRank -----------------------------
EXTENDS CppPageRank, MCGraphs
================================================================================
