--------------------------- MODULE MCProcessServer2 ---------------------------
\* Instances of ProcessServer2 for TLC.
EXTENDS ProcessServer2
===============================================================================
