--------------------------- MODULE MCProcessServer1 ---------------------------
\* Instances of ProcessServer1 for TLC.
EXTENDS ProcessServer1
===============================================================================
