--------------------------- MODULE MCServerThreads ---------------------------
\* The server with two connections.
EXTENDS ServerThreads
CONSTANTS c1, c2, worker, tracker, none
=============================================================================
