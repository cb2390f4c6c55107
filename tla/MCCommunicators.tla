--------------------------- MODULE MCCommunicators ---------------------------
\* Paths of two threads at the front.
EXTENDS Communicators
CONSTANTS f1, f2, be
=============================================================================
