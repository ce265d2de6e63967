---------------------------- MODULE MCFccClient ----------------------------
\* A small instance of FccClient: the sequence numbers wrap inside the burst,
\* the multicast buffer fills up, and one packet is too long for it.
EXTENDS FccClient
=============================================================================
