---------------------------- MODULE MCRetClient ----------------------------
\* Small instances of RetClient: the sequence numbers wrap after two packets.
EXTENDS RetClient
=============================================================================
