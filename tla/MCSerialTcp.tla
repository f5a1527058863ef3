---------------------------- MODULE MCSerialTcp ----------------------------
EXTENDS SerialTcp
=============================================================================
