---------------------------- MODULE MCLogReading ----------------------------
(* LogReading with two reads on a link that loses one indication.          *)
EXTENDS LogReading, TLC
=============================================================================
