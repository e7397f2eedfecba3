---------------------------- MODULE MCNukiClient ----------------------------
(* NukiClient with a few callers and links.                                *)
EXTENDS NukiClient
=============================================================================
