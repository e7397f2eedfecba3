----------------------------- MODULE MCPolling -----------------------------
(* Polling with two changes of the state and two actions of an entity.       *)
EXTENDS Polling, TLC
=============================================================================
