---------------------------- MODULE MCLockAction ----------------------------
(* LockAction on a small instance.                                         *)
EXTENDS LockAction
=============================================================================
