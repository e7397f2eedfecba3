--------------------------- MODULE MCEntryLifecycle ---------------------------
(* EntryLifecycle with two clients, from the pairing to the removal.       *)
EXTENDS EntryLifecycle, TLC
=============================================================================
