----------------------------- MODULE MCHistory -----------------------------
(* An instance of History for TLC.                                         *)
EXTENDS History

Disappearing == Relays \X {1}
=============================================================================
