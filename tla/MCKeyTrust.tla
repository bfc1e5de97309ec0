---------------------------- MODULE MCKeyTrust ----------------------------
(* Instances of KeyTrust for TLC.                                          *)
EXTENDS KeyTrust
=============================================================================
