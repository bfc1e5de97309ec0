---------------------------- MODULE MCFileRelay -----------------------------
(* Small instances of FileRelay for TLC, which evaluates its assumption.    *)
EXTENDS FileRelay
=============================================================================
