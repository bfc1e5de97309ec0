---------------------------- MODULE MCComposer ----------------------------
(* Instances of Composer for TLC.                                          *)
EXTENDS Composer, TLC

Symmetry == Permutations(Texts) \cup Permutations(Files)

\* A bound: after a send ended elsewhere, or a conversation was closed under the
\* user, no file is sent any more.
FilesBeforeLate == late => \A f \in Files : file[f] = "none"
=============================================================================
