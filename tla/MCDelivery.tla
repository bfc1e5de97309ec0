----------------------------- MODULE MCDelivery -----------------------------
(* A small instance of Delivery for TLC.  What a page ends at matters, not   *)
(* how long it is: with pages of one envelope every envelope but the last is *)
(* followed by a request, and a full page may also be the last one.          *)
EXTENDS Delivery
=============================================================================
