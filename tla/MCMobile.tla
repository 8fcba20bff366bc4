------------------------------- MODULE MCMobile -------------------------------
(* Instances of Mobile for TLC. *)
EXTENDS Mobile, TLC

CONSTANTS c1, c2, c3

(* Two that can be on the screen, and a new one. *)
Views == {c1, c2, c3}
===============================================================================
