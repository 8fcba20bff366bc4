---------------------------- MODULE MCUdpThread ----------------------------
(* Instances of UdpThread for TLC. *)
EXTENDS UdpThread, TLC

CONSTANTS locate, measure, ap1, ap2

Servlets == {locate, measure}
OneAP == {ap1}
TwoAPs == {ap1, ap2}

(* Answers of each length; some without a number for an average. *)
Answers ==
    {[params |-> "few", ap |-> ap1, number |-> TRUE]}
        \cup [params : {"four"}, ap : APs, number : {TRUE}]
        \cup [params : {"more"}, ap : {ap1}, number : BOOLEAN]

=============================================================================
