----------------------------- MODULE MCServlets -----------------------------
(* Instances of Servlets for TLC. *)
EXTENDS Servlets, TLC

CONSTANTS l1, l2, l3, p1, p2, ip5, ip56, ip7, mac5, mac56, mac7

Addresses == {ip5, ip56, ip7}
Stations == {mac5, mac56, mac7}

(* 192.168.1.56 contains 192.168.1.5; 192.168.1.7 is apart.                *)
Prefix == {<<a, a>> : a \in Addresses} \cup {<<ip56, ip5>>}

Line5  == [ip |-> ip5, mac |-> mac5]
Line56 == [ip |-> ip56, mac |-> mac56]
Line7  == [ip |-> ip7, mac |-> mac7]

(* 192.168.1.56 comes before 192.168.1.5; it is away and another came; or  *)
(* both are.                                                               *)
AnyTable == {<<Line56, Line5>>, <<Line5, Line7>>, <<Line7>>}
FullTable == {<<Line5, Line7>>}

(* l1 and l3 come from one station, l2 from the other. *)
From == [r \in Requests |-> IF r \in {l1, l3} THEN ip5 ELSE ip7]
=============================================================================
