------------------------- MODULE MCPositioningServer -------------------------
(* Instances of PositioningServer for TLC. *)
EXTENDS PositioningServer, TLC

CONSTANTS l1, l2, p1, ip5, ip56, mac5, mac56, ap1

Addresses == {ip5, ip56}
Stations == {mac5, mac56}
From == [r \in {l1, l2, p1} |-> IF r = l1 THEN ip5 ELSE ip56]
Itself == {<<a, a>> : a \in Addresses}
Table == {<<[ip |-> ip5, mac |-> mac5], [ip |-> ip56, mac |-> mac56]>>}

(* A short answer: refused, or the end of a thread without DAOs.           *)
Answers == {[params |-> "few", ap |-> ap1, number |-> TRUE]}
=============================================================================
