--------------------------- MODULE MCRouterThreads ---------------------------
(* Instances of RouterThreads for TLC. *)
EXTENDS RouterThreads, TLC

CONSTANTS zero, m1

Beacon(m) == [msgcode |-> 65, frame_control |-> 128, source_addr |-> m]
PlainToDS(m) == [msgcode |-> 65, frame_control |-> 264, source_addr |-> m]

(* An address of zeros is nothing the capture loop refuses. *)
Stations == {zero, m1}
HeardFrames == {Beacon(m) : m \in Stations} \cup {PlainToDS(m1)}
(* The text of a datagram may happen to be the address of a station. *)
Others == {m1}
==============================================================================
