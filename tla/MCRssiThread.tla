---------------------------- MODULE MCRssiThread ----------------------------
(* Instances of RssiThread for TLC. *)
EXTENDS RssiThread, TLC

CONSTANTS m1, m2, m3

Frame(control, m) == [msgcode |-> 65, frame_control |-> control, source_addr |-> m]

Beacon(m)   == Frame(128, m)  (* 0x0080: subtype 8, no DS bit  *)
PlainToDS(m) == Frame(264, m)  (* 0x0108: plain data, ToDS set  *)
NotPrism(m) == [Beacon(m) EXCEPT !.msgcode = 68]

(* One accepted frame per station, one frame of each kind of refusal. *)
HeardFrames == {Beacon(m) : m \in MACs} \cup {PlainToDS(m1), NotPrism(m1)}

Stations == {m1, m2, m3}
TwoStations == {m1, m2}
=============================================================================
