----------------------------- MODULE RssiThread -----------------------------
(***************************************************************************)
(* rssi_thread, the capture loop of the access point                       *)
(* (router/src/rssi/rssi.c): it opens the monitor interface, reads frames  *)
(* one at a time, files the strength of the frames it accepts under their  *)
(* source address, and unlinks outdated samples after each accepted frame. *)
(* Samples are stamped when they are filed and expiry reads the clock      *)
(* again, so the two are separate steps between which time may pass.       *)
(***************************************************************************)
EXTENDS RssiList, FiniteSets

CONSTANTS
    Frames,    (* the frames the interface may deliver                     *)
    MaxClock,  (* bound: last second of the model                          *)
    MaxRate    (* bound: accepted frames captured in one second            *)

(* The part of a captured packet the loop looks at: the Prism message code *)
(* and the 802.11 frame control field and source address.                  *)
u_short == 0 .. 65535
Packet == [msgcode : Nat, frame_control : u_short, source_addr : MACs]

ASSUME FramesAssumption == Frames \subseteq Packet
ASSUME BoundsAssumption == MaxClock \in Nat /\ MaxRate \in Nat

NoPacket == [msgcode |-> 0, frame_control |-> 0]

VARIABLES
    pc,      (* where the loop is                                          *)
    packet,  (* the frame pcap_next returned last                          *)
    l,       (* the device list                                            *)
    clock,   (* tv_sec of gettimeofday                                     *)
    rate     (* accepted frames captured this second, for the bound only   *)

vars == <<pc, packet, l, clock, rate>>

(* (frame_control & 0xc0) == 0x80 on a Prism monitor frame. *)
Accepted(p) == p.msgcode = 65 /\ (p.frame_control \div 64) % 4 = 2

-----------------------------------------------------------------------------
Init ==
    /\ pc = "open"
    /\ packet = NoPacket
    /\ l = <<>>
    /\ clock = 0
    /\ rate = 0

(* pcap_open_live succeeds and the list is allocated, empty. *)
Open ==
    /\ pc = "open"
    /\ pc' = "capture"
    /\ l' = <<>>
    /\ UNCHANGED <<packet, clock, rate>>

(* prism0 cannot be opened: exit() ends the whole process. *)
OpenFails ==
    /\ pc = "open"
    /\ pc' = "exited"
    /\ UNCHANGED <<packet, l, clock, rate>>

(* pcap_next delivers a frame. *)
Capture ==
    /\ pc = "capture"
    /\ packet' \in Frames
    /\ rate' = IF Accepted(packet') THEN rate + 1 ELSE rate
    /\ rate' <= MaxRate
    /\ pc' = "classify"
    /\ UNCHANGED <<l, clock>>

(* pcap_next returns NULL (the interface went down): the message code is   *)
(* read through the null pointer.                                          *)
CaptureFails ==
    /\ pc = "capture"
    /\ pc' = "crashed"
    /\ UNCHANGED <<packet, l, clock, rate>>

(* malloc returns NULL, for the list, an entry or a sample, and is not     *)
(* checked: the process ends at the first write.                           *)
MallocFails ==
    /\ pc = "open" \/ (pc = "classify" /\ Accepted(packet))
    /\ pc' = "crashed"
    /\ UNCHANGED <<packet, l, clock, rate>>

(* A frame that is not a Prism frame or has other frame control bits. *)
Skip ==
    /\ pc = "classify"
    /\ ~Accepted(packet)
    /\ pc' = "capture"
    /\ UNCHANGED <<packet, l, clock, rate>>

(* A known station: its sample goes to its own entry. *)
StoreKnown ==
    /\ pc = "classify"
    /\ Accepted(packet)
    /\ LET dev == is_known(l, packet.source_addr)
       IN  /\ dev # NULL
           /\ l' = add_rssi_sample(l, dev, [from |-> packet.source_addr, date |-> clock])
    /\ pc' = "expire"
    /\ UNCHANGED <<packet, clock, rate>>

(* An unknown station: an entry is appended, and the sample goes to the    *)
(* entry add_device returned.                                              *)
StoreNew ==
    /\ pc = "classify"
    /\ Accepted(packet)
    /\ is_known(l, packet.source_addr) = NULL
    /\ l' = add_rssi_sample(add_device(l, packet.source_addr), added_device(l),
                            [from |-> packet.source_addr, date |-> clock])
    /\ pc' = "expire"
    /\ UNCHANGED <<packet, clock, rate>>

(* delete_outdate with the time read at its start. *)
Expire ==
    /\ pc = "expire"
    /\ l' = delete_outdate(l, clock)
    /\ pc' = "capture"
    /\ UNCHANGED <<packet, clock, rate>>

Tick ==
    /\ clock < MaxClock
    /\ clock' = clock + 1
    /\ rate' = 0
    /\ UNCHANGED <<pc, packet, l>>

Loop == Capture \/ Skip \/ StoreKnown \/ StoreNew \/ Expire

Next == Open \/ OpenFails \/ Loop \/ CaptureFails \/ MallocFails \/ Tick

Spec == Init /\ [][Next]_vars

(* The thread is scheduled whenever it can run, and accepted frames never  *)
(* cease: the mask lets the beacons of every access point in range pass.   *)
FairSpec == Spec /\ WF_vars(Loop) /\ SF_vars(Capture /\ Accepted(packet'))

-----------------------------------------------------------------------------
Locations == {"open", "capture", "classify", "expire", "exited", "crashed"}

(* Every variable stays in its range (rssi_thread and RSSI_list.c). *)
TypeOK ==
    /\ pc \in Locations
    /\ packet \in Frames \cup {NoPacket}
    /\ pc = "classify" => packet \in Frames
    /\ l \in Seq(DeviceEntry)
    /\ clock \in 0 .. MaxClock
    /\ rate \in 0 .. MaxRate

(* A station has one entry, however its frames interleave with those of    *)
(* others: add_device is only called for an address is_known does not find.*)
DevicesDistinct == OneEntryEach(l)

(* add_device hands the old tail to add_rssi_sample, but the damage is     *)
(* bounded: a sample is filed under another station only under the one     *)
(* whose entry precedes its own, and an entry never holds two strays.      *)
StraysBounded == OneStrayOfNext(l)

(* Samples are listed in the order of their dates, none dated in the       *)
(* future: what delete_outdated relies on to stop at the first fresh one.  *)
SamplesInDateOrder == InDateOrder(l, clock)

(* Although it stops at the first recent sample, delete_outdate leaves in  *)
(* every entry exactly the samples that are not outdated.                  *)
ExpiryIsExact ==
    [][pc = "expire" /\ pc' = "capture" =>
         \A i \in DOMAIN l :
             {l'[i].rssi[k] : k \in DOMAIN l'[i].rssi} = Fresh(l[i].rssi, clock)]_vars

(* Entries are neither removed nor reordered nor renamed, whatever is      *)
(* captured or expires: indices (pointers) held across steps stay valid.   *)
DevicesPersist ==
    [][/\ DOMAIN l \subseteq DOMAIN l'
       /\ \A i \in DOMAIN l : l'[i].mac = l[i].mac]_vars

SomeOutdated ==
    \E i \in DOMAIN l : \E k \in DOMAIN l[i].rssi : Outdated(l[i].rssi[k], clock)

(* As long as accepted frames keep coming, an outdated sample of any       *)
(* station, silent ones included, is removed in the end.                   *)
OutdatedRemoved == SomeOutdated ~> (~SomeOutdated \/ pc = "crashed")

-----------------------------------------------------------------------------
(* What the documents and comments of the repository say of this code, and *)
(* the code does not do.                                                   *)

(* The report, part3.tex:40: each MAC address is "linked to a list of the  *)
(* corresponding RSSI values" (RSSI_list.c, add_device).                   *)
EntriesHoldOwnSamples ==
    \A i \in DOMAIN l : \A k \in DOMAIN l[i].rssi : ~Stray(l, i, k)
=============================================================================
