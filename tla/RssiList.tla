------------------------------ MODULE RssiList ------------------------------
(***************************************************************************)
(* The access point's table of heard devices (router/src/rssi/RSSI_list.c) *)
(* as operators on a value.  A DeviceList chain is a sequence of devices,  *)
(* each with the sequence of its RssiList samples, oldest first; a         *)
(* DeviceList pointer is an index into the chain and NULL is index 0.      *)
(* The signal strength of a sample is represented by the station that      *)
(* emitted the frame it was measured on: the only question the properties  *)
(* ask of a strength is whose it is.                                       *)
(* Operators that begin with Bad are variants of the code with a mistake   *)
(* in it, to see that the properties notice it.                            *)
(***************************************************************************)
EXTENDS Integers, Sequences

CONSTANT MACs  (* the station addresses that can be heard *)

RssiSample == [from : MACs, date : Nat]
DeviceEntry == [mac : MACs, rssi : Seq(RssiSample)]

NULL == 0

Matches(l, mac) == {i \in DOMAIN l : l[i].mac = mac}

(* Stops before the last entry. *)
Bad_is_known(l, mac) ==
    LET found == Matches(l, mac) \ {Len(l)}
    IN  IF found = {} THEN NULL ELSE CHOOSE i \in found : \A j \in found : i <= j

(* The first entry that carries the address, or NULL. *)
is_known(l, mac) ==
    IF Matches(l, mac) = {}
    THEN NULL
    ELSE CHOOSE i \in Matches(l, mac) : \A j \in Matches(l, mac) : i <= j

(* The address is not copied to the new node. *)
Bad_add_device(l, mac) == Append(l, [mac |-> NULL, rssi |-> <<>>])

(* The chain after add_device: a new entry without samples at the tail. *)
add_device(l, mac) == Append(l, [mac |-> mac, rssi |-> <<>>])

(* Returns the head of the chain. *)
Bad_added_device(l) == 1

(* The pointer add_device returns.  tmp_l stops at the entry that was last *)
(* before the call, so only on an empty chain is it the new entry.         *)
added_device(l) == IF l = <<>> THEN 1 ELSE Len(l)

(* A sample is linked at the head. *)
Bad_add_rssi_sample(l, dev, sample) ==
    [l EXCEPT ![dev].rssi = <<sample>> \o @]

(* A sample is linked at the tail of the list of the entry passed in. *)
add_rssi_sample(l, dev, sample) ==
    [l EXCEPT ![dev].rssi = Append(@, sample)]

Outdated(sample, now) == now - sample.date > 1

(* The index of the first sample the deletion loop stops at. *)
FirstKept(rssi, now) ==
    CHOOSE k \in 1 .. Len(rssi) + 1 :
        /\ \A j \in 1 .. k - 1 : Outdated(rssi[j], now)
        /\ k <= Len(rssi) => ~Outdated(rssi[k], now)

(* One sample at most is unlinked. *)
Bad_delete_outdated(rssi, now) ==
    IF FirstKept(rssi, now) = 1 THEN rssi ELSE Tail(rssi)

(* Samples are unlinked from the head until one is recent enough. *)
delete_outdated(rssi, now) == SubSeq(rssi, FirstKept(rssi, now), Len(rssi))

(* Entries left without samples are removed. *)
Bad_delete_outdate(l, now) ==
    LET left == [i \in DOMAIN l |-> [l[i] EXCEPT !.rssi = delete_outdated(@, now)]]
    IN  SelectSeq(left, LAMBDA d : d.rssi # <<>>)

(* Only the first entry is visited. *)
Bad_delete_outdate_first(l, now) ==
    [i \in DOMAIN l |->
        IF i = 1 THEN [l[i] EXCEPT !.rssi = delete_outdated(@, now)] ELSE l[i]]

delete_outdate(l, now) ==
    [i \in DOMAIN l |-> [l[i] EXCEPT !.rssi = delete_outdated(@, now)]]

(* What the average of an address is taken over: nothing for an unknown    *)
(* address (-95 is returned), otherwise the samples of its entry, whose    *)
(* sum is divided by their number even when there is none (a NaN).         *)
average(l, mac) ==
    LET dev == is_known(l, mac)
    IN  IF dev = NULL
        THEN [value |-> "default", over |-> <<>>]
        ELSE [value |-> IF l[dev].rssi = <<>> THEN "nan" ELSE "mean",
              over  |-> l[dev].rssi]
-----------------------------------------------------------------------------
(* What a list can be said to be.                                          *)

OneEntryEach(l) == \A i, j \in DOMAIN l : l[i].mac = l[j].mac => i = j

(* A sample of another station than its entry's. *)
Stray(l, i, k) == l[i].rssi[k].from # l[i].mac

(* An entry holds at most one stray, of the station of the next entry. *)
OneStrayOfNext(l) ==
    \A i \in DOMAIN l : \A k \in DOMAIN l[i].rssi :
        Stray(l, i, k) =>
            /\ i + 1 \in DOMAIN l
            /\ l[i].rssi[k].from = l[i + 1].mac
            /\ \A n \in DOMAIN l[i].rssi : Stray(l, i, n) => n = k

(* Samples are listed by date, and none is dated after now. *)
InDateOrder(l, now) ==
    \A i \in DOMAIN l : \A k \in DOMAIN l[i].rssi :
        /\ l[i].rssi[k].date <= now
        /\ \A j \in 1 .. k : l[i].rssi[j].date <= l[i].rssi[k].date

(* The samples that are not outdated, wherever they are in the list. *)
Fresh(rssi, now) ==
    {rssi[k] : k \in {n \in DOMAIN rssi : ~Outdated(rssi[n], now)}}
=============================================================================
