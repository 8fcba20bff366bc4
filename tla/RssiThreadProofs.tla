-------------------------- MODULE RssiThreadProofs --------------------------
(***************************************************************************)
(* Safety of the capture loop (RssiThread), for any set of stations, any   *)
(* traffic and any bounds.  What the list operations keep is proved in     *)
(* RssiListProofs; here it is carried along the steps of the thread.       *)
(***************************************************************************)
EXTENDS RssiThread, RssiListProofs

(* The inductive invariant.  None of the three list properties is         *)
(* inductive by itself: a new entry keeps OneStrayOfNext only because its  *)
(* station had none, and expiry reads dates that are typed.                *)
IInv ==
    /\ TypeOK
    /\ DevicesDistinct
    /\ StraysBounded
    /\ SamplesInDateOrder

(* The list part of the invariant is consistency of the list, now.         *)
LEMMA IInvIsConsistent ==
    ASSUME TypeOK
    PROVE  IInv <=> Consistent(l, clock)
  BY DEF IInv, TypeOK, Consistent, DevicesDistinct, StraysBounded, SamplesInDateOrder

(* Every frame names a station.                                            *)
LEMMA PacketTypes ==
    ASSUME NEW p \in Packet
    PROVE  p.source_addr \in MACs
  BY DEF Packet

(* A captured frame names a station, and its sample is well formed.        *)
LEMMA FrameTypes ==
    ASSUME TypeOK, pc = "classify"
    PROVE  /\ packet.source_addr \in MACs
           /\ [from |-> packet.source_addr, date |-> clock] \in RssiSample
<1>1. packet \in Packet /\ clock \in Nat
  BY FramesAssumption, BoundsAssumption DEF TypeOK
<1>2. packet.source_addr \in MACs
  BY <1>1, PacketTypes
<1>3. [from |-> packet.source_addr, date |-> clock] \in [from : MACs, date : Nat]
  BY <1>1, <1>2
<1> QED BY <1>2, <1>3 DEF RssiSample

(* The loop starts with an empty list.                                     *)
LEMMA InitIInv == Init => IInv
<1> SUFFICES ASSUME Init PROVE IInv
  OBVIOUS
<1>1. TypeOK
  BY BoundsAssumption, EmptySeq DEF Init, TypeOK, Locations
<1>2. OneEntryEach(l) /\ OneStrayOfNext(l) /\ InDateOrder(l, clock)
  BY DEF Init, OneEntryEach, OneStrayOfNext, InDateOrder
<1> QED BY <1>1, <1>2 DEF IInv, DevicesDistinct, StraysBounded, SamplesInDateOrder

(* What a step does to the list keeps it consistent at the new time.       *)
LEMMA NextConsistent ==
    ASSUME IInv, Next
    PROVE  Consistent(l', clock')
<1>1. Consistent(l, clock)
  BY IInvIsConsistent DEF IInv
<1>2. clock \in Nat
  BY BoundsAssumption DEF IInv, TypeOK
<1>3. CASE Open
  <2>1. l' = <<>> /\ clock' = clock
    BY <1>3 DEF Open
  <2>2. <<>> \in Seq(DeviceEntry)
    BY EmptySeq
  <2>3. OneEntryEach(<<>>) /\ OneStrayOfNext(<<>>) /\ InDateOrder(<<>>, clock)
    BY DEF OneEntryEach, OneStrayOfNext, InDateOrder
  <2> QED BY <2>1, <2>2, <2>3 DEF Consistent
<1>4. CASE OpenFails \/ Capture \/ CaptureFails \/ MallocFails \/ Skip
  BY <1>1, <1>4 DEF OpenFails, Capture, CaptureFails, MallocFails, Skip
<1>5. CASE StoreKnown
  <2> DEFINE m == packet.source_addr
             s == [from |-> m, date |-> clock]
             dev == is_known(l, m)
  <2>1. m \in MACs /\ s \in RssiSample /\ s.from = m /\ s.date = clock
    BY <1>5, FrameTypes DEF IInv, StoreKnown
  <2>2. dev \in DOMAIN l /\ l[dev].mac = m
    BY <1>1, <1>5, <2>1, IsKnownReturns DEF Consistent, StoreKnown
  <2>3. l' = add_rssi_sample(l, dev, s) /\ clock' = clock
    BY <1>5 DEF StoreKnown
  <2> HIDE DEF s, dev, m
  <2> QED BY <1>1, <1>2, <2>1, <2>2, <2>3, AddOwnSampleIsConsistent
<1>6. CASE StoreNew
  <2> DEFINE m == packet.source_addr
             s == [from |-> m, date |-> clock]
  <2>1. m \in MACs /\ s \in RssiSample /\ s.from = m /\ s.date = clock
    BY <1>6, FrameTypes DEF IInv, StoreNew
  <2>2. \A i \in DOMAIN l : l[i].mac # m
    BY <1>1, <1>6, <2>1, IsKnownReturns DEF Consistent, StoreNew
  <2>3. l' = add_rssi_sample(add_device(l, m), added_device(l), s) /\ clock' = clock
    BY <1>6 DEF StoreNew
  <2> HIDE DEF s, m
  <2> QED BY <1>1, <1>2, <2>1, <2>2, <2>3, AddNewIsConsistent
<1>7. CASE Expire
  <2>1. l' = delete_outdate(l, clock) /\ clock' = clock
    BY <1>7 DEF Expire
  <2> QED BY <1>1, <1>2, <2>1, DeleteOutdateIsConsistent
<1>8. CASE Tick
  <2>1. l' = l /\ clock' = clock + 1
    BY <1>8 DEF Tick
  <2> QED BY <1>1, <1>2, <2>1, LaterIsConsistent
<1> QED BY <1>3, <1>4, <1>5, <1>6, <1>7, <1>8 DEF Next, Loop

(* Every step keeps the variables in their ranges.                         *)
LEMMA NextTypeOK ==
    ASSUME IInv, Next
    PROVE  TypeOK'
<1>1. l' \in Seq(DeviceEntry)
  BY NextConsistent DEF Consistent
<1> USE BoundsAssumption DEF TypeOK, Locations
<1>2. CASE Open
  BY <1>1, <1>2 DEF IInv, Open
<1>3. CASE OpenFails
  BY <1>1, <1>3 DEF IInv, OpenFails
<1>4. CASE Capture
  BY <1>1, <1>4 DEF IInv, Capture
<1>5. CASE CaptureFails \/ MallocFails
  BY <1>1, <1>5 DEF IInv, CaptureFails, MallocFails
<1>6. CASE Skip
  BY <1>1, <1>6 DEF IInv, Skip
<1>7. CASE StoreKnown
  BY <1>1, <1>7 DEF IInv, StoreKnown
<1>8. CASE StoreNew
  BY <1>1, <1>8 DEF IInv, StoreNew
<1>9. CASE Expire
  BY <1>1, <1>9 DEF IInv, Expire
<1>10. CASE Tick
  BY <1>1, <1>10 DEF IInv, Tick
<1> QED BY <1>2, <1>3, <1>4, <1>5, <1>6, <1>7, <1>8, <1>9, <1>10 DEF Next, Loop

(* The invariant is inductive.                                             *)
LEMMA NextIInv == IInv /\ [Next]_vars => IInv'
<1> SUFFICES ASSUME IInv, [Next]_vars PROVE IInv'
  OBVIOUS
<1>1. CASE Next
  BY <1>1, NextTypeOK, NextConsistent
     DEF IInv, Consistent, DevicesDistinct, StraysBounded, SamplesInDateOrder
<1>2. CASE UNCHANGED vars
  BY <1>2 DEF vars, IInv, TypeOK, DevicesDistinct, StraysBounded, SamplesInDateOrder
<1> QED BY <1>1, <1>2

-----------------------------------------------------------------------------
(* The inductive invariant holds in every state the loop reaches.          *)
THEOREM Invariance == Spec => []IInv
  BY InitIInv, NextIInv, PTL DEF Spec

(* rssi.c and RSSI_list.c keep every variable in its range; in particular  *)
(* the entry a sample is filed under always exists.                        *)
THEOREM TypeCorrect == Spec => []TypeOK
<1>1. IInv => TypeOK
  BY DEF IInv
<1> QED BY <1>1, Invariance, PTL

(* A station never gets a second entry.                                    *)
THEOREM NoDuplicateDevice == Spec => []DevicesDistinct
<1>1. IInv => DevicesDistinct
  BY DEF IInv
<1> QED BY <1>1, Invariance, PTL

(* However many stations are heard, in whatever order, add_device misfiles *)
(* at most one sample per entry, and always the next station's.            *)
THEOREM MisfilingBounded == Spec => []StraysBounded
<1>1. IInv => StraysBounded
  BY DEF IInv
<1> QED BY <1>1, Invariance, PTL

(* Samples stay in the order of their dates.                               *)
THEOREM DateOrder == Spec => []SamplesInDateOrder
<1>1. IInv => SamplesInDateOrder
  BY DEF IInv
<1> QED BY <1>1, Invariance, PTL

(* Stopping at the first recent sample removes exactly the outdated ones.  *)
THEOREM ExactExpiry == Spec => ExpiryIsExact
<1> DEFINE Exact == pc = "expire" /\ pc' = "capture" =>
                      \A i \in DOMAIN l :
                        {l'[i].rssi[k] : k \in DOMAIN l'[i].rssi}
                            = Fresh(l[i].rssi, clock)
<1>1. ASSUME IInv, [Next]_vars
      PROVE  [Exact]_vars
  <2> SUFFICES ASSUME pc = "expire", pc' = "capture"
               PROVE  Exact
    OBVIOUS
  <2>1. l' = delete_outdate(l, clock)
    BY <1>1 DEF Next, Loop, vars, Open, OpenFails, Capture, CaptureFails, MallocFails, Skip,
                StoreKnown, StoreNew, Expire, Tick
  <2>2. Consistent(l, clock) /\ clock \in Nat
    BY <1>1, IInvIsConsistent, BoundsAssumption DEF IInv, TypeOK
  <2> QED BY <2>1, <2>2, DeleteOutdateIsExact
<1> HIDE DEF Exact
<1>2. Spec => [][Exact]_vars
  BY <1>1, Invariance, PTL DEF Spec
<1> QED BY <1>2, PTL DEF ExpiryIsExact, Exact

(* The list is made before the first frame is captured, and stays.         *)
LEMMA EmptyUntilOpen == Spec => [](pc = "open" => l = <<>>)
<1>1. Init => (pc = "open" => l = <<>>)
  BY DEF Init
<1>2. (pc = "open" => l = <<>>) /\ [Next]_vars => (pc = "open" => l = <<>>)'
  BY DEF Next, Loop, vars, Open, OpenFails, Capture, CaptureFails, MallocFails, Skip,
         StoreKnown, StoreNew, Expire, Tick
<1> QED BY <1>1, <1>2, PTL DEF Spec

(* No step removes, moves or renames an entry: socket_thread, which walks  *)
(* the same list, never holds a pointer to an entry that is gone.          *)
THEOREM EntriesStay == Spec => DevicesPersist
<1> DEFINE Persist == /\ DOMAIN l \subseteq DOMAIN l'
                      /\ \A i \in DOMAIN l : l'[i].mac = l[i].mac
<1>1. ASSUME IInv, pc = "open" => l = <<>>, [Next]_vars
      PROVE  [Persist]_vars
  <2>1. l \in Seq(DeviceEntry) /\ clock \in Nat
    BY <1>1, BoundsAssumption DEF IInv, TypeOK
  <2>2. CASE l' = l
    BY <2>2
  <2>3. CASE Open
    BY <1>1, <2>3 DEF Open
  <2>4. CASE StoreKnown
    <3> DEFINE s == [from |-> packet.source_addr, date |-> clock]
               dev == is_known(l, packet.source_addr)
    <3>1. packet.source_addr \in MACs /\ s \in RssiSample
      BY <1>1, <2>4, FrameTypes DEF IInv, StoreKnown
    <3>2. dev \in DOMAIN l /\ l' = add_rssi_sample(l, dev, s)
      BY <2>1, <2>4, <3>1, IsKnownReturns DEF StoreKnown
    <3> HIDE DEF s, dev
    <3> QED BY <2>1, <3>1, <3>2, AddSampleReturns
  <2>5. CASE StoreNew
    <3> DEFINE s == [from |-> packet.source_addr, date |-> clock]
               e == add_device(l, packet.source_addr)
               dev == added_device(l)
    <3>1. packet.source_addr \in MACs /\ s \in RssiSample
      BY <1>1, <2>5, FrameTypes DEF IInv, StoreNew
    <3>2. /\ e \in Seq(DeviceEntry) /\ dev \in DOMAIN e
          /\ Len(e) = Len(l) + 1
          /\ \A i \in DOMAIN l : e[i] = l[i]
      BY <2>1, <3>1, AddDeviceReturns
    <3>3. l' = add_rssi_sample(e, dev, s)
      BY <2>5 DEF StoreNew
    <3> HIDE DEF s, e, dev
    <3>4. DOMAIN l \subseteq DOMAIN e
      BY <2>1, <3>2, EntryTypes
    <3>5. DOMAIN l' = DOMAIN e /\ \A i \in DOMAIN e : l'[i].mac = e[i].mac
      BY <3>1, <3>2, <3>3, AddSampleReturns
    <3> QED BY <3>2, <3>4, <3>5
  <2>6. CASE Expire
    <3>1. l' = delete_outdate(l, clock)
      BY <2>6 DEF Expire
    <3> QED BY <2>1, <3>1, DeleteOutdateReturns
  <2> QED BY <1>1, <2>2, <2>3, <2>4, <2>5, <2>6
          DEF Next, Loop, vars, OpenFails, Capture, CaptureFails, MallocFails, Skip, Tick
<1> HIDE DEF Persist
<1>2. Spec => [][Persist]_vars
  BY <1>1, Invariance, EmptyUntilOpen, PTL DEF Spec
<1> QED BY <1>2, PTL DEF DevicesPersist, Persist
=============================================================================
