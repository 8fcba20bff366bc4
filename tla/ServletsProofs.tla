--------------------------- MODULE ServletsProofs ---------------------------
(***************************************************************************)
(* Theorems on the servlets, for any requests, clients, ARP tables and     *)
(* number of workers.                                                      *)
(***************************************************************************)
EXTENDS Servlets, LeastNumber, TLAPS

(* The port belongs to the request that is sending, so never to Measure    *)
(* at that time.                                                           *)
PortOwned ==
    /\ \A r \in Requests : pc[r] = "send" => port = r
    /\ socket = "bound" => port = None

(* What a request has done before it puts itself in the wait list.         *)
PutWasAsked == \A r \in LocateRequests : pc[r] = "put" => addr[r] \in asked

IInv ==
    /\ TypeOK
    /\ PortOwned
    /\ PutWasAsked
    /\ ListedWereAsked

(* Servlets and locations that the code tells apart are different, and a   *)
(* request is for one of the two servlets.                                 *)
LEMMA Kinds ==
    /\ \A r \in LocateRequests : r \in Requests /\ r # None /\ Servlet(r) = "locate" /\ Ready(r) = "bind"
    /\ \A r \in MeasureRequests : r \in Requests /\ r # None /\ Servlet(r) = "measure" /\ Ready(r) = "post"
    /\ \A r \in Requests : r \in LocateRequests \/ r \in MeasureRequests
  BY RequestsAssumption DEF Requests, Servlet, Ready

(* toMac returns null, or the address on a line that contains ip.          *)
LEMMA ToMacReturns ==
    ASSUME NEW table \in Tables, NEW ip \in IPs
    PROVE  /\ toMac(table, ip) \in Address
           /\ toMac(table, ip) # None =>
                \E i \in DOMAIN table :
                    table[i].mac = toMac(table, ip) /\ <<table[i].ip, ip>> \in Inside
<1> DEFINE Hits == {i \in DOMAIN table : <<table[i].ip, ip>> \in Inside}
           First == CHOOSE i \in Hits : \A j \in Hits : i <= j
<1>1. table \in Seq(Line)
  BY TablesAssumption
<1>2. CASE Hits = {}
  BY <1>2 DEF toMac, Address
<1>3. CASE Hits # {}
  <2>1. \E i \in Hits : \A j \in Hits : i <= j
    <3>1. Hits \subseteq Nat
      BY <1>1
    <3> HIDE DEF Hits
    <3> QED BY <1>3, <3>1, LeastNatural
  <2>2. First \in Hits
    BY <2>1
  <2>3. toMac(table, ip) = table[First].mac
    BY <1>3 DEF toMac
  <2>4. table[First] \in Line
    BY <1>1, <2>2
  <2> QED BY <2>2, <2>3, <2>4 DEF Line, Address
<1> QED BY <1>2, <1>3

-----------------------------------------------------------------------------
LEMMA InitIInv == Init => IInv
<1> SUFFICES ASSUME Init PROVE IInv
  OBVIOUS
<1>1. TypeOK
  BY Kinds DEF Init, TypeOK, Locations, LocateLocations, MeasureLocations,
               Answered, Address
<1>2. PortOwned /\ PutWasAsked
  BY Kinds DEF Init, PortOwned, PutWasAsked
<1>3. ListedWereAsked
  BY DEF Init, ListedWereAsked
<1> QED BY <1>1, <1>2, <1>3 DEF IInv

(* Moving one request on leaves the others where they are.                 *)
LEMMA GotoMoves ==
    ASSUME TypeOK, NEW r \in Requests, NEW from, NEW to, Goto(r, from, to)
    PROVE  /\ pc[r] = from /\ pc'[r] = to
           /\ \A q \in Requests : q # r => pc'[q] = pc[q]
           /\ to \in Locations => pc' \in [Requests -> Locations]
  BY DEF Goto, TypeOK

(* A move to a place the request's servlet has keeps the types of pc.      *)
PcOK ==
    /\ pc \in [Requests -> Locations]
    /\ \A r \in LocateRequests : pc[r] \notin MeasureLocations \ LocateLocations
    /\ \A r \in MeasureRequests : pc[r] \in MeasureLocations \cup {"queued", "failed"}

LEMMA GotoTypes ==
    ASSUME TypeOK, NEW r \in Requests, NEW from, NEW to, Goto(r, from, to),
           r \in LocateRequests => to \in LocateLocations \cup Answered,
           r \in MeasureRequests => to \in MeasureLocations \cup {"failed"}
    PROVE  PcOK'
<1>1. to \in Locations
  BY Kinds DEF Locations, Answered
<1>2. to \in LocateLocations \cup Answered =>
        to \notin MeasureLocations \ LocateLocations
  BY DEF LocateLocations, MeasureLocations, Answered
<1>3. PcOK
  BY DEF TypeOK, PcOK
<1> QED BY <1>1, <1>2, <1>3, GotoMoves, Kinds DEF PcOK

(* Every step of a request keeps the types.                                *)
LEMMA StepTypeOK ==
    ASSUME IInv, NEW r \in Requests, Step(r)
    PROVE  TypeOK'
<1> USE Kinds DEF LocateLocations, MeasureLocations, Answered
<1>0. TypeOK
  BY DEF IInv
<1>1. CASE Admit(r)
  BY <1>0, <1>1, GotoTypes DEF Admit, TypeOK, PcOK
<1>2. CASE IsAlive(r)
  BY <1>0, <1>2, GotoTypes DEF IsAlive, TypeOK, PcOK
<1>3. CASE StartThread(r)
  <2>1. PcOK'
    BY <1>0, <1>3, GotoTypes DEF StartThread
  <2>2. thread' \in [{"locate", "measure"} -> {"new", "alive", "over"}]
    BY <1>0, <1>3 DEF StartThread, TypeOK
  <2> QED BY <1>0, <1>3, <2>1, <2>2 DEF StartThread, TypeOK, PcOK
<1>4. CASE LocateStep(r)
  <2>1. r \in LocateRequests
    BY <1>0, <1>4 DEF LocateStep, Lookup, LookupFails, Assign, Bind, Send,
                      SendFails, Put, Locate, Goto, TypeOK
  <2>2. addr[r] \in Address
    BY <1>0, <2>1 DEF TypeOK
  <2>3. CASE Lookup(r)
    <3>1. /\ Goto(r, "lookup", IF toMac(arp, Client[r]) \in waitList
                               THEN "pending" ELSE "assign")
          /\ addr' = [addr EXCEPT ![r] = toMac(arp, Client[r])]
      BY <2>3 DEF Lookup
    <3>2. toMac(arp, Client[r]) \in Address
      BY <1>0, ToMacReturns, RequestsAssumption DEF TypeOK
    <3>3. addr' \in [LocateRequests -> Address]
      BY <1>0, <3>1, <3>2 DEF TypeOK
    <3>4. PcOK'
      BY <1>0, <2>1, <3>1, GotoTypes
    <3> QED BY <1>0, <2>3, <3>3, <3>4 DEF Lookup, TypeOK, PcOK
  <2>4. CASE Assign(r)
    BY <1>0, <2>1, <2>2, <2>4, GotoTypes DEF Assign, TypeOK, PcOK
  <2>5. CASE Bind(r)
    BY <1>0, <2>1, <2>5, GotoTypes DEF Bind, TypeOK, PcOK
  <2>6. CASE Send(r) \/ SendFails(r)
    BY <1>0, <2>1, <2>2, <2>6, GotoTypes DEF Send, SendFails, TypeOK, PcOK
  <2>7. CASE Put(r)
    BY <1>0, <2>1, <2>2, <2>7, GotoTypes DEF Put, TypeOK, PcOK
  <2>8. CASE Locate(r) \/ LookupFails(r)
    BY <1>0, <2>1, <2>8, GotoTypes DEF Locate, LookupFails, TypeOK, PcOK
  <2> QED BY <1>4, <2>3, <2>4, <2>5, <2>6, <2>7, <2>8 DEF LocateStep
<1>5. CASE MeasureStep(r)
  <2>1. r \in MeasureRequests
    BY <1>0, <1>5 DEF MeasureStep, Load, Post, Goto, TypeOK
  <2> QED BY <1>0, <1>5, <2>1, GotoTypes DEF MeasureStep, Load, Post, TypeOK, PcOK
<1> QED BY <1>1, <1>2, <1>3, <1>4, <1>5 DEF Step

(* A request that begins to send has bound the port, and no one takes it   *)
(* away before it has sent.                                                *)
LEMMA StepPortOwned ==
    ASSUME IInv, NEW r \in Requests, Step(r)
    PROVE  PortOwned'
<1> USE Kinds
<1>0. TypeOK /\ PortOwned
  BY DEF IInv
<1>1. CASE Bind(r)
  BY <1>0, <1>1, GotoMoves DEF Bind, PortTaken, PortOwned
<1>2. CASE Load(r)
  BY <1>0, <1>2, GotoMoves DEF Load, PortTaken, PortOwned
<1>3. ASSUME NEW from, NEW to, Goto(r, from, to), to # "send", UNCHANGED <<port, socket>>
      PROVE  PortOwned'
  BY <1>0, <1>3, GotoMoves DEF PortOwned
<1>4. CASE Admit(r) \/ IsAlive(r) \/ StartThread(r)
  BY <1>3, <1>4 DEF Admit, IsAlive, StartThread
<1>5. CASE Lookup(r) \/ LookupFails(r)
  BY <1>3, <1>5 DEF Lookup, LookupFails
<1>6. CASE Assign(r) \/ Send(r) \/ SendFails(r) \/ Put(r) \/ Locate(r) \/ Post(r)
  BY <1>3, <1>6 DEF Assign, Send, SendFails, Put, Locate, Post
<1> QED BY <1>1, <1>2, <1>4, <1>5, <1>6 DEF Step, LocateStep, MeasureStep

(* Nothing but Send leads to put, and nothing but Put adds to the list.    *)
LEMMA StepListed ==
    ASSUME IInv, NEW r \in Requests, Step(r)
    PROVE  PutWasAsked' /\ ListedWereAsked'
<1> USE Kinds
<1>0. TypeOK /\ PutWasAsked /\ ListedWereAsked
  BY DEF IInv
<1>1. CASE Send(r)
  <2>1. pc[r] = "send" /\ pc'[r] = "put"
    BY <1>0, <1>1, GotoMoves DEF Send
  <2> QED BY <1>0, <1>1, <2>1, GotoMoves DEF Send, PutWasAsked, ListedWereAsked
<1>2. CASE Put(r)
  <2>1. r \in LocateRequests /\ addr[r] \in asked
    BY <1>0, <1>2, GotoMoves DEF Put, PutWasAsked, TypeOK, MeasureLocations
  <2> QED BY <1>0, <1>2, <2>1, GotoMoves DEF Put, PutWasAsked, ListedWereAsked
<1>3. CASE Lookup(r)
  <2>1. pc[r] = "lookup" /\ pc'[r] # "put"
    BY <1>0, <1>3, GotoMoves DEF Lookup
  <2>2. \A q \in LocateRequests : q # r => addr'[q] = addr[q]
    BY <1>0, <1>3 DEF Lookup, TypeOK
  <2> QED BY <1>0, <1>3, <2>1, <2>2, GotoMoves DEF Lookup, PutWasAsked, ListedWereAsked
<1>4. ASSUME NEW from, NEW to, Goto(r, from, to), to # "put",
             UNCHANGED <<addr, waitList, asked>>
      PROVE  PutWasAsked' /\ ListedWereAsked'
  BY <1>0, <1>4, GotoMoves DEF PutWasAsked, ListedWereAsked
<1>5. CASE Admit(r) \/ IsAlive(r) \/ StartThread(r)
  BY <1>4, <1>5 DEF Admit, IsAlive, StartThread
<1>6. CASE \/ LookupFails(r) \/ Assign(r) \/ Bind(r) \/ SendFails(r) \/ Locate(r)
           \/ Load(r) \/ Post(r)
  BY <1>4, <1>6 DEF LookupFails, Assign, Bind, SendFails, Locate, Load, Post
<1> QED BY <1>1, <1>2, <1>3, <1>5, <1>6 DEF Step, LocateStep, MeasureStep

LEMMA NextIInv == IInv /\ [Next]_vars => IInv'
<1> SUFFICES ASSUME IInv, [Next]_vars PROVE IInv'
  OBVIOUS
<1>1. CASE \E r \in Requests : Step(r)
  BY <1>1, StepTypeOK, StepPortOwned, StepListed DEF IInv
<1>2. CASE \E s \in {"locate", "measure"} : ListenerEnds(s)
  BY <1>2 DEF ListenerEnds, IInv, TypeOK, PortOwned, PutWasAsked,
              ListedWereAsked
<1>3. CASE Finalize
  BY <1>3, Kinds DEF Finalize, IInv, TypeOK, PortOwned, PutWasAsked,
              ListedWereAsked
<1>4. CASE UNCHANGED vars
  BY <1>4 DEF vars, IInv, TypeOK, PortOwned, PutWasAsked,
              ListedWereAsked
<1>5. CASE Neighbours
  BY <1>5 DEF Neighbours, IInv, TypeOK, PortOwned, PutWasAsked, ListedWereAsked
<1> QED BY <1>1, <1>2, <1>3, <1>4, <1>5 DEF Next

-----------------------------------------------------------------------------
(* The invariant holds in every behaviour of the servlets.                 *)
THEOREM Invariance == Spec => []IInv
  BY InitIInv, NextIInv, PTL DEF Spec

(* Every variable stays in its range (Locate, Measure).                    *)
THEOREM TypeCorrect == Spec => []TypeOK
<1>1. IInv => TypeOK
  BY DEF IInv
<1> QED BY <1>1, Invariance, PTL

(* A request that fails leaves no entry in the wait list.                  *)
THEOREM OnlyAskedListed == Spec => []ListedWereAsked
<1>1. IInv => ListedWereAsked
  BY DEF IInv
<1> QED BY <1>1, Invariance, PTL

(* Once Measure holds port 1337, no Locate request is sent again.          *)
THEOREM Starvation == Spec => MeasureStarvesLocate
<1> DEFINE Starved == socket = "bound" => asked' = asked
<1>1. ASSUME IInv, [Next]_vars
      PROVE  [Starved]_vars
  <2>1. ASSUME socket = "bound", NEW r \in Requests, Send(r)
        PROVE  FALSE
    <3>1. pc[r] = "send"
      BY <2>1 DEF Send, Goto
    <3> QED BY <1>1, <2>1, <3>1, Kinds DEF IInv, PortOwned
  <2> QED
    BY <1>1, <2>1 DEF Next, Step, LocateStep, MeasureStep, Admit, Lookup, LookupFails,
         Assign, IsAlive, StartThread, Bind, SendFails, Put, Locate, Load, Post,
         ListenerEnds, Finalize, Neighbours, vars
<1>2. Spec => [][Starved]_vars
  BY <1>1, Invariance, PTL DEF Spec
<1> QED BY <1>2 DEF MeasureStarvesLocate

-----------------------------------------------------------------------------
(* Once the listener of Locate is over and no request is past its start,   *)
(* that stays so, and no access point is asked again.                      *)
THEOREM UnheardStays == Spec => UnheardForEver
<1> DEFINE Stays == Unheard => Unheard' /\ asked' = asked
<1>1. ASSUME IInv, [Next]_vars
      PROVE  [Stays]_vars
  <2> SUFFICES ASSUME Unheard, Next PROVE Unheard' /\ asked' = asked
    BY <1>1
  <2> USE Kinds
  <2>0. TypeOK /\ thread["locate"] = "over"
    BY <1>1 DEF IInv, Unheard
  <2>1. ASSUME NEW r \in Requests, NEW from, NEW to, Goto(r, from, to),
               r \in LocateRequests => to \notin {"bind", "send"},
               thread'["locate"] = "over"
        PROVE  Unheard'
    BY <2>0, <2>1, GotoMoves DEF Unheard
  <2>2. ASSUME NEW r \in Requests, Step(r)
        PROVE  Unheard' /\ asked' = asked
    <3>1. CASE Admit(r)
      BY <2>0, <2>1, <3>1 DEF Admit
    <3>2. CASE IsAlive(r)
      BY <2>0, <2>1, <3>2 DEF IsAlive
    <3>3. CASE StartThread(r)
      <4>1. thread'["locate"] = "over"
        BY <2>0, <3>3 DEF StartThread, TypeOK
      <4> QED BY <2>0, <2>1, <3>3, <4>1 DEF StartThread
    <3>4. CASE Lookup(r)
      BY <2>0, <2>1, <3>4 DEF Lookup
    <3>5. CASE Bind(r) \/ Send(r) \/ SendFails(r)
      <4>1. pc[r] \in {"bind", "send"} /\ r \in LocateRequests
        BY <2>0, <3>5 DEF Bind, Send, SendFails, Goto, TypeOK, MeasureLocations
      <4> QED BY <4>1 DEF Unheard
    <3>6. CASE LookupFails(r) \/ Assign(r) \/ Put(r) \/ Locate(r) \/ Load(r) \/ Post(r)
      BY <2>0, <2>1, <3>6 DEF LookupFails, Assign, Put, Locate, Load, Post
    <3> QED BY <2>2, <3>1, <3>2, <3>3, <3>4, <3>5, <3>6
            DEF Step, LocateStep, MeasureStep
  <2>3. CASE \E s \in {"locate", "measure"} : ListenerEnds(s)
    BY <2>0, <2>3 DEF ListenerEnds, Unheard, TypeOK
  <2>4. CASE Finalize \/ Neighbours
    BY <2>4 DEF Finalize, Neighbours, Unheard
  <2> QED BY <2>2, <2>3, <2>4 DEF Next
<1>2. Spec => [][Stays]_vars
  BY <1>1, Invariance, PTL DEF Spec
<1> QED BY <1>2 DEF UnheardForEver

-----------------------------------------------------------------------------
(* From the assignment of the field on, it holds the request's address.    *)
OwnField ==
    \A r \in LocateRequests :
        pc[r] \in {"alive", "start", "bind", "send", "put", "wait"} => mac = addr[r]

(* A request changes the field only after it entered doGet's branch; if no *)
(* other is in it, no other has a claim to the field.                      *)
LEMMA StepOwnField ==
    ASSUME IInv, Alone, OwnField, NEW r \in Requests, Step(r)
    PROVE  OwnField'
<1> USE Kinds
<1>0. TypeOK
  BY DEF IInv
<1>1. CASE Assign(r)
  <2>1. pc[r] = "assign" /\ r \in LocateRequests
    BY <1>0, <1>1 DEF Assign, Goto, TypeOK, MeasureLocations
  <2>2. \A q \in LocateRequests : q # r =>
          pc[q] \notin {"alive", "start", "bind", "send", "put", "wait"}
    BY <2>1 DEF Alone, Active, LocateLocations
  <2> QED BY <1>0, <1>1, <2>1, <2>2, GotoMoves DEF Assign, OwnField
<1>2. CASE Lookup(r)
  <2>1. pc'[r] \in {"pending", "assign"}
    BY <1>0, <1>2, GotoMoves DEF Lookup
  <2>2. \A q \in LocateRequests : q # r => addr'[q] = addr[q] /\ pc'[q] = pc[q]
    BY <1>0, <1>2, GotoMoves DEF Lookup, TypeOK
  <2> QED BY <1>2, <2>1, <2>2 DEF Lookup, OwnField
<1>3. ASSUME NEW from, NEW to, Goto(r, from, to), UNCHANGED <<addr, mac>>,
             \/ r \in MeasureRequests
             \/ from \in {"alive", "start", "bind", "send", "put", "wait"}
             \/ to = "lookup"
      PROVE  OwnField'
  <2>1. \/ r \in MeasureRequests
        \/ pc[r] \in {"alive", "start", "bind", "send", "put", "wait"}
        \/ pc'[r] = "lookup"
    BY <1>0, <1>3, GotoMoves
  <2> QED BY <1>0, <1>3, <2>1, GotoMoves, RequestsAssumption DEF OwnField
<1>4. CASE Admit(r)
  BY <1>3, <1>4 DEF Admit
<1>5. CASE IsAlive(r) \/ StartThread(r)
  BY <1>3, <1>5 DEF IsAlive, StartThread
<1>6. CASE Bind(r) \/ Send(r) \/ SendFails(r) \/ Put(r) \/ Locate(r)
  BY <1>3, <1>6 DEF Bind, Send, SendFails, Put, Locate
<1>7. CASE Load(r) \/ Post(r)
  <2>1. r \in MeasureRequests
    BY <1>0, <1>7 DEF Load, Post, Goto, TypeOK, MeasureLocations, LocateLocations
  <2> QED BY <1>3, <1>7, <2>1 DEF Load, Post
<1>8. CASE LookupFails(r)
  <2>1. pc'[r] = "failed" /\ UNCHANGED <<addr, mac>>
    BY <1>0, <1>8, GotoMoves DEF LookupFails
  <2>2. \A q \in LocateRequests : q # r => pc'[q] = pc[q]
    BY <1>0, <1>8, GotoMoves DEF LookupFails
  <2> QED BY <2>1, <2>2 DEF OwnField
<1> QED BY <1>1, <1>2, <1>4, <1>5, <1>6, <1>7, <1>8 DEF Step, LocateStep, MeasureStep

(* What a request looked up is the address of its client's station, in     *)
(* every table the host may come to have.                                  *)
OwnAddress ==
    \A r \in LocateRequests : addr[r] # None =>
        \A t \in Tables : \A i \in DOMAIN t : t[i].ip = Client[r] => t[i].mac = addr[r]

(* Only Lookup sets an address, and the line it finds is the client's.     *)
LEMMA StepOwnAddress ==
    ASSUME IInv, Leased, Unambiguous, OwnAddress, NEW r \in Requests, Step(r)
    PROVE  OwnAddress'
<1>0. TypeOK
  BY DEF IInv
<1>1. CASE Lookup(r)
  <2>1. r \in LocateRequests /\ addr' = [addr EXCEPT ![r] = toMac(arp, Client[r])]
    BY <1>0, <1>1, Kinds DEF Lookup, Goto, TypeOK, MeasureLocations
  <2>2. Client[r] \in IPs /\ arp \in Tables
    BY <1>0, RequestsAssumption DEF TypeOK
  <2>3. ASSUME addr'[r] # None, NEW t \in Tables, NEW i \in DOMAIN t, t[i].ip = Client[r]
        PROVE  t[i].mac = addr'[r]
    <3>1. addr'[r] = toMac(arp, Client[r])
      BY <1>0, <2>1 DEF TypeOK
    <3>2. PICK j \in DOMAIN arp :
            arp[j].mac = addr'[r] /\ <<arp[j].ip, Client[r]>> \in Inside
      BY <2>2, <2>3, <3>1, ToMacReturns
    <3>3. arp[j].ip = t[i].ip
      BY <2>1, <2>3, <3>2 DEF Unambiguous
    <3> QED BY <2>2, <3>2, <3>3 DEF Leased
  <2>4. \A q \in LocateRequests : q # r => addr'[q] = addr[q]
    BY <1>0, <2>1 DEF TypeOK
  <2> QED BY <2>3, <2>4 DEF OwnAddress
<1>2. CASE UNCHANGED addr
  BY <1>2 DEF OwnAddress
<1> QED
  BY <1>1, <1>2 DEF Step, LocateStep, MeasureStep, LookupFails, Admit, IsAlive,
       StartThread, Assign, Bind, Send, SendFails, Put, Locate, Load, Post

(* A request queries for its own client as long as requests do not overlap *)
(* and no address of the table contains a client's: neither the shared     *)
(* field nor a station that comes or goes meanwhile mixes clients up.      *)
THEOREM AloneIsSafe == Spec => AloneLocatesOwn
<1> SUFFICES ASSUME Leased
    PROVE  Spec /\ [](Alone /\ Unambiguous) => []OwnQuery
  BY DEF AloneLocatesOwn
<1>1. Init => OwnField /\ OwnAddress
  BY Kinds DEF Init, OwnField, OwnAddress
<1>2. IInv /\ (Alone /\ Unambiguous) /\ (OwnField /\ OwnAddress) /\ [Next]_vars
        => (OwnField /\ OwnAddress)'
  <2> SUFFICES ASSUME IInv, Alone, Unambiguous, OwnField, OwnAddress, [Next]_vars
      PROVE  OwnField' /\ OwnAddress'
    OBVIOUS
  <2>1. CASE \E r \in Requests : Step(r)
    BY <2>1, StepOwnField, StepOwnAddress
  <2>2. CASE \E s \in {"locate", "measure"} : ListenerEnds(s)
    BY <2>2 DEF ListenerEnds, OwnField, OwnAddress
  <2>3. CASE Finalize \/ Neighbours
    BY <2>3 DEF Finalize, Neighbours, OwnField, OwnAddress
  <2>4. CASE UNCHANGED vars
    BY <2>4 DEF vars, OwnField, OwnAddress
  <2> QED BY <2>1, <2>2, <2>3, <2>4 DEF Next
<1>3. IInv /\ OwnField /\ OwnAddress => OwnQuery
  BY DEF IInv, TypeOK, OwnField, OwnAddress, OwnQuery
<1> QED BY <1>1, <1>2, <1>3, Invariance, PTL DEF Spec
=============================================================================
