------------------------------ MODULE Servlets ------------------------------
(***************************************************************************)
(* The servlets of the positioning server (server/servlets/Locate.java and *)
(* Measure.java) with UdpThread.send, UdpThread.start and Common.toMac.    *)
(* Each request runs in a worker thread of the servlet container; all of a *)
(* class share one object, so the field mac of Locate is shared, as are    *)
(* the static wait list and port 1337, which both servlets send from.      *)
(* Definitions that begin with Bad are variants with a mistake.            *)
(***************************************************************************)
EXTENDS Integers, Sequences, FiniteSets

CONSTANTS
    LocateRequests, MeasureRequests,  (* requests that are made            *)
    IPs, MACs,
    Client,   (* the address each request comes from                       *)
    Inside,   (* <<a, b>>: the text of address a contains that of b        *)
    Tables,   (* the ARP tables the host may have: lines [ip, mac]         *)
    Workers,  (* worker threads of the container                           *)
    None      (* no address, no request                                    *)

Requests == LocateRequests \cup MeasureRequests
Line == [ip : IPs, mac : MACs]
Address == MACs \cup {None}

ASSUME RequestsAssumption ==
    /\ LocateRequests \cap MeasureRequests = {}
    /\ None \notin Requests /\ None \notin MACs
    /\ Client \in [Requests -> IPs]
    /\ Workers \in Nat \ {0}
ASSUME TablesAssumption ==
    /\ Tables \subseteq Seq(Line)
    /\ Inside \subseteq IPs \X IPs
    /\ \A a \in IPs : <<a, a>> \in Inside

VARIABLES
    pc,        (* where each request is                                    *)
    addr,      (* the local variable mac of each Locate request            *)
    mac,       (* the field mac of the Locate object                       *)
    waitList,  (* the keys of the map                                      *)
    thread,    (* the state of each servlet's UdpThread                    *)
    port,      (* the request that opened the socket bound to 1337         *)
    socket,    (* the static socket of Measure, bound to 1337 too          *)
    asked,     (* the addresses the access points were asked for           *)
    arp        (* the ARP table of the host                                *)

vars == <<pc, addr, mac, waitList, thread, port, socket, asked, arp>>

Init ==
    /\ pc = [r \in Requests |-> "queued"]
    /\ addr = [r \in LocateRequests |-> None]
    /\ mac = None
    /\ waitList = {}
    /\ thread = [s \in {"locate", "measure"} |-> "new"]
    /\ port = None
    /\ socket = "unloaded"
    /\ asked = {}
    /\ arp \in Tables

Answered == {"pending", "error", "failed"}
Goto(r, from, to) == pc[r] = from /\ pc' = [pc EXCEPT ![r] = to]
Servlet(r) == IF r \in LocateRequests THEN "locate" ELSE "measure"

(* The result of the last readLine that was not null. *)
Bad_toMac(table, ip) == IF table = <<>> THEN None ELSE table[Len(table)].mac

(* The address on the first line that contains ip, wherever it does; null  *)
(* at the end of the file.                                                 *)
toMac(table, ip) ==
    LET Hits == {i \in DOMAIN table : <<table[i].ip, ip>> \in Inside}
    IN  IF Hits = {} THEN None
        ELSE table[CHOOSE i \in Hits : \A j \in Hits : i <= j].mac

-----------------------------------------------------------------------------
(* A worker of the container takes the request; while(true) keeps it.      *)
Admit(r) ==
    /\ Cardinality({q \in Requests : pc[q] \notin Answered \cup {"queued"}}) < Workers
    /\ Goto(r, "queued", IF r \in LocateRequests THEN "lookup" ELSE "load")
    /\ UNCHANGED <<addr, mac, waitList, thread, port, socket, asked, arp>>

(* The table is what it is at this time.                                   *)
Lookup(r) ==
    /\ LET found == toMac(arp, Client[r])
       IN  /\ Goto(r, "lookup", IF found \in waitList THEN "pending" ELSE "assign")
           /\ addr' = [addr EXCEPT ![r] = found]
    /\ UNCHANGED <<mac, waitList, thread, port, socket, asked, arp>>

(* toMac throws: the table cannot be read, or a line that contains the     *)
(* address ends before the columns that are cut out.                       *)
LookupFails(r) ==
    /\ Goto(r, "lookup", "failed")
    /\ UNCHANGED <<addr, mac, waitList, thread, port, socket, asked, arp>>

(* The field is set once. *)
BadAssign(r) ==
    /\ Goto(r, "assign", "alive")
    /\ mac' = IF mac = None THEN addr[r] ELSE mac
    /\ UNCHANGED <<addr, waitList, thread, port, socket, asked, arp>>

Assign(r) ==
    /\ Goto(r, "assign", "alive")
    /\ mac' = addr[r]
    /\ UNCHANGED <<addr, waitList, thread, port, socket, asked, arp>>

Ready(r) == IF r \in LocateRequests THEN "bind" ELSE "post"

(* A thread that is over is left alone too. *)
BadIsAlive(r) ==
    /\ Goto(r, "alive", IF thread[Servlet(r)] # "new" THEN Ready(r) ELSE "start")
    /\ UNCHANGED <<addr, mac, waitList, thread, port, socket, asked, arp>>

(* UdpThread.start tests isAlive, then calls Thread.start without a lock.  *)
IsAlive(r) ==
    /\ Goto(r, "alive", IF thread[Servlet(r)] = "alive" THEN Ready(r) ELSE "start")
    /\ UNCHANGED <<addr, mac, waitList, thread, port, socket, asked, arp>>

(* Thread.start throws IllegalThreadStateException on a second call.       *)
StartThread(r) ==
    /\ Goto(r, "start", IF thread[Servlet(r)] = "new" THEN Ready(r) ELSE "failed")
    /\ thread' = [thread EXCEPT ![Servlet(r)] = IF @ = "new" THEN "alive" ELSE @]
    /\ UNCHANGED <<addr, mac, waitList, port, socket, asked, arp>>

-----------------------------------------------------------------------------
(* UdpThread.send, and what Locate does after it.                          *)

PortTaken == port # None \/ socket = "bound"

(* The exception of a taken port is caught, the request goes on. *)
BadBind(r) ==
    /\ Goto(r, "bind", IF PortTaken THEN "put" ELSE "send")
    /\ port' = IF PortTaken THEN port ELSE r
    /\ UNCHANGED <<addr, mac, waitList, thread, socket, asked, arp>>

(* new DatagramSocket(1337): BindException if the port is taken.           *)
Bind(r) ==
    /\ Goto(r, "bind", IF PortTaken THEN "failed" ELSE "send")
    /\ port' = IF PortTaken THEN port ELSE r
    /\ UNCHANGED <<addr, mac, waitList, thread, socket, asked, arp>>

(* The socket is not closed, whether the datagram could be sent or not.    *)
Send(r) ==
    /\ Goto(r, "send", "put")
    /\ asked' = asked \cup {addr[r]}
    /\ UNCHANGED <<addr, mac, waitList, thread, port, socket, arp>>

SendFails(r) ==
    /\ Goto(r, "send", "failed")
    /\ UNCHANGED <<addr, mac, waitList, thread, port, socket, asked, arp>>

(* The client's entry is under its IP address. *)
BadPut(r) ==
    /\ Goto(r, "put", "wait")
    /\ waitList' = waitList \cup {Client[r]}
    /\ UNCHANGED <<addr, mac, thread, port, socket, asked, arp>>

(* waitList.put on a HashMap without a lock: of two at once, the first to  *)
(* link its entry may lose it to the other. Entries are never removed.     *)
Put(r) ==
    /\ Goto(r, "put", "wait")
    /\ \/ waitList' = waitList \cup {addr[r]}
       \/ waitList' = waitList /\ \E q \in Requests \ {r} : pc[q] = "put"
    /\ UNCHANGED <<addr, mac, thread, port, socket, asked, arp>>

(* wait without a timeout, for a notification of the listener. *)
BadLocate(r) ==
    /\ thread["locate"] = "alive"
    /\ Goto(r, "wait", "error")
    /\ UNCHANGED <<addr, mac, waitList, thread, port, socket, asked, arp>>

(* wait(5000) times out (or wakes up spuriously, or is interrupted), and   *)
(* locate puts the field mac into its query; there is no column id to be   *)
(* selected, so that an SQLException follows and ERROR is printed.         *)
Locate(r) ==
    /\ Goto(r, "wait", "error")
    /\ UNCHANGED <<addr, mac, waitList, thread, port, socket, asked, arp>>

-----------------------------------------------------------------------------
(* The static socket is bound without a look at the port. *)
BadLoad(r) ==
    /\ Goto(r, "load", "alive") \/ Goto(r, "load", "failed")
    /\ socket' = "bound"
    /\ UNCHANGED <<addr, mac, waitList, thread, port, asked, arp>>

(* The first request initialises the class: its socket takes port 1337 for *)
(* ever, or stays null if the port is taken.  Then toMac may throw.        *)
Load(r) ==
    /\ Goto(r, "load", "alive") \/ Goto(r, "load", "failed")
    /\ socket' = IF socket # "unloaded" THEN socket
                 ELSE IF PortTaken THEN "null" ELSE "bound"
    /\ UNCHANGED <<addr, mac, waitList, thread, port, asked, arp>>

(* The request is sent to the access points, and while(true) entered; the  *)
(* send may fail, and on a null socket it throws.                          *)
Post(r) ==
    /\ \/ socket = "bound" /\ Goto(r, "post", "spin")
       \/ Goto(r, "post", "failed")
    /\ UNCHANGED <<addr, mac, waitList, thread, port, socket, asked, arp>>

-----------------------------------------------------------------------------
(* UdpThread.run returns or throws. *)
ListenerEnds(s) ==
    /\ thread[s] = "alive"
    /\ thread' = [thread EXCEPT ![s] = "over"]
    /\ UNCHANGED <<pc, addr, mac, waitList, port, socket, asked, arp>>

(* The collector finalises the socket of a request that is past send.      *)
Finalize ==
    /\ port # None /\ pc[port] # "send"
    /\ port' = None
    /\ UNCHANGED <<pc, addr, mac, waitList, thread, socket, asked, arp>>

(* Stations come and go.                                                   *)
Neighbours ==
    /\ arp' \in Tables
    /\ UNCHANGED <<pc, addr, mac, waitList, thread, port, socket, asked>>

LocateStep(r) ==
    \/ Lookup(r) \/ LookupFails(r) \/ Assign(r) \/ Bind(r) \/ Send(r) \/ SendFails(r)
    \/ Put(r) \/ Locate(r)

MeasureStep(r) == Load(r) \/ Post(r)

Step(r) == Admit(r) \/ IsAlive(r) \/ StartThread(r) \/ LocateStep(r) \/ MeasureStep(r)

Next ==
    \/ \E r \in Requests : Step(r)
    \/ \E s \in {"locate", "measure"} : ListenerEnds(s)
    \/ Finalize
    \/ Neighbours

Spec == Init /\ [][Next]_vars

(* The container's threads are scheduled, and wait(5000) has a timeout.    *)
FairSpec == Spec /\ \A r \in Requests : WF_vars(Step(r))

-----------------------------------------------------------------------------
LocateLocations ==
    {"lookup", "assign", "alive", "start", "bind", "send", "put", "wait"}
MeasureLocations == {"load", "alive", "start", "post", "spin"}
Locations == LocateLocations \cup MeasureLocations \cup Answered \cup {"queued"}

(* Every variable stays in its range (Locate, Measure).                    *)
TypeOK ==
    /\ pc \in [Requests -> Locations]
    /\ \A r \in LocateRequests : pc[r] \notin MeasureLocations \ LocateLocations
    /\ \A r \in MeasureRequests :
          pc[r] \in MeasureLocations \cup {"queued", "failed"}
    /\ addr \in [LocateRequests -> Address]
    /\ mac \in Address
    /\ waitList \subseteq Address
    /\ thread \in [{"locate", "measure"} -> {"new", "alive", "over"}]
    /\ port \in LocateRequests \cup {None}
    /\ socket \in {"unloaded", "bound", "null"}
    /\ asked \subseteq Address
    /\ arp \in Tables

(* An entry of the wait list is for ever, so that no request that failed   *)
(* may leave one: a client is listed only after the access points were     *)
(* asked for it (Locate.doGet, UdpThread.send).                            *)
ListedWereAsked == waitList \subseteq asked

(* Once Measure holds port 1337, which it never gives back, no Locate      *)
(* request reaches an access point again (Measure's static initialiser).   *)
MeasureStarvesLocate == [][socket = "bound" => asked' = asked]_vars

(* Nothing restarts the listener of Locate: when it is over and no request *)
(* is past start, none will reach an access point (UdpThread.start).       *)
Unheard ==
    thread["locate"] = "over" /\ \A r \in LocateRequests : pc[r] \notin {"bind", "send"}

UnheardForEver == [][Unheard => Unheard' /\ asked' = asked]_vars

(* Requests between the check of the wait list and the answer.             *)
Active == {r \in LocateRequests : pc[r] \in LocateLocations \ {"lookup"}}

(* The shared field does no harm while requests do not overlap.            *)
Alone == \A r, q \in Active : r = q

(* No address of the table contains a client's, but its own.               *)
Unambiguous ==
    \A r \in LocateRequests, i \in DOMAIN arp :
        <<arp[i].ip, Client[r]>> \in Inside => arp[i].ip = Client[r]

(* Stations keep their addresses.                                          *)
Leased ==
    \A t, u \in Tables : \A i \in DOMAIN t, j \in DOMAIN u :
        t[i].ip = u[j].ip => t[i].mac = u[j].mac

(* The query is made for the station that has the client's address, or for *)
(* null.                                                                   *)
OwnQuery ==
    \A r \in LocateRequests : pc[r] = "wait" =>
        \A i \in DOMAIN arp : arp[i].ip = Client[r] => mac \in {arp[i].mac, None}

(* Two things only make a request query for another client than the one it *)
(* comes from, however stations come and go: that it overlaps another, and *)
(* that an address contains its client's (Common.toMac, Locate.doGet).     *)
AloneLocatesOwn == Leased /\ [](Alone /\ Unambiguous) => []OwnQuery

(* A request for a location is answered within its timeout, unless every   *)
(* worker spins at the end of Measure.doGet.                               *)
AnsweredUnlessSpinning ==
    \A r \in LocateRequests :
        pc[r] = "queued" ~>
            \/ pc[r] \in Answered
            \/ Cardinality({q \in MeasureRequests : pc[q] = "spin"}) >= Workers

-----------------------------------------------------------------------------
(* What the documents of the repository say of this code, and it does not  *)
(* do.                                                                     *)

(* The report, part3.tex:181, of the query of locate: "The ? parameter is  *)
(* the client mac address"; a request queries for the client it comes from.*)
QueriesOwnClient ==
    [][\A r \in LocateRequests :
          pc[r] = "wait" /\ pc'[r] = "error" => mac = addr[r]]_vars

(* The report, part3.tex:169: Locate verifies "if there are no pending     *)
(* request for same client mac address"; PENDING tells of one.             *)
PendingTellsOfPending ==
    [][\A r \in LocateRequests : pc[r] = "lookup" /\ pc'[r] = "pending" =>
          \E q \in Active \ {r} : addr[q] = addr'[r]]_vars
=============================================================================
