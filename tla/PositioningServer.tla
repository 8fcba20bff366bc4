-------------------------- MODULE PositioningServer --------------------------
(***************************************************************************)
(* The positioning server: the requests of both servlets (Servlets) and    *)
(* the listeners they start (UdpThread).  A request sees of a listener     *)
(* only whether its thread is new, alive or over; a listener sees nothing  *)
(* of the requests.  They meet in Thread.start.                            *)
(* Definitions that begin with Bad are variants with a mistake.            *)
(***************************************************************************)
EXTENDS Integers, Sequences, FiniteSets

CONSTANTS
    LocateRequests, MeasureRequests, IPs, MACs, Client, Inside, Tables, Workers,
    Datagrams, APs, CreateOutcomes, MaxDatagrams, None

Threads == {"locate", "measure"}  (* the UdpThread of each servlet class *)

ASSUME NoneAssumption == None \notin Threads

VARIABLES
    req, addr, mac, waitList, port1337, socket, asked, arp,      (* Servlets  *)
    pc, instance, port1234, answer, rows, filed, daos, arrived   (* UdpThread *)

requests == <<req, addr, mac, waitList, port1337, socket, asked, arp>>
listeners == <<pc, instance, port1234, answer, rows, filed, daos, arrived>>
vars == <<requests, listeners>>

(* What Thread.isAlive and Thread.start tell of each thread. *)
threadState ==
    [t \in Threads |-> CASE pc[t] = "new" -> "new"
                         [] pc[t] \in {"ended", "dead"} -> "over"
                         [] OTHER -> "alive"]

S == INSTANCE Servlets WITH pc <- req, thread <- threadState, port <- port1337
U == INSTANCE UdpThread WITH port <- port1234

ASSUME RequestsAssumption ==
    /\ LocateRequests \cap MeasureRequests = {}
    /\ None \notin S!Requests /\ None \notin MACs
    /\ Client \in [S!Requests -> IPs]
    /\ Workers \in Nat \ {0}
ASSUME TablesAssumption ==
    /\ Tables \subseteq Seq(S!Line)
    /\ Inside \subseteq IPs \X IPs
    /\ \A a \in IPs : <<a, a>> \in Inside
ASSUME DatagramsAssumption ==
    /\ Datagrams \subseteq U!Datagram /\ None \notin U!Datagram
    /\ MaxDatagrams \in Nat
ASSUME OutcomesAssumption == CreateOutcomes \subseteq {"refused", "created"}

Init == U!Init /\ S!Init

(* The request goes on to its work whether it started the thread or not. *)
BadStart(r) ==
    /\ UNCHANGED listeners
    /\ S!Goto(r, "start", S!Ready(r))
    /\ UNCHANGED <<addr, mac, waitList, port1337, socket, asked, arp>>

(* A request starts the thread of its servlet, or fails. *)
Start(r) ==
    /\ U!Start(S!Servlet(r)) \/ (pc[S!Servlet(r)] # "new" /\ UNCHANGED listeners)
    /\ S!StartThread(r)

(* Any other step of a request. *)
Serve(r) ==
    /\ UNCHANGED listeners
    /\ S!Admit(r) \/ S!IsAlive(r) \/ S!LocateStep(r) \/ S!MeasureStep(r)

Step(r) == Start(r) \/ Serve(r)

Listen(t) == U!Run(t) /\ UNCHANGED requests

(* The network, the neighbours and the collector. *)
Surroundings ==
    \/ UNCHANGED listeners /\ (S!Finalize \/ S!Neighbours)
    \/ UNCHANGED requests /\ (U!Finalize \/ \E d \in Datagrams : U!Deliver(d))

Next ==
    \/ \E r \in S!Requests : Step(r)
    \/ \E t \in Threads : Listen(t)
    \/ Surroundings

Spec == Init /\ [][Next]_vars

(* Worker threads and listeners are scheduled. *)
FairSpec ==
    /\ Spec
    /\ \A r \in S!Requests : WF_vars(Step(r))
    /\ \A t \in Threads : WF_vars(Listen(t))

-----------------------------------------------------------------------------
(* Every variable of both parts stays in its range.                        *)
TypeOK == S!TypeOK /\ U!TypeOK

(* The requests cannot tell these listeners from threads that just end at  *)
(* some time: all that is true of Servlets is true of this server.         *)
ImplementsServlets == S!Spec

(* A thread that steps back at the instance check leaves a listener, or    *)
(* one that is past its own check: unless an answer killed a listener, one *)
(* servlet at least can still start or use its thread (UdpThread.run).     *)
SomeServletServes ==
    (\A t \in Threads : threadState[t] = "over") => \E t \in Threads : pc[t] = "dead"

(* The access points are asked for a client only after a listener for the  *)
(* answers was started (Locate.doGet); it may have given up since.         *)
AskedAfterStart == asked # {} => pc["locate"] # "new"

(* A servlet that was used wakes a listener: its own thread or another's.  *)
(* goes past the instance check (UdpThread.start, run).                    *)
UseWakesListener ==
    (\E r \in S!Requests : req[r] = "start") ~> \E t \in Threads : U!Listener(t)

(* The thread of one servlet that listens is the end of the other's: once  *)
(* it stepped back, no request of Locate that is not past start reaches an *)
(* access point, although nothing failed (UdpThread.start, run).           *)
WinnerTakesAll ==
    [][instance = "measure" /\ pc["locate"] = "ended" =>
          \A r \in LocateRequests :
             req[r] \in {"alive", "start"} => req'[r] \in {"alive", "start", "failed"}]_vars
=============================================================================
