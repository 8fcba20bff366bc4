------------------------------ MODULE UdpThread ------------------------------
(***************************************************************************)
(* The server's listener (server/thread/UdpThread.java): each servlet      *)
(* class has a UdpThread of its own and starts it on every request; one of *)
(* them at most should listen on port 1234 for the answers of the access   *)
(* points and file them (TempRssi, AccessPoint).                           *)
(* A socket is opened for each datagram and never closed: it keeps the     *)
(* port until the garbage collector finalises it.                          *)
(* Definitions that begin with Bad are variants with a mistake.            *)
(***************************************************************************)
EXTENDS Integers, Sequences, FiniteSets

CONSTANTS
    Threads,         (* the UdpThread objects                              *)
    Datagrams,       (* what the access points may send                    *)
    APs,             (* the access points' addresses, as the answers say   *)
    CreateOutcomes,  (* what createIfNotExists does with a class without an*)
                     (* id: the ORMLite of the repository refuses it       *)
    MaxDatagrams,    (* bound: datagrams that reach the port               *)
    None

(* The answer to a Locate or a Measure request has 4 parameters or more;   *)
(* its average may be a number or not (nan).                               *)
Datagram == [params : {"few", "four", "more"}, ap : APs, number : BOOLEAN]

ASSUME DatagramsAssumption ==
    Datagrams \subseteq Datagram /\ MaxDatagrams \in Nat
ASSUME OutcomesAssumption == CreateOutcomes \subseteq {"refused", "created"}
ASSUME NoneAssumption == None \notin Threads /\ None \notin Datagram
ASSUME ThreadsAssumption == IsFiniteSet(Threads)

VARIABLES
    pc,        (* where each thread is                                     *)
    instance,  (* the static field                                         *)
    port,      (* the socket bound to 1234, or None: its thread and the    *)
               (* datagrams in its buffer                                  *)
    answer,    (* the datagram each thread works on                        *)
    rows,      (* the number of AccessPoint rows of each address           *)
    filed,     (* the number of TempRssi rows                              *)
    daos,      (* the threads whose constructor got its DAOs; of the others*)
               (* it printed the SQLException and left daos null           *)
    arrived    (* datagrams that reached the port, for the bound only      *)

vars == <<pc, instance, port, answer, rows, filed, daos, arrived>>

Init ==
    /\ pc = [t \in Threads |-> "new"]
    /\ instance = None
    /\ port = None
    /\ answer = [t \in Threads |-> None]
    /\ rows = [a \in APs |-> 0]
    /\ filed = 0
    /\ daos \in SUBSET Threads
    /\ arrived = 0

Goto(t, from, to) == pc[t] = from /\ pc' = [pc EXCEPT ![t] = to]

(* The socket was given up when its one receive returned. *)
Garbage == port # None /\ pc[port.thread] # "receive"

-----------------------------------------------------------------------------
(* A servlet calls start: a thread that is alive is left alone, one that   *)
(* is over cannot be started again (an exception, for the servlet).        *)
Start(t) ==
    /\ Goto(t, "new", "enter")
    /\ UNCHANGED <<instance, port, answer, rows, filed, daos, arrived>>

(* The instance is not checked. *)
BadEnter(t) ==
    /\ Goto(t, "enter", "claim")
    /\ UNCHANGED <<instance, port, answer, rows, filed, daos, arrived>>

(* run: the instance is read, set, and read again, without a lock. *)
Enter(t) ==
    /\ Goto(t, "enter", IF instance = None THEN "claim" ELSE "check")
    /\ UNCHANGED <<instance, port, answer, rows, filed, daos, arrived>>

Claim(t) ==
    /\ Goto(t, "claim", "check")
    /\ instance' = t
    /\ UNCHANGED <<port, answer, rows, filed, daos, arrived>>

BadCheck(t) ==
    /\ Goto(t, "check", IF instance # t THEN "bind" ELSE "ended")
    /\ UNCHANGED <<instance, port, answer, rows, filed, daos, arrived>>

Check(t) ==
    /\ Goto(t, "check", IF instance = t THEN "bind" ELSE "ended")
    /\ UNCHANGED <<instance, port, answer, rows, filed, daos, arrived>>

(* While the port is taken the constructor throws; the loop tries again. *)
Bind(t) ==
    /\ port = None
    /\ Goto(t, "bind", "receive")
    /\ port' = [thread |-> t, buffer |-> <<>>]
    /\ UNCHANGED <<instance, answer, rows, filed, daos, arrived>>

(* What was received is not kept. *)
BadReceive(t) ==
    /\ port # None /\ port.thread = t /\ port.buffer # <<>>
    /\ port' = [port EXCEPT !.buffer = Tail(@)]
    /\ Goto(t, "receive", "select")
    /\ UNCHANGED <<instance, answer, rows, filed, daos, arrived>>

(* The first datagram of the socket is received, the socket is lost. *)
Receive(t) ==
    /\ port # None /\ port.thread = t /\ port.buffer # <<>>
    /\ answer' = [answer EXCEPT ![t] = Head(port.buffer)]
    /\ port' = [port EXCEPT !.buffer = Tail(@)]
    /\ Goto(t, "receive",
            IF Head(port.buffer).params = "few" THEN "store" ELSE "select")
    /\ UNCHANGED <<instance, rows, filed, daos, arrived>>

(* An access point is inserted each time it answers. *)
BadSelect(t) ==
    /\ Goto(t, "select", "insert")
    /\ UNCHANGED <<instance, port, answer, rows, filed, daos, arrived>>

(* AccessPoint.get: a query, and an insertion if it found none. *)
Select(t) ==
    /\ Goto(t, "select", IF rows[answer[t].ap] = 0 THEN "insert" ELSE "parse")
    /\ UNCHANGED <<instance, port, answer, rows, filed, daos, arrived>>

Insert(t) ==
    /\ Goto(t, "insert", "parse")
    /\ rows' = [rows EXCEPT ![answer[t].ap] = @ + 1]
    /\ UNCHANGED <<instance, port, answer, filed, daos, arrived>>

ToLocate(t) == answer[t].params # "more"

(* The database is locked or gone, at an access point's row or at the map  *)
(* of an answer to Measure: the exception is caught in the loop.           *)
DatabaseFails(t) ==
    /\ \/ Goto(t, "select", "bind") \/ Goto(t, "insert", "bind")
       \/ Goto(t, "dispatch", "bind") /\ ~ToLocate(t)
    /\ UNCHANGED <<instance, port, answer, rows, filed, daos, arrived>>

(* parseDouble's NumberFormatException is caught by no one. *)
Parse(t) ==
    /\ Goto(t, "parse", IF answer[t].number THEN "store" ELSE "dead")
    /\ UNCHANGED <<instance, port, answer, rows, filed, daos, arrived>>

(* Without DAOs the NullPointerException is caught by no one. *)
NoDaos(t) ==
    /\ t \notin daos
    /\ Goto(t, "store", "dead")
    /\ UNCHANGED <<instance, port, answer, rows, filed, daos, arrived>>

(* The exception leaves the loop. *)
BadRefuse(t) ==
    /\ t \in daos /\ "refused" \in CreateOutcomes
    /\ Goto(t, "store", "ended")
    /\ UNCHANGED <<instance, port, answer, rows, filed, daos, arrived>>

(* createIfNotExists(tempRssi): SQLException, caught in the loop. *)
Refuse(t) ==
    /\ t \in daos /\ "refused" \in CreateOutcomes
    /\ Goto(t, "store", "bind")
    /\ UNCHANGED <<instance, port, answer, rows, filed, daos, arrived>>

Store(t) ==
    /\ t \in daos /\ "created" \in CreateOutcomes
    /\ Goto(t, "store", "dispatch")
    /\ filed' = filed + 1
    /\ UNCHANGED <<instance, port, answer, rows, daos, arrived>>

(* What would follow ends the thread: of an answer to Measure,             *)
(* Integer.decode of a coordinate, which has a decimal point, before a     *)
(* Location or the second AccessPoint.get (Rssi.fromRequest) is reached;   *)
(* of one to Locate, Locate.get of a client that does not wait, or notify  *)
(* on a servlet without holding its monitor.                               *)
Dispatch(t) ==
    /\ Goto(t, "dispatch", "dead")
    /\ UNCHANGED <<instance, port, answer, rows, filed, daos, arrived>>

Run(t) ==
    \/ Enter(t) \/ Claim(t) \/ Check(t) \/ Bind(t) \/ Receive(t)
    \/ Select(t) \/ Insert(t) \/ DatabaseFails(t) \/ Parse(t)
    \/ NoDaos(t) \/ Refuse(t) \/ Store(t) \/ Dispatch(t)

(* A datagram reaches the socket that holds the port, in use or not. *)
Deliver(d) ==
    /\ port # None
    /\ arrived < MaxDatagrams
    /\ port' = [port EXCEPT !.buffer = Append(@, d)]
    /\ arrived' = arrived + 1
    /\ UNCHANGED <<pc, instance, answer, rows, filed, daos>>

(* The garbage collector finalises the socket, which frees the port. *)
Finalize ==
    /\ Garbage
    /\ port' = None
    /\ UNCHANGED <<pc, instance, answer, rows, filed, daos, arrived>>

Next ==
    \/ \E t \in Threads : Start(t) \/ Run(t)
    \/ \E d \in Datagrams : Deliver(d)
    \/ Finalize

Spec == Init /\ [][Next]_vars

(* Threads that can run are scheduled, and the collector runs: the loop    *)
(* allocates a buffer and an exception each time the port is taken.        *)
FairSpec == Spec /\ WF_vars(Finalize) /\ \A t \in Threads : WF_vars(Run(t))

-----------------------------------------------------------------------------
Looping == {"bind", "receive", "select", "insert", "parse", "store", "dispatch"}
Locations == {"new", "enter", "claim", "check", "ended", "dead"} \cup Looping

(* A thread went past the instance check. *)
Listener(t) == pc[t] \in Looping \cup {"dead"}

(* Every variable stays in its range (UdpThread.run).                      *)
TypeOK ==
    /\ pc \in [Threads -> Locations]
    /\ instance \in Threads \cup {None}
    /\ port \in [thread : Threads, buffer : Seq(Datagrams)] \cup {None}
    /\ answer \in [Threads -> Datagrams \cup {None}]
    /\ \A t \in Threads :
          pc[t] \in Looping \ {"bind", "receive"} => answer[t] # None
    /\ rows \in [APs -> Nat] /\ filed \in Nat /\ arrived \in 0 .. MaxDatagrams
    /\ daos \subseteq Threads

(* The instance is checked and set without a lock, but not everyone steps  *)
(* back: the thread that wrote it last passes its own check.               *)
InstanceListens ==
    instance # None => pc[instance] = "check" \/ Listener(instance)

(* An access point gets a second row only if two threads listen: one       *)
(* thread alone finds the row it inserted.                                 *)
DuplicatesNeedTwoListeners ==
    \A a \in APs : rows[a] > 1 => Cardinality({t \in Threads : Listener(t)}) > 1

(* No one listens, and everyone still to come will find instance set.      *)
Deaf ==
    /\ instance # None
    /\ \A t \in Threads : pc[t] \notin Looping \cup {"claim"}
    /\ pc[instance] # "check"

(* A listener that died (of an average that is not a number) is never      *)
(* replaced: once no one listens, no one ever will, restarts included.     *)
DeafForEver == [][Deaf => Deaf']_vars

(* A datagram that is received does not keep its thread from listening     *)
(* again, unless it kills it: the port it holds is freed in the end.       *)
ListensAgain ==
    \A t \in Threads :
        pc[t] = "select" ~> (pc[t] = "dead" \/ \E u \in Threads : pc[u] = "receive")

-----------------------------------------------------------------------------
(* What the documents of the repository say of this code, and it does not  *)
(* do.                                                                     *)

(* The report, part3.tex:184: UdpThread is used "to gather all APs         *)
(* response"; none of those that reached its socket is dropped with it.    *)
AllResponsesGathered ==
    [][port # None /\ port' = None => port.buffer = <<>>]_vars

(* The same sentence goes on: "and to fill the database with gathered      *)
(* data"; once an answer was received and read, some row is there.         *)
DatabaseIsFilled == \A t \in Threads : pc[t] = "store" /\ t \in daos ~> filed > 0
=============================================================================
