------------------------ MODULE PositioningServerProofs ------------------------
(***************************************************************************)
(* Theorems on the server, for any requests, clients, ARP tables, number   *)
(* of workers, access points and answers: its two parts behave as they do  *)
(* alone, and what follows from how they meet.                             *)
(***************************************************************************)
EXTENDS PositioningServer, TLAPS

(* What is proved of the parts.                                            *)
UProofs == INSTANCE UdpThreadProofs WITH port <- port1234
SProofs == INSTANCE ServletsProofs WITH
               pc <- req, thread <- threadState, port <- port1337

(* Where requests and listeners are.                                       *)
Places ==
    /\ req \in [S!Requests -> S!Locations]
    /\ pc \in [Threads -> U!Locations]
    /\ instance \in Threads \cup {None}

(* A thread that is past the instance check, or at it, found the instance  *)
(* set, or set it.                                                         *)
Decided == \A t \in Threads : pc[t] \notin {"new", "enter", "claim"} => instance # None

(* A request for the access points follows the start of the thread.        *)
SentAfterStart ==
    \A r \in S!Requests : req[r] \in {"bind", "send"} => pc["locate"] # "new"

IInv ==
    /\ Places
    /\ U!InstanceListens /\ Decided
    /\ SentAfterStart /\ AskedAfterStart
-----------------------------------------------------------------------------
LEMMA InitIInv == Init => IInv
<1> SUFFICES ASSUME Init PROVE IInv
  OBVIOUS
<1>1. Places
  BY DEF Init, S!Init, U!Init, Places, S!Locations, U!Locations
<1>2. U!InstanceListens /\ Decided
  BY DEF Init, U!Init, U!InstanceListens, Decided
<1>3. SentAfterStart /\ AskedAfterStart
  BY DEF Init, S!Init, SentAfterStart, AskedAfterStart
<1> QED BY <1>1, <1>2, <1>3 DEF IInv

(* A listener that moves leaves the other where it is.                     *)
LEMMA ListenerMoves ==
    ASSUME Places, NEW t \in Threads, NEW from, NEW to, U!Goto(t, from, to)
    PROVE  /\ pc[t] = from /\ pc'[t] = to
           /\ \A u \in Threads : u # t => pc'[u] = pc[u]
           /\ to \in U!Locations => pc' \in [Threads -> U!Locations]
  BY DEF U!Goto, Places

(* So does a request.                                                      *)
LEMMA RequestMoves ==
    ASSUME Places, NEW r \in S!Requests, NEW from, NEW to, S!Goto(r, from, to)
    PROVE  /\ req[r] = from /\ req'[r] = to
           /\ \A q \in S!Requests : q # r => req'[q] = req[q]
           /\ to \in S!Locations => req' \in [S!Requests -> S!Locations]
  BY DEF S!Goto, Places

(* A step is one of a listener, or leaves the listeners where they are.    *)
LEMMA ListenerSteps ==
    ASSUME [Next]_vars
    PROVE  \/ UNCHANGED <<pc, instance>>
           \/ \E t \in Threads : U!Start(t)
           \/ \E t \in Threads : U!Run(t) /\ UNCHANGED requests
<1>1. \A r \in S!Requests : S!Servlet(r) \in Threads
  BY DEF S!Servlet, Threads
<1> QED BY <1>1
        DEF Next, Step, Start, Serve, Listen, Surroundings, vars, listeners,
            U!Finalize, U!Deliver

(* What a thread does once it is past the instance check, or before it.    *)
LEMMA RunMoves ==
    ASSUME Places, NEW t \in Threads, U!Run(t)
    PROVE  /\ pc[t] \notin {"new", "ended", "dead"} /\ pc'[t] # "new"
           /\ pc' \in [Threads -> U!Locations]
           /\ \A u \in Threads : u # t => pc'[u] = pc[u]
           /\ \/ /\ pc[t] = "enter" /\ instance' = instance
                 /\ pc'[t] = "claim" \/ (pc'[t] = "check" /\ instance # None)
              \/ pc[t] = "claim" /\ pc'[t] = "check" /\ instance' = t
              \/ /\ pc[t] = "check" /\ instance' = instance
                 /\ pc'[t] = IF instance = t THEN "bind" ELSE "ended"
              \/ /\ U!Listener(t) /\ U!Listener(t)' /\ instance' = instance
                 /\ pc'[t] \notin {"new", "enter", "claim"}
<1>1. CASE U!Enter(t)
  BY <1>1, ListenerMoves DEF U!Enter, U!Locations
<1>2. CASE U!Claim(t) \/ U!Check(t)
  BY <1>2, ListenerMoves DEF U!Claim, U!Check, U!Locations, U!Looping
<1>3. CASE \/ U!Bind(t) \/ U!Receive(t) \/ U!Select(t) \/ U!Insert(t)
           \/ U!DatabaseFails(t) \/ U!Parse(t) \/ U!NoDaos(t) \/ U!Refuse(t)
           \/ U!Store(t) \/ U!Dispatch(t)
  <2>1. /\ pc[t] \in U!Looping /\ pc'[t] \in U!Looping \cup {"dead"}
        /\ pc' \in [Threads -> U!Locations] /\ instance' = instance
        /\ \A u \in Threads : u # t => pc'[u] = pc[u]
    BY <1>3, ListenerMoves
    DEF U!Bind, U!Receive, U!Select, U!Insert, U!DatabaseFails, U!Parse,
        U!NoDaos, U!Refuse, U!Store, U!Dispatch, U!Locations, U!Looping
  <2>2. pc[t] \notin {"new", "ended", "dead"} /\ pc'[t] \notin {"new", "enter", "claim"}
    BY <2>1 DEF U!Looping
  <2> QED BY <2>1, <2>2 DEF U!Listener
<1> QED BY <1>1, <1>2, <1>3 DEF U!Run

(* A request that is not about the access points does not get there.       *)
LEMMA StepMoves ==
    ASSUME Places, NEW r \in S!Requests, Step(r)
    PROVE  /\ req' \in [S!Requests -> S!Locations]
           /\ \A q \in S!Requests : q # r => req'[q] = req[q]
           /\ req'[r] \in {"bind", "send"} =>
                \/ req[r] \in {"bind", "send"}
                \/ /\ req[r] \in {"alive", "start"} /\ r \in LocateRequests
                   /\ req[r] = "alive" => threadState["locate"] = "alive"
           /\ asked' # asked => req[r] = "send"
<1>1. /\ S!Ready(r) \in S!Locations
      /\ S!Ready(r) = "bind" => r \in LocateRequests /\ S!Servlet(r) = "locate"
      /\ S!Ready(r) # "send"
  BY DEF S!Ready, S!Servlet, S!Locations, S!LocateLocations, S!MeasureLocations
<1>2. CASE S!IsAlive(r)
  <2>1. /\ S!Goto(r, "alive", IF threadState[S!Servlet(r)] = "alive" THEN S!Ready(r) ELSE "start")
        /\ asked' = asked
    BY <1>2 DEF S!IsAlive
  <2>2. "start" \in S!Locations
    BY DEF S!Locations, S!LocateLocations
  <2>3. CASE threadState[S!Servlet(r)] = "alive"
    <3>1. S!Goto(r, "alive", S!Ready(r))
      BY <2>1, <2>3
    <3> QED BY <1>1, <2>1, <2>3, <3>1, RequestMoves
  <2>4. CASE threadState[S!Servlet(r)] # "alive"
    <3>1. S!Goto(r, "alive", "start")
      BY <2>1, <2>4
    <3> QED BY <2>1, <2>2, <3>1, RequestMoves
  <2> QED BY <2>3, <2>4
<1>5. CASE S!StartThread(r)
  <2>1. /\ S!Goto(r, "start", S!Ready(r)) \/ S!Goto(r, "start", "failed")
        /\ asked' = asked
    BY <1>5 DEF S!StartThread
  <2>2. "failed" \in S!Locations
    BY DEF S!Locations, S!Answered
  <2> QED BY <1>1, <2>1, <2>2, RequestMoves
<1>3. CASE S!Admit(r) \/ S!MeasureStep(r)
  BY <1>3, RequestMoves
  DEF S!Admit, S!MeasureStep, S!Load, S!Post, S!Locations, S!LocateLocations,
      S!MeasureLocations, S!Answered
<1>4. CASE S!LocateStep(r)
  BY <1>4, RequestMoves
  DEF S!LocateStep, S!Lookup, S!LookupFails, S!Assign, S!Bind, S!Send, S!SendFails, S!Put,
      S!Locate, S!Locations, S!LocateLocations, S!Answered
<1> QED BY <1>2, <1>3, <1>4, <1>5 DEF Step, Start, Serve

(* A step leaves the requests as they are, but for the one that makes it.  *)
LEMMA RequestSteps ==
    ASSUME [Next]_vars
    PROVE  UNCHANGED <<req, asked>> \/ \E r \in S!Requests : Step(r)
  BY DEF Next, Listen, Surroundings, requests, vars, S!Finalize, S!Neighbours

LEMMA NextPlaces ==
    ASSUME Places, [Next]_vars
    PROVE  Places'
<1>1. req' \in [S!Requests -> S!Locations]
  BY RequestSteps, StepMoves DEF Places
<1>2. pc' \in [Threads -> U!Locations] /\ instance' \in Threads \cup {None}
  <2>1. CASE UNCHANGED <<pc, instance>>
    BY <2>1 DEF Places
  <2>2. ASSUME NEW t \in Threads, U!Start(t)
        PROVE  pc' \in [Threads -> U!Locations] /\ instance' \in Threads \cup {None}
    BY <2>2, ListenerMoves DEF U!Start, U!Locations, Places
  <2>3. ASSUME NEW t \in Threads, U!Run(t)
        PROVE  pc' \in [Threads -> U!Locations] /\ instance' \in Threads \cup {None}
    BY <2>3, RunMoves DEF Places
  <2> QED BY <2>1, <2>2, <2>3, ListenerSteps
<1> QED BY <1>1, <1>2 DEF Places

(* The instance is past its check, or at it.                               *)
LEMMA NextDecided ==
    ASSUME Places, U!InstanceListens, Decided, [Next]_vars
    PROVE  U!InstanceListens' /\ Decided'
<1>0. "check" \notin U!Looping \cup {"dead"} /\ "new" \notin U!Looping \cup {"dead"}
  BY DEF U!Looping
<1>1. CASE UNCHANGED <<pc, instance>>
  BY <1>1 DEF U!InstanceListens, U!Listener, Decided
<1>2. ASSUME NEW t \in Threads, U!Start(t)
      PROVE  U!InstanceListens' /\ Decided'
  <2>1. /\ pc[t] = "new" /\ pc'[t] = "enter" /\ instance' = instance
        /\ \A u \in Threads : u # t => pc'[u] = pc[u]
    BY <1>2, ListenerMoves DEF U!Start
  <2> QED BY <1>0, <2>1 DEF U!InstanceListens, U!Listener, Decided, Places
<1>3. ASSUME NEW t \in Threads, U!Run(t)
      PROVE  U!InstanceListens' /\ Decided'
  <2>0. \A u \in Threads : u # t => pc'[u] = pc[u]
    BY <1>3, RunMoves
  <2>1. CASE /\ pc[t] = "enter" /\ instance' = instance
             /\ pc'[t] = "claim" \/ (pc'[t] = "check" /\ instance # None)
    <3>1. Decided'
      BY <2>0, <2>1 DEF Decided
    <3>2. instance # None => instance # t
      BY <2>1 DEF U!InstanceListens, U!Listener, U!Looping
    <3> QED BY <2>0, <2>1, <3>1, <3>2 DEF U!InstanceListens, U!Listener, Places
  <2>2. CASE pc[t] = "claim" /\ pc'[t] = "check" /\ instance' = t
    BY <2>0, <2>2, NoneAssumption DEF U!InstanceListens, Decided
  <2>3. CASE /\ pc[t] = "check" /\ instance' = instance
             /\ pc'[t] = IF instance = t THEN "bind" ELSE "ended"
    <3>1. instance # None
      BY <2>3 DEF Decided
    <3>2. "bind" \in U!Looping
      BY DEF U!Looping
    <3> QED BY <2>0, <2>3, <3>1, <3>2 DEF U!InstanceListens, U!Listener, Decided, Places
  <2>4. CASE /\ U!Listener(t) /\ U!Listener(t)' /\ instance' = instance
             /\ pc'[t] \notin {"new", "enter", "claim"}
    <3>1. instance # None
      BY <2>4 DEF Decided, U!Listener, U!Looping
    <3> QED BY <2>0, <2>4, <3>1 DEF U!InstanceListens, U!Listener, Decided, Places
  <2> QED BY <1>3, <2>1, <2>2, <2>3, <2>4, RunMoves
<1> QED BY <1>1, <1>2, <1>3, ListenerSteps

(* A thread that was started is not new again.                             *)
LEMMA StaysStarted ==
    ASSUME Places, [Next]_vars, NEW t \in Threads, pc[t] # "new"
    PROVE  pc'[t] # "new"
<1>1. ASSUME NEW u \in Threads, U!Start(u)
      PROVE  pc'[t] # "new"
  BY <1>1, ListenerMoves DEF U!Start
<1> QED BY <1>1, RunMoves, ListenerSteps

(* Requests are sent, and access points asked, behind the start.           *)
LEMMA NextAsked ==
    ASSUME Places, SentAfterStart, AskedAfterStart, [Next]_vars
    PROVE  SentAfterStart' /\ AskedAfterStart'
<1>0. "locate" \in Threads
  BY DEF Threads
<1>1. CASE UNCHANGED <<req, asked>>
  BY <1>0, <1>1, StaysStarted DEF SentAfterStart, AskedAfterStart
<1>2. ASSUME NEW r \in S!Requests, Step(r)
      PROVE  SentAfterStart' /\ AskedAfterStart'
  <2>1. asked' # asked => pc["locate"] # "new"
    BY <1>2, StepMoves DEF SentAfterStart
  <2>2. AskedAfterStart'
    BY <1>0, <2>1, StaysStarted DEF AskedAfterStart
  <2>3. ASSUME req'[r] \in {"bind", "send"}
        PROVE  pc'["locate"] # "new"
    <3>1. CASE req[r] \in {"bind", "send"}
      BY <1>0, <3>1, StaysStarted DEF SentAfterStart
    <3>2. CASE req[r] = "alive" /\ threadState["locate"] = "alive"
      BY <1>0, <3>2, StaysStarted DEF threadState
    <3>3. CASE req[r] = "start" /\ r \in LocateRequests
      <4>1. S!Servlet(r) = "locate"
        BY <3>3 DEF S!Servlet
      <4>2. Start(r)
        <5>1. ~S!Admit(r) /\ ~S!IsAlive(r) /\ ~S!LocateStep(r) /\ ~S!MeasureStep(r)
          BY <3>3
          DEF S!Goto, S!Admit, S!IsAlive, S!LocateStep, S!Lookup, S!LookupFails, S!Assign, S!Bind,
              S!Send, S!SendFails, S!Put, S!Locate, S!MeasureStep, S!Load, S!Post
        <5> QED BY <1>2, <5>1 DEF Step, Serve
      <4>3. CASE U!Start("locate")
        BY <1>0, <4>3, ListenerMoves DEF U!Start
      <4>4. CASE pc["locate"] # "new"
        BY <1>0, <4>4, StaysStarted
      <4> QED BY <4>1, <4>2, <4>3, <4>4 DEF Start
    <3> QED BY <1>2, <2>3, <3>1, <3>2, <3>3, StepMoves
  <2>4. SentAfterStart'
    BY <1>0, <1>2, <2>3, StepMoves, StaysStarted DEF SentAfterStart
  <2> QED BY <2>2, <2>4
<1> QED BY <1>1, <1>2, RequestSteps

(* The invariant holds in every state.                                     *)
LEMMA IInvAlways == Spec => []IInv
<1>1. IInv /\ [Next]_vars => IInv'
  BY NextPlaces, NextDecided, NextAsked DEF IInv
<1> QED BY InitIInv, <1>1, PTL DEF Spec
-----------------------------------------------------------------------------
(* The listeners of the server behave as listeners do when anyone may      *)
(* start them: what is proved of UdpThread is true here (UdpThread.run).   *)
THEOREM ListenersRefined == Spec => U!Spec
<1>1. [Next]_vars => [U!Next]_(U!vars)
  <2> SUFFICES ASSUME [Next]_vars PROVE [U!Next]_(U!vars)
    OBVIOUS
  <2>1. CASE UNCHANGED listeners
    BY <2>1 DEF listeners, U!vars
  <2>2. ASSUME NEW r \in S!Requests, U!Start(S!Servlet(r))
        PROVE  U!Next
    <3>1. S!Servlet(r) \in Threads
      BY DEF S!Servlet, Threads
    <3> QED BY <2>2, <3>1 DEF U!Next
  <2>3. ASSUME NEW t \in Threads, U!Run(t)
        PROVE  U!Next
    BY <2>3 DEF U!Next
  <2>4. CASE U!Finalize \/ \E d \in Datagrams : U!Deliver(d)
    BY <2>4 DEF U!Next
  <2> QED BY <2>1, <2>2, <2>3, <2>4
          DEF Next, Step, Start, Serve, Listen, Surroundings, vars
<1>2. Init => U!Init
  BY DEF Init
<1> QED BY <1>1, <1>2, PTL DEF Spec, U!Spec

(* The requests behave as they do with threads that just end: what is      *)
(* proved of Servlets is true here (UdpThread.start).                      *)
THEOREM ServletsRefined == Spec => ImplementsServlets
<1>1. Init => S!Init
  BY DEF Init
<1>2. Places /\ [Next]_vars => [S!Next]_(S!vars)
  <2> SUFFICES ASSUME Places, [Next]_vars PROVE [S!Next]_(S!vars)
    OBVIOUS
  <2>1. ASSUME NEW r \in S!Requests, Step(r)
        PROVE  S!Next
    <3>1. UNCHANGED listeners => UNCHANGED threadState
      BY DEF listeners, threadState
    <3>2. S!Step(r)
      BY <2>1, <3>1 DEF Step, Start, Serve, S!Step
    <3> QED BY <3>2 DEF S!Next
  <2>2. ASSUME NEW t \in Threads, U!Run(t), UNCHANGED requests
        PROVE  [S!Next]_(S!vars)
    <3>1. /\ pc[t] \notin {"new", "ended", "dead"} /\ pc'[t] # "new"
          /\ \A u \in Threads : u # t => pc'[u] = pc[u]
      BY <2>2, RunMoves
    <3>2. CASE pc'[t] \in {"ended", "dead"}
      <4>1. threadState[t] = "alive" /\ threadState'[t] = "over"
        BY <3>1, <3>2 DEF threadState
      <4>2. \A u \in Threads : u # t => threadState'[u] = threadState[u]
        BY <3>1 DEF threadState
      <4>3. threadState' = [threadState EXCEPT ![t] = "over"]
        BY <4>1, <4>2 DEF threadState
      <4> QED BY <2>2, <4>1, <4>3 DEF requests, S!Next, S!ListenerEnds, Threads
    <3>3. CASE pc'[t] \notin {"ended", "dead"}
      <4>1. \A u \in Threads : threadState'[u] = threadState[u]
        BY <3>1, <3>3 DEF threadState
      <4>2. threadState' = threadState
        BY <4>1 DEF threadState
      <4> QED BY <2>2, <4>2 DEF requests, S!vars
    <3> QED BY <3>2, <3>3
  <2>3. CASE UNCHANGED requests /\ UNCHANGED pc
    BY <2>3 DEF requests, S!vars, threadState
  <2>4. CASE (S!Finalize \/ S!Neighbours) /\ UNCHANGED listeners
    BY <2>4 DEF S!Next
  <2> QED BY <2>1, <2>2, <2>3, <2>4
          DEF Next, Listen, Surroundings, vars, listeners, U!Finalize, U!Deliver
<1>3. IInv => Places
  BY DEF IInv
<1> QED BY <1>1, <1>2, <1>3, IInvAlways, PTL DEF Spec, ImplementsServlets, S!Spec

(* The thread of one servlet at least can be used, unless an answer killed *)
(* a listener (UdpThread.run).                                             *)
THEOREM OneServes == Spec => []SomeServletServes
<1>1. IInv => SomeServletServes
  <2> SUFFICES ASSUME IInv, \A t \in Threads : threadState[t] = "over"
      PROVE  \E t \in Threads : pc[t] = "dead"
    BY DEF SomeServletServes
  <2>1. \A t \in Threads : pc[t] \in {"ended", "dead"}
    BY DEF threadState
  <2>2. "locate" \in Threads
    BY DEF Threads
  <2>3. instance \in Threads
    BY <2>1, <2>2 DEF IInv, Decided, Places
  <2>4. pc[instance] = "check" \/ pc[instance] \in U!Looping \cup {"dead"}
    BY <2>3, NoneAssumption DEF IInv, U!InstanceListens, U!Listener
  <2> QED BY <2>1, <2>3, <2>4 DEF U!Looping
<1> QED BY <1>1, IInvAlways, PTL

(* The access points are asked for a client only after a listener for the  *)
(* answers was started (Locate.doGet).                                     *)
THEOREM ListenerBeforeQuestion == Spec => []AskedAfterStart
<1>1. IInv => AskedAfterStart
  BY DEF IInv
<1> QED BY <1>1, IInvAlways, PTL

(* When the listener of Measure won the instance, the requests of Locate   *)
(* that still need theirs fail, although nothing did (UdpThread.start).    *)
THEOREM TheWinnerTakesAll == Spec => WinnerTakesAll
<1> DEFINE Refused(r) ==
      req[r] \in {"alive", "start"} => req'[r] \in {"alive", "start", "failed"}
<1>1. Places /\ [Next]_vars =>
        (instance = "measure" /\ pc["locate"] = "ended" =>
            \A r \in LocateRequests : Refused(r))
  <2> SUFFICES ASSUME Places, [Next]_vars, pc["locate"] = "ended", NEW r \in LocateRequests
      PROVE  Refused(r)
    OBVIOUS
  <2>1. r \in S!Requests /\ S!Servlet(r) = "locate" /\ threadState["locate"] = "over"
    BY DEF S!Requests, S!Servlet, threadState, Threads
  <2>2. CASE req' = req
    BY <2>2
  <2>3. ASSUME NEW q \in S!Requests, Step(q), q # r
        PROVE  Refused(r)
    BY <2>1, <2>3, StepMoves
  <2>4. CASE S!IsAlive(r) \/ S!StartThread(r)
    BY <2>1, <2>4, RequestMoves DEF S!IsAlive, S!StartThread
  <2>5. CASE S!Admit(r) \/ S!LocateStep(r) \/ S!MeasureStep(r)
    BY <2>5
    DEF S!Goto, S!Admit, S!LocateStep, S!Lookup, S!LookupFails, S!Assign, S!Bind, S!Send, S!SendFails,
        S!Put, S!Locate, S!MeasureStep, S!Load, S!Post
  <2> QED BY <2>1, <2>2, <2>3, <2>4, <2>5, RequestSteps DEF Step, Start, Serve
<1>2. IInv => Places
  BY DEF IInv
<1> QED BY <1>1, <1>2, IInvAlways, PTL DEF Spec, WinnerTakesAll
-----------------------------------------------------------------------------
(* The assumptions UdpThread and Servlets make hold in the server, so that *)
(* what is proved of them can be used.                                     *)
LEMMA ListenersAssumed ==
    /\ Datagrams \subseteq UProofs!Datagram /\ MaxDatagrams \in Nat
    /\ CreateOutcomes \subseteq {"refused", "created"}
    /\ None \notin Threads /\ None \notin UProofs!Datagram
    /\ UProofs!IsFiniteSet(Threads)
<1>1. UProofs!Datagram = U!Datagram
  BY DEF UProofs!Datagram, U!Datagram
<1>2. UProofs!IsFiniteSet(Threads)
  <2> DEFINE s == <<"locate", "measure">>
  <2>1. s \in Seq(Threads)
    BY DEF Threads
  <2>2. /\ s[1] = "locate" /\ s[2] = "measure" /\ Len(s) = 2
        /\ 1 \in 1 .. 2 /\ 2 \in 1 .. 2
    OBVIOUS
  <2> QED BY <2>1, <2>2 DEF UProofs!IsFiniteSet, Threads
<1> QED BY <1>1, <1>2, DatagramsAssumption, OutcomesAssumption, NoneAssumption

LEMMA ServletsAssumed ==
    /\ LocateRequests \cap MeasureRequests = {}
    /\ None \notin SProofs!Requests /\ None \notin MACs
    /\ Client \in [SProofs!Requests -> IPs]
    /\ Workers \in Nat \ {0}
    /\ Tables \subseteq Seq(SProofs!Line)
    /\ Inside \subseteq IPs \X IPs
    /\ \A a \in IPs : <<a, a>> \in Inside
  BY RequestsAssumption, TablesAssumption
  DEF SProofs!Requests, S!Requests, SProofs!Line, S!Line

(* Both instances are of the same modules with the same variables.         *)
LEMMA SameListeners ==
    /\ U!Init <=> UProofs!Init
    /\ [U!Next]_(U!vars) <=> [UProofs!Next]_(UProofs!vars)
    /\ UProofs!TypeOK <=> U!TypeOK
<1>1. U!Init <=> UProofs!Init
  BY DEF U!Init, UProofs!Init
<1>2. U!Next <=> UProofs!Next
  BY DEF
    U!Next, UProofs!Next, U!Goto, UProofs!Goto, U!Garbage, UProofs!Garbage,
    U!Start, UProofs!Start, U!Enter, UProofs!Enter, U!Claim, UProofs!Claim,
    U!Check, UProofs!Check, U!Bind, UProofs!Bind, U!Receive, UProofs!Receive,
    U!Select, UProofs!Select, U!Insert, UProofs!Insert, U!ToLocate,
    UProofs!ToLocate, U!DatabaseFails, UProofs!DatabaseFails, U!Parse,
    UProofs!Parse, U!NoDaos, UProofs!NoDaos, U!Refuse, UProofs!Refuse, U!Store, UProofs!Store,
    U!Dispatch, UProofs!Dispatch, U!Run, UProofs!Run, U!Deliver,
    UProofs!Deliver, U!Finalize, UProofs!Finalize
<1>3. UNCHANGED U!vars <=> UNCHANGED UProofs!vars
  BY DEF U!vars, UProofs!vars
<1>4. UProofs!TypeOK <=> U!TypeOK
  BY DEF UProofs!TypeOK, U!TypeOK, UProofs!Looping, U!Looping,
         UProofs!Locations, U!Locations
<1> QED BY <1>1, <1>2, <1>3, <1>4

LEMMA SameServlets ==
    /\ S!Init <=> SProofs!Init
    /\ [S!Next]_(S!vars) <=> [SProofs!Next]_(SProofs!vars)
    /\ SProofs!TypeOK <=> S!TypeOK
<1>1. S!Init <=> SProofs!Init
  BY DEF S!Init, SProofs!Init, S!Requests, SProofs!Requests
<1>2. S!Next <=> SProofs!Next
  <2>1. S!Requests = SProofs!Requests
    BY DEF S!Requests, SProofs!Requests
  <2>2. \A table, ip : S!toMac(table, ip) = SProofs!toMac(table, ip)
    BY DEF S!toMac, SProofs!toMac
  <2>3. \A r : S!Lookup(r) <=> SProofs!Lookup(r)
    BY <2>2 DEF S!Lookup, SProofs!Lookup, S!Goto, SProofs!Goto
  <2>4. \A r : S!Admit(r) <=> SProofs!Admit(r)
    <3>1. \A A : S!Cardinality(A) = SProofs!Cardinality(A)
      BY DEF S!Cardinality, SProofs!Cardinality
    <3>2. {q \in S!Requests : req[q] \notin S!Answered \cup {"queued"}}
          = {q \in SProofs!Requests : req[q] \notin SProofs!Answered \cup {"queued"}}
      BY <2>1 DEF S!Answered, SProofs!Answered
    <3> QED BY <3>1, <3>2 DEF S!Admit, SProofs!Admit, S!Goto, SProofs!Goto
  <2>5. \A r : S!Step(r) <=> SProofs!Step(r)
    BY <2>1, <2>3, <2>4 DEF
      S!Goto, SProofs!Goto, S!Servlet, SProofs!Servlet, S!LookupFails,
      SProofs!LookupFails, S!Assign, SProofs!Assign, S!Ready, SProofs!Ready, S!IsAlive, SProofs!IsAlive,
      S!StartThread, SProofs!StartThread, S!PortTaken, SProofs!PortTaken,
      S!Bind, SProofs!Bind, S!Send, SProofs!Send, S!SendFails,
      SProofs!SendFails, S!Put, SProofs!Put, S!Locate, SProofs!Locate, S!Load,
      SProofs!Load, S!Post, SProofs!Post, S!LocateStep, SProofs!LocateStep,
      S!MeasureStep, SProofs!MeasureStep, S!Step, SProofs!Step
  <2>6. /\ \A s : S!ListenerEnds(s) <=> SProofs!ListenerEnds(s)
        /\ S!Finalize <=> SProofs!Finalize
        /\ S!Neighbours <=> SProofs!Neighbours
    BY DEF S!ListenerEnds, SProofs!ListenerEnds, S!Finalize, SProofs!Finalize,
           S!Neighbours, SProofs!Neighbours
  <2> QED BY <2>1, <2>5, <2>6 DEF S!Next, SProofs!Next
<1>3. UNCHANGED S!vars <=> UNCHANGED SProofs!vars
  BY DEF S!vars, SProofs!vars
<1>4. SProofs!TypeOK <=> S!TypeOK
  BY DEF
    S!TypeOK, SProofs!TypeOK, S!Requests, SProofs!Requests, S!Address,
    SProofs!Address, S!Answered, SProofs!Answered, S!Locations,
    SProofs!Locations, S!LocateLocations, SProofs!LocateLocations,
    S!MeasureLocations, SProofs!MeasureLocations
<1> QED BY <1>1, <1>2, <1>3, <1>4

(* The server is type correct: each of its parts is, whatever the other    *)
(* does (Locate, Measure, UdpThread.run).                                  *)
THEOREM ServerTypeCorrect == Spec => []TypeOK
<1>1. Spec => []U!TypeOK
  <2>1. UProofs!Spec => []UProofs!TypeOK
    BY ListenersAssumed, UProofs!TypeCorrect, PTL DEF UProofs!TypeCorrect
  <2> QED BY <2>1, ListenersRefined, SameListeners, PTL DEF U!Spec, UProofs!Spec
<1>2. Spec => []S!TypeOK
  <2>1. SProofs!Spec => []SProofs!TypeOK
    BY ServletsAssumed, SProofs!TypeCorrect, PTL DEF SProofs!TypeCorrect
  <2> QED BY <2>1, ServletsRefined, SameServlets, PTL
          DEF ImplementsServlets, S!Spec, SProofs!Spec
<1> QED BY <1>1, <1>2, PTL DEF TypeOK

(* What is proved of each part alone is true of the server: a listener     *)
(* gives no access point a second row on its own and is never replaced     *)
(* once it is dead; a listed client was asked for, Measure's port ends     *)
(* Locate's requests, so does a listener that is over, and requests that   *)
(* do not overlap, with no address inside another, are answered each for   *)
(* its own client.                                                         *)
THEOREM PartsKeepTheirPromises ==
    Spec => /\ []U!DuplicatesNeedTwoListeners /\ U!DeafForEver
            /\ []S!ListedWereAsked
            /\ S!MeasureStarvesLocate /\ S!UnheardForEver
            /\ S!AloneLocatesOwn
<1>1. Spec => UProofs!Spec /\ SProofs!Spec
  BY ListenersRefined, ServletsRefined, SameListeners, SameServlets, PTL
  DEF ImplementsServlets, U!Spec, UProofs!Spec, S!Spec, SProofs!Spec
<1>2. UProofs!Spec => []U!DuplicatesNeedTwoListeners
  <2>1. UProofs!Spec => []UProofs!DuplicatesNeedTwoListeners
    BY ListenersAssumed, UProofs!OneListenerMakesNoDuplicates, PTL
    DEF UProofs!OneListenerMakesNoDuplicates
  <2>2. \A A : UProofs!Cardinality(A) = U!Cardinality(A)
    BY DEF UProofs!Cardinality, U!Cardinality
  <2>3. {t \in Threads : UProofs!Listener(t)} = {t \in Threads : U!Listener(t)}
    BY DEF UProofs!Listener, U!Listener, UProofs!Looping, U!Looping
  <2>4. UProofs!DuplicatesNeedTwoListeners => U!DuplicatesNeedTwoListeners
    BY <2>2, <2>3
    DEF UProofs!DuplicatesNeedTwoListeners, U!DuplicatesNeedTwoListeners
  <2> QED BY <2>1, <2>4, PTL
<1>3. UProofs!Spec => U!DeafForEver
  <2>1. UProofs!Spec => UProofs!DeafForEver
    BY ListenersAssumed, UProofs!DeafForGood, PTL DEF UProofs!DeafForGood
  <2>2. [UProofs!Deaf => UProofs!Deaf']_(UProofs!vars) => [U!Deaf => U!Deaf']_(U!vars)
    BY DEF UProofs!Deaf, U!Deaf, UProofs!Looping, U!Looping, UProofs!vars, U!vars
  <2> QED BY <2>1, <2>2, PTL DEF UProofs!DeafForEver, U!DeafForEver
<1>4. SProofs!Spec => []S!ListedWereAsked
  <2>1. SProofs!Spec => []SProofs!ListedWereAsked
    BY ServletsAssumed, SProofs!OnlyAskedListed, PTL DEF SProofs!OnlyAskedListed
  <2>2. SProofs!ListedWereAsked => S!ListedWereAsked
    BY DEF SProofs!ListedWereAsked, S!ListedWereAsked
  <2> QED BY <2>1, <2>2, PTL
<1>5. SProofs!Spec => S!MeasureStarvesLocate
  <2>1. SProofs!Spec => SProofs!MeasureStarvesLocate
    BY ServletsAssumed, SProofs!Starvation, PTL DEF SProofs!Starvation
  <2>2. [socket = "bound" => asked' = asked]_(SProofs!vars)
          => [socket = "bound" => asked' = asked]_(S!vars)
    BY DEF SProofs!vars, S!vars
  <2> QED BY <2>1, <2>2, PTL DEF SProofs!MeasureStarvesLocate, S!MeasureStarvesLocate
<1>6. SProofs!Spec => S!UnheardForEver
  <2>1. SProofs!Spec => SProofs!UnheardForEver
    BY ServletsAssumed, SProofs!UnheardStays, PTL DEF SProofs!UnheardStays
  <2>2. [SProofs!Unheard => SProofs!Unheard' /\ asked' = asked]_(SProofs!vars)
          => [S!Unheard => S!Unheard' /\ asked' = asked]_(S!vars)
    BY DEF SProofs!Unheard, S!Unheard, SProofs!vars, S!vars
  <2> QED BY <2>1, <2>2, PTL DEF SProofs!UnheardForEver, S!UnheardForEver
<1>7. SProofs!Spec => S!AloneLocatesOwn
  <2>1. SProofs!Spec => SProofs!AloneLocatesOwn
    BY ServletsAssumed, SProofs!AloneIsSafe, PTL DEF SProofs!AloneIsSafe
  <2>2. SProofs!Active = S!Active
    BY DEF SProofs!Active, S!Active, SProofs!LocateLocations, S!LocateLocations
  <2>3. S!Alone /\ S!Unambiguous => SProofs!Alone /\ SProofs!Unambiguous
    BY <2>2 DEF SProofs!Alone, S!Alone, SProofs!Unambiguous, S!Unambiguous
  <2>4. SProofs!OwnQuery => S!OwnQuery
    BY DEF SProofs!OwnQuery, S!OwnQuery
  <2>5. S!Leased => SProofs!Leased
    BY DEF SProofs!Leased, S!Leased
  <2> QED BY <2>1, <2>3, <2>4, <2>5, PTL DEF SProofs!AloneLocatesOwn, S!AloneLocatesOwn
<1> QED BY <1>1, <1>2, <1>3, <1>4, <1>5, <1>6, <1>7, PTL
================================================================================
