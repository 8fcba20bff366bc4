--------------------------- MODULE UdpThreadProofs ---------------------------
(***************************************************************************)
(* Theorems on the listeners, for any finite set of threads, any access    *)
(* points, any datagrams and either answer of createIfNotExists.           *)
(***************************************************************************)
EXTENDS UdpThread, FiniteSetTheorems, TLAPS

(* Whoever inserts a row for an access point found none, and no row is     *)
(* there twice, as long as no two threads listen.                          *)
TwoListen == \E t, u \in Threads : t # u /\ Listener(t) /\ Listener(u)

RowsOnce ==
    ~TwoListen =>
        /\ \A a \in APs : rows[a] <= 1
        /\ \A t \in Threads : pc[t] = "insert" => rows[answer[t].ap] = 0

IInv ==
    /\ TypeOK
    /\ InstanceListens
    /\ RowsOnce

(* A finite set with two elements has a cardinality of two at least.       *)
LEMMA TwoElements ==
    ASSUME NEW S, IsFiniteSet(S), NEW x \in S, NEW y \in S, x # y
    PROVE  Cardinality(S) > 1
<1>1. Cardinality({x}) = 1 /\ IsFiniteSet({x}) /\ y \notin {x}
  BY FS_Singleton
<1>2. Cardinality({x} \cup {y}) = 2
  BY <1>1, FS_AddElement
<1>3. Cardinality({x} \cup {y}) <= Cardinality(S)
  BY FS_Subset
<1>4. Cardinality(S) \in Nat
  BY FS_CardinalityType
<1> QED BY <1>2, <1>3, <1>4

(* Moving one thread on leaves the others where they are.                  *)
LEMMA GotoMoves ==
    ASSUME TypeOK, NEW t \in Threads, NEW from, NEW to, Goto(t, from, to)
    PROVE  /\ pc[t] = from /\ pc'[t] = to
           /\ \A u \in Threads : u # t => pc'[u] = pc[u]
           /\ to \in Locations => pc' \in [Threads -> Locations]
  BY DEF Goto, TypeOK

(* A socket is held by a thread, and its buffer holds datagrams.           *)
LEMMA PortTypes ==
    ASSUME TypeOK, port # None
    PROVE  /\ port.thread \in Threads /\ port.buffer \in Seq(Datagrams)
           /\ port = [thread |-> port.thread, buffer |-> port.buffer]
  BY DEF TypeOK

(* The answer a thread works on names an access point.                     *)
LEMMA AnswerTypes ==
    ASSUME TypeOK, NEW t \in Threads, pc[t] \in Looping \ {"bind", "receive"}
    PROVE  answer[t] \in Datagrams /\ answer[t].ap \in APs
<1>1. answer[t] \in Datagrams
  BY DEF TypeOK
<1>2. answer[t] \in [params : {"few", "four", "more"}, ap : APs, number : BOOLEAN]
  BY <1>1, DatagramsAssumption DEF Datagram
<1> QED BY <1>1, <1>2

LEMMA InitIInv == Init => IInv
<1> SUFFICES ASSUME Init PROVE IInv
  OBVIOUS
<1>1. TypeOK
  BY DatagramsAssumption DEF Init, TypeOK, Locations, Looping
<1>2. InstanceListens
  BY DEF Init, InstanceListens
<1>3. RowsOnce
  BY DEF Init, RowsOnce
<1> QED BY <1>1, <1>2, <1>3 DEF IInv
-----------------------------------------------------------------------------
(* Every step keeps the variables in their ranges.                         *)
LEMMA NextTypeOK ==
    ASSUME TypeOK, [Next]_vars
    PROVE  TypeOK'
<1>1. CASE UNCHANGED vars
  BY <1>1 DEF vars, TypeOK
<1>2. ASSUME NEW t \in Threads, Start(t) \/ Enter(t) \/ Claim(t) \/ Check(t)
      PROVE  TypeOK'
  <2>1. pc' \in [Threads -> Locations]
    BY <1>2, GotoMoves DEF Start, Enter, Claim, Check, Locations, Looping
  <2>2. pc'[t] \notin Looping \ {"bind"} /\ \A u \in Threads : u # t => pc'[u] = pc[u]
    BY <1>2, GotoMoves DEF Start, Enter, Claim, Check, Looping
  <2> QED BY <1>2, <2>1, <2>2 DEF Start, Enter, Claim, Check, TypeOK
<1>3. ASSUME NEW t \in Threads, Bind(t)
      PROVE  TypeOK'
  <2>1. /\ pc' \in [Threads -> Locations] /\ pc'[t] = "receive"
        /\ \A u \in Threads : u # t => pc'[u] = pc[u]
    BY <1>3, GotoMoves DEF Bind, Locations, Looping
  <2>2. port' \in [thread : Threads, buffer : Seq(Datagrams)]
    BY <1>3 DEF Bind
  <2> QED BY <1>3, <2>1, <2>2 DEF Bind, TypeOK
<1>4. ASSUME NEW t \in Threads, Receive(t)
      PROVE  TypeOK'
  <2>1. /\ pc' \in [Threads -> Locations]
        /\ \A u \in Threads : u # t => pc'[u] = pc[u]
    BY <1>4, GotoMoves DEF Receive, Locations, Looping
  <2>2. Head(port.buffer) \in Datagrams /\ Tail(port.buffer) \in Seq(Datagrams)
    BY <1>4, PortTypes DEF Receive
  <2>3. port' \in [thread : Threads, buffer : Seq(Datagrams)]
    BY <1>4, <2>2, PortTypes DEF Receive
  <2>4. answer' \in [Threads -> Datagrams \cup {None}] /\ answer'[t] # None
    BY <1>4, <2>2, DatagramsAssumption, NoneAssumption DEF Receive, TypeOK
  <2>5. \A u \in Threads : u # t => answer'[u] = answer[u]
    BY <1>4 DEF Receive, TypeOK
  <2> QED BY <1>4, <2>1, <2>3, <2>4, <2>5 DEF Receive, TypeOK
<1>5. ASSUME NEW t \in Threads,
             \/ Select(t) \/ DatabaseFails(t) \/ Parse(t)
             \/ NoDaos(t) \/ Refuse(t) \/ Dispatch(t)
      PROVE  TypeOK'
  <2>1. /\ pc' \in [Threads -> Locations]
        /\ \A u \in Threads : u # t => pc'[u] = pc[u]
        /\ pc[t] \in Looping \ {"bind", "receive"}
    BY <1>5, GotoMoves
    DEF Select, DatabaseFails, Parse, NoDaos, Refuse, Dispatch, Locations, Looping
  <2> QED BY <1>5, <2>1
          DEF Select, DatabaseFails, Parse, NoDaos, Refuse, Dispatch, TypeOK
<1>6. ASSUME NEW t \in Threads, Insert(t)
      PROVE  TypeOK'
  <2>1. /\ pc' \in [Threads -> Locations] /\ pc[t] = "insert"
        /\ \A u \in Threads : u # t => pc'[u] = pc[u]
    BY <1>6, GotoMoves DEF Insert, Locations, Looping
  <2>2. answer[t].ap \in APs
    BY <2>1, AnswerTypes DEF Looping
  <2>3. rows' \in [APs -> Nat]
    BY <1>6, <2>2 DEF Insert, TypeOK
  <2> QED BY <1>6, <2>1, <2>3 DEF Insert, TypeOK, Looping
<1>7. ASSUME NEW t \in Threads, Store(t)
      PROVE  TypeOK'
  <2>1. /\ pc' \in [Threads -> Locations] /\ pc[t] = "store"
        /\ \A u \in Threads : u # t => pc'[u] = pc[u]
    BY <1>7, GotoMoves DEF Store, Locations, Looping
  <2> QED BY <1>7, <2>1 DEF Store, TypeOK, Looping
<1>8. ASSUME NEW d \in Datagrams, Deliver(d)
      PROVE  TypeOK'
  <2>1. port' \in [thread : Threads, buffer : Seq(Datagrams)]
    <3>1. port # None /\ port' = [port EXCEPT !.buffer = Append(@, d)]
      BY <1>8 DEF Deliver
    <3>2. port.thread \in Threads /\ Append(port.buffer, d) \in Seq(Datagrams)
      BY <3>1, PortTypes
    <3>3. port' = [thread |-> port.thread, buffer |-> Append(port.buffer, d)]
      BY <3>1, PortTypes
    <3> QED BY <3>2, <3>3
  <2>2. arrived' \in 0 .. MaxDatagrams
    BY <1>8, DatagramsAssumption DEF Deliver, TypeOK
  <2> QED BY <1>8, <2>1, <2>2 DEF Deliver, TypeOK
<1>9. CASE Finalize
  BY <1>9 DEF Finalize, TypeOK
<1> QED BY <1>1, <1>2, <1>3, <1>4, <1>5, <1>6, <1>7, <1>8, <1>9 DEF Next, Run

(* A thread that went past the instance check is past it for good, and     *)
(* only a thread that owns the instance goes past it.                      *)
LEMMA ListenersStay ==
    ASSUME TypeOK, [Next]_vars, NEW u \in Threads
    PROVE  /\ Listener(u) => Listener(u)'
           /\ Listener(u)' => Listener(u) \/ (pc[u] = "check" /\ instance = u)
           /\ pc[u] = "check" /\ instance = u => pc'[u] = "check" \/ Listener(u)'
<1>1. CASE pc' = pc
  BY <1>1 DEF Listener
<1>2. ASSUME NEW t \in Threads, Start(t) \/ Enter(t) \/ Claim(t) \/ Check(t)
      PROVE  /\ Listener(u) => Listener(u)'
             /\ Listener(u)' => Listener(u) \/ (pc[u] = "check" /\ instance = u)
             /\ pc[u] = "check" /\ instance = u => pc'[u] = "check" \/ Listener(u)'
  BY <1>2, GotoMoves
  DEF Start, Enter, Claim, Check, Listener, Looping
<1>3. ASSUME NEW t \in Threads,
             \/ Bind(t) \/ Receive(t) \/ Select(t) \/ Insert(t) \/ DatabaseFails(t)
             \/ Parse(t) \/ NoDaos(t) \/ Refuse(t) \/ Store(t) \/ Dispatch(t)
      PROVE  /\ pc[t] \in Looping /\ pc'[t] \in Looping \cup {"dead"}
             /\ \A v \in Threads : v # t => pc'[v] = pc[v]
  BY <1>3, GotoMoves
  DEF Bind, Receive, Select, Insert, DatabaseFails, Parse, NoDaos, Refuse, Store,
      Dispatch, Looping
<1>4. ASSUME NEW t \in Threads,
             \/ Bind(t) \/ Receive(t) \/ Select(t) \/ Insert(t) \/ DatabaseFails(t)
             \/ Parse(t) \/ NoDaos(t) \/ Refuse(t) \/ Store(t) \/ Dispatch(t)
      PROVE  /\ Listener(u) => Listener(u)'
             /\ Listener(u)' => Listener(u) \/ (pc[u] = "check" /\ instance = u)
             /\ pc[u] = "check" /\ instance = u => pc'[u] = "check" \/ Listener(u)'
  <2>1. "check" \notin Looping \cup {"dead"}
    BY DEF Looping
  <2> QED BY <1>3, <1>4, <2>1 DEF Listener
<1> QED BY <1>1, <1>2, <1>4 DEF Next, Run, vars, Deliver, Finalize

(* A step is one of the network's or the collector's, which leave threads, *)
(* answers and rows alone, or one of a thread.                             *)
LEMMA StepKinds ==
    ASSUME TypeOK, [Next]_vars
    PROVE  \/ UNCHANGED <<pc, instance, answer, rows, filed>>
           \/ \E t \in Threads : Start(t) \/ Run(t)
  BY DEF Next, vars, Deliver, Finalize

(* The instance is past the check or about to pass it.                     *)
LEMMA NextInstanceListens ==
    ASSUME TypeOK, InstanceListens, [Next]_vars
    PROVE  InstanceListens'
<1>1. CASE instance' = instance
  <2>1. instance # None => instance \in Threads
    BY DEF TypeOK
  <2>2. \A u \in Threads :
            (pc[u] = "check" /\ instance = u) \/ Listener(u)
              => pc'[u] = "check" \/ Listener(u)'
    BY ListenersStay
  <2> QED BY <1>1, <2>1, <2>2 DEF InstanceListens, Listener
<1>2. ASSUME NEW t \in Threads, Claim(t)
      PROVE  InstanceListens'
  <2>1. instance' = t /\ pc'[t] = "check"
    BY <1>2, GotoMoves DEF Claim
  <2> QED BY <2>1 DEF InstanceListens
<1> QED BY <1>1, <1>2, StepKinds
        DEF Run, Start, Enter, Check, Bind, Receive, Select, Insert,
            DatabaseFails, Parse, NoDaos, Refuse, Store, Dispatch

(* Two listeners stay two.                                                 *)
LEMMA TwoListenStays ==
    ASSUME TypeOK, [Next]_vars, TwoListen
    PROVE  TwoListen'
  BY ListenersStay DEF TwoListen

(* A thread alone inserts what it did not find.                            *)
LEMMA NextRowsOnce ==
    ASSUME TypeOK, RowsOnce, [Next]_vars
    PROVE  RowsOnce'
<1> SUFFICES ASSUME ~TwoListen'
    PROVE  /\ \A a \in APs : rows'[a] <= 1
           /\ \A t \in Threads : pc'[t] = "insert" => rows'[answer'[t].ap] = 0
  BY DEF RowsOnce
<1>0. /\ \A a \in APs : rows[a] <= 1
      /\ \A t \in Threads : pc[t] = "insert" => rows[answer[t].ap] = 0
  BY TwoListenStays DEF RowsOnce
<1>1. CASE UNCHANGED <<pc, answer, rows>>
  BY <1>0, <1>1
<1>2. ASSUME NEW t \in Threads, Select(t)
      PROVE  RowsOnce'
  <2>1. /\ UNCHANGED <<answer, rows>>
        /\ pc'[t] = "insert" => rows[answer[t].ap] = 0
        /\ \A u \in Threads : u # t => pc'[u] = pc[u]
    BY <1>2, GotoMoves DEF Select
  <2> QED BY <1>0, <2>1 DEF RowsOnce
<1>3. ASSUME NEW t \in Threads, Insert(t)
      PROVE  RowsOnce'
  <2>1. /\ pc[t] = "insert" /\ pc'[t] = "parse"
        /\ \A u \in Threads : u # t => pc'[u] = pc[u]
    BY <1>3, GotoMoves DEF Insert
  <2>2. \A u \in Threads : pc'[u] # "insert"
    BY <2>1 DEF TwoListen, Listener, Looping
  <2>3. answer[t].ap \in APs /\ rows[answer[t].ap] = 0
    BY <1>0, <2>1, AnswerTypes DEF Looping
  <2>4. \A a \in APs : rows'[a] <= 1
    BY <1>0, <1>3, <2>3 DEF Insert, TypeOK
  <2> QED BY <2>2, <2>4 DEF RowsOnce
<1>4. ASSUME NEW t \in Threads,
             \/ Start(t) \/ Enter(t) \/ Claim(t) \/ Check(t) \/ Bind(t) \/ Receive(t)
             \/ DatabaseFails(t) \/ Parse(t) \/ NoDaos(t) \/ Refuse(t) \/ Store(t)
             \/ Dispatch(t)
      PROVE  RowsOnce'
  <2>1. /\ rows' = rows /\ pc'[t] # "insert"
        /\ \A u \in Threads : u # t => pc'[u] = pc[u]
    BY <1>4, GotoMoves
    DEF Start, Enter, Claim, Check, Bind, Receive, DatabaseFails, Parse, NoDaos, Refuse,
        Store, Dispatch
  <2>2. \A u \in Threads : u # t => answer'[u] = answer[u]
    BY <1>4
    DEF Start, Enter, Claim, Check, Bind, Receive, DatabaseFails, Parse, NoDaos, Refuse,
        Store, Dispatch, TypeOK
  <2> QED BY <1>0, <2>1, <2>2 DEF RowsOnce
<1> QED BY <1>1, <1>2, <1>3, <1>4, StepKinds DEF Run, RowsOnce

(* The invariant holds in every state.                                     *)
LEMMA IInvAlways == Spec => []IInv
<1>1. IInv /\ [Next]_vars => IInv'
  BY NextTypeOK, NextInstanceListens, NextRowsOnce DEF IInv
<1> QED BY InitIInv, <1>1, PTL DEF Spec
-----------------------------------------------------------------------------
(* The listeners are type correct, whatever arrives (UdpThread.run).       *)
THEOREM TypeCorrect == Spec => []TypeOK
<1>1. IInv => TypeOK
  BY DEF IInv
<1> QED BY <1>1, IInvAlways, PTL

(* The thread that wrote the instance last listens or is about to pass its *)
(* check, however the unlocked reads and writes of run interleave.         *)
THEOREM SomeoneListens == Spec => []InstanceListens
<1>1. IInv => InstanceListens
  BY DEF IInv
<1> QED BY <1>1, IInvAlways, PTL

(* One thread alone never gives an access point a second row: AccessPoint  *)
(* duplicates come of the race of the instance check.                      *)
THEOREM OneListenerMakesNoDuplicates == Spec => []DuplicatesNeedTwoListeners
<1>1. IInv => DuplicatesNeedTwoListeners
  <2> SUFFICES ASSUME IInv, NEW a \in APs, rows[a] > 1
      PROVE  Cardinality({t \in Threads : Listener(t)}) > 1
    BY DEF DuplicatesNeedTwoListeners
  <2> DEFINE Ls == {t \in Threads : Listener(t)}
  <2>1. TwoListen
    BY DEF IInv, RowsOnce, TypeOK
  <2>2. IsFiniteSet(Ls)
    BY ThreadsAssumption, FS_Subset
  <2>3. \E t, u \in Ls : t # u
    BY <2>1 DEF TwoListen
  <2> HIDE DEF Ls
  <2>4. Cardinality(Ls) > 1
    BY <2>2, <2>3, TwoElements
  <2> QED BY <2>4 DEF Ls
<1> QED BY <1>1, IInvAlways, PTL

(* Once the listener is dead no thread ever listens again (UdpThread.run): *)
(* whoever comes finds the instance set and steps back.                    *)
THEOREM DeafForGood == Spec => DeafForEver
<1>1. TypeOK /\ InstanceListens /\ [Next]_vars => (Deaf => Deaf')
  <2> SUFFICES ASSUME TypeOK, InstanceListens, [Next]_vars, Deaf PROVE Deaf'
    OBVIOUS
  <2>0. instance \in Threads /\ pc[instance] = "dead"
    BY DEF Deaf, InstanceListens, Listener, TypeOK
  <2>1. CASE UNCHANGED <<pc, instance>>
    BY <2>1 DEF Deaf
  <2>2. ASSUME NEW t \in Threads, Start(t) \/ Enter(t) \/ Check(t)
        PROVE  Deaf'
    <3>1. instance' = instance /\ pc[t] # "dead"
      BY <2>2, GotoMoves DEF Start, Enter, Check
    <3>2. /\ pc'[t] \notin Looping \cup {"claim"}
          /\ \A u \in Threads : u # t => pc'[u] = pc[u]
      BY <2>0, <2>2, GotoMoves DEF Start, Enter, Check, Deaf, Looping
    <3> QED BY <2>0, <3>1, <3>2 DEF Deaf
  <2> QED BY <2>1, <2>2, StepKinds
          DEF Run, Claim, Bind, Receive, Select, Insert, DatabaseFails, Parse,
              NoDaos, Refuse, Store, Dispatch, Goto, Deaf, Looping
<1> QED BY <1>1, TypeCorrect, SomeoneListens, PTL DEF Spec, DeafForEver
=============================================================================
