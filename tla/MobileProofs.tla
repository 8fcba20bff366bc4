----------------------------- MODULE MobileProofs -----------------------------
(***************************************************************************)
(* Theorems on the Android application, for any number of activities, any  *)
(* views, any outcomes of the requests, and both executors.                *)
(***************************************************************************)
EXTENDS Mobile, FiniteSetTheorems, TLAPS

(* No task is in the queue twice.                                          *)
QueuedOnce == \A i, j \in DOMAIN queue : queue[i] = queue[j] => i = j

(* A task whose burst is on the air opened the socket that has the port.   *)
BurstHoldsPort == \A t \in Tasks : task[t] = "burst" => port = t

(* An activity that is not there yet has new tasks, and the UI thread does *)
(* nothing else while the Locate of the one on the screen goes on.         *)
MyLocate == <<"locate", act>>

LocateSettled ==
    /\ \A t \in Tasks : t[2] > act => task[t] = "new"
    /\ ui = "idle" => task[MyLocate] \in {"new"} \cup Ended

(* The cursors that are not the last one.                                  *)
Stale == shown \ {cursor}

CursorsInPlace ==
    /\ cursor # None => cursor \in shown
    /\ IF task[MyLocate] = "result" /\ ui # "getting"
       THEN \A c, d \in Stale : c = d
       ELSE Stale = {}

IInv ==
    /\ TypeOK /\ QueuedOnce
    /\ BurstHoldsPort
    /\ ModesApart
    /\ LocateSettled
    /\ CursorsInPlace
-----------------------------------------------------------------------------
(* The Locate and the Measure of the activity on the screen are tasks.     *)
LEMMA OwnTasks ==
    ASSUME NEW a \in Activities
    PROVE  /\ <<"locate", a>> \in Tasks /\ <<"measure", a>> \in Tasks
           /\ a \in Nat /\ (a < MaxActivities => a + 1 \in Activities)
  BY ActivitiesAssumption DEF Tasks, Activities

(* Appending leaves what is queued where it is.                            *)
LEMMA AppendReturns ==
    ASSUME NEW S, NEW q \in Seq(S), NEW e \in S
    PROVE  /\ Append(q, e) \in Seq(S) /\ Len(q) \in Nat
           /\ DOMAIN q = 1 .. Len(q) /\ DOMAIN Append(q, e) = 1 .. Len(q) + 1
           /\ Append(q, e)[Len(q) + 1] = e
           /\ \A i \in DOMAIN q : Append(q, e)[i] = q[i]
  OBVIOUS

(* Taking the head moves what is queued forward.                           *)
LEMMA TailReturns ==
    ASSUME NEW S, NEW q \in Seq(S), q # <<>>
    PROVE  /\ Tail(q) \in Seq(S) /\ Len(q) \in Nat \ {0}
           /\ DOMAIN q = 1 .. Len(q) /\ DOMAIN Tail(q) = 1 .. Len(q) - 1
           /\ Head(q) = q[1] /\ Head(q) \in S
           /\ \A i \in DOMAIN Tail(q) : Tail(q)[i] = q[i + 1]
  OBVIOUS

(* A task that moves leaves the others, and the process, as they are.      *)
LEMMA GotoMoves ==
    ASSUME TypeOK, NEW t \in Tasks, NEW from, NEW to, Goto(t, from, to)
    PROVE  /\ task[t] = from /\ task'[t] = to
           /\ \A u \in Tasks : u # t => task'[u] = task[u]
           /\ to \in States => task' \in [Tasks -> States]
           /\ ui # "crashed" /\ UNCHANGED <<ui, screen, serial>>
  BY DEF Goto, TypeOK

(* Executing a new task puts it last in the queue; an old one crashes.     *)
LEMMA ExecuteReturns ==
    ASSUME TypeOK, QueuedOnce, NEW t \in Tasks, NEW next, Execute(t, next)
    PROVE  /\ \/ /\ ui' = next /\ task[t] = "new" /\ task'[t] = "queued"
                 /\ \A u \in Tasks : u # t => task'[u] = task[u]
              \/ ui' = "crashed" /\ task' = task
           /\ task' \in [Tasks -> States] /\ queue' \in Seq(Tasks)
           /\ \A u \in Tasks : task'[u] = "queued" <=> \E i \in DOMAIN queue' : queue'[i] = u
           /\ QueuedOnce'
<1>1. CASE task[t] # "new"
  BY <1>1 DEF Execute, TypeOK, QueuedOnce
<1>2. CASE task[t] = "new"
  <2>1. ui' = next /\ task' = [task EXCEPT ![t] = "queued"] /\ queue' = Append(queue, t)
    BY <1>2 DEF Execute
  <2>2. /\ task'[t] = "queued" /\ \A u \in Tasks : u # t => task'[u] = task[u]
        /\ task' \in [Tasks -> States]
    BY <2>1 DEF TypeOK, States
  <2>3. queue \in Seq(Tasks)
    BY DEF TypeOK
  <2>4. /\ queue' \in Seq(Tasks) /\ Len(queue) \in Nat
        /\ DOMAIN queue = 1 .. Len(queue) /\ DOMAIN queue' = 1 .. Len(queue) + 1
        /\ queue'[Len(queue) + 1] = t
        /\ \A i \in DOMAIN queue : queue'[i] = queue[i]
    BY <2>1, <2>3, AppendReturns
  <2>5. \A i \in DOMAIN queue' : i \in DOMAIN queue \/ i = Len(queue) + 1
    BY <2>4
  <2>6. \A i \in DOMAIN queue : queue[i] # t
    BY <1>2 DEF TypeOK
  <2>7. \A u \in Tasks : task'[u] = "queued" <=> \E i \in DOMAIN queue' : queue'[i] = u
    <3>1. ASSUME NEW u \in Tasks, u # t
          PROVE  (\E i \in DOMAIN queue' : queue'[i] = u) <=> \E i \in DOMAIN queue : queue[i] = u
      BY <2>4, <2>5, <3>1
    <3>2. Len(queue) + 1 \in DOMAIN queue'
      BY <2>4
    <3> QED BY <2>2, <2>4, <3>1, <3>2 DEF TypeOK
  <2>8. QueuedOnce'
    BY <2>4, <2>5, <2>6 DEF QueuedOnce
  <2> QED BY <1>2, <2>1, <2>2, <2>4, <2>7, <2>8
<1> QED BY <1>1, <1>2

(* The task taken is in the queue no more.                                 *)
LEMMA BeginReturns ==
    ASSUME TypeOK, QueuedOnce, NEW t \in Tasks, Begin(t)
    PROVE  /\ queue' \in Seq(Tasks)
           /\ \A u \in Tasks : task'[u] = "queued" <=> \E i \in DOMAIN queue' : queue'[i] = u
           /\ QueuedOnce'
<1>1. queue \in Seq(Tasks) /\ queue # <<>> /\ queue' = Tail(queue) /\ t = Head(queue)
  BY DEF TypeOK, Begin
<1>2. /\ queue' \in Seq(Tasks) /\ Len(queue) \in Nat \ {0}
      /\ DOMAIN queue = 1 .. Len(queue) /\ DOMAIN queue' = 1 .. Len(queue) - 1
      /\ t = queue[1]
      /\ \A i \in DOMAIN queue' : queue'[i] = queue[i + 1]
  BY <1>1, TailReturns
<1>3. \A i \in DOMAIN queue' : i + 1 \in DOMAIN queue /\ i + 1 # 1 /\ 1 \in DOMAIN queue
  BY <1>2
<1>4. \A i \in DOMAIN queue : i # 1 => i - 1 \in DOMAIN queue' /\ (i - 1) + 1 = i
  BY <1>2
<1>5. \A i \in DOMAIN queue' : queue'[i] # t
  BY <1>2, <1>3 DEF QueuedOnce
<1>6. ASSUME NEW u \in Tasks, u # t
      PROVE  (\E i \in DOMAIN queue' : queue'[i] = u) <=> \E i \in DOMAIN queue : queue[i] = u
  BY <1>2, <1>3, <1>4, <1>6
<1>7. /\ task'[t] = "bind" /\ \A u \in Tasks : u # t => task'[u] = task[u]
  BY GotoMoves DEF Begin
<1>8. \A u \in Tasks : task'[u] = "queued" <=> \E i \in DOMAIN queue' : queue'[i] = u
  BY <1>5, <1>6, <1>7 DEF TypeOK
<1>9. QueuedOnce'
  <2> SUFFICES ASSUME NEW i \in DOMAIN queue', NEW j \in DOMAIN queue', queue'[i] = queue'[j]
      PROVE  i = j
    BY DEF QueuedOnce
  <2>1. i + 1 = j + 1
    BY <1>2, <1>3 DEF QueuedOnce
  <2> QED BY <1>2, <2>1
<1> QED BY <1>2, <1>8, <1>9
-----------------------------------------------------------------------------
LEMMA InitIInv == Init => IInv
<1> SUFFICES ASSUME Init PROVE IInv
  OBVIOUS
<1>1. 1 \in Activities
  BY ActivitiesAssumption DEF Activities
<1>2. MyLocate \in Tasks
  BY <1>1, OwnTasks DEF Init, MyLocate
<1>3. TypeOK
  <2>1. task \in [Tasks -> States] /\ \A t \in Tasks : task[t] # "queued"
    BY DEF Init, States
  <2>2. queue \in Seq(Tasks) /\ DOMAIN queue = {}
    BY DEF Init
  <2>3. ui \in {"idle", "getting", "crashed"} /\ act \in Activities /\ visible \subseteq Buttons
    BY <1>1 DEF Init, Buttons
  <2>4. checked \in BOOLEAN /\ serial \in BOOLEAN
    BY DEF Init
  <2> QED BY <2>1, <2>2, <2>3, <2>4 DEF Init, TypeOK
<1>4. QueuedOnce
  BY DEF Init, QueuedOnce
<1>5. BurstHoldsPort /\ ModesApart
  BY DEF Init, BurstHoldsPort, ModesApart
<1>6. LocateSettled
  BY <1>2 DEF Init, LocateSettled
<1>7. CursorsInPlace
  BY <1>2 DEF Init, CursorsInPlace, Stale
<1> QED BY <1>3, <1>4, <1>5, <1>6, <1>7 DEF IInv

(* A step of a task that is not one of the executor's queue.               *)
Works(t) == Bind(t) \/ Burst(t) \/ Exchange(t)

(* Such a task goes on to a state behind the one it was in.                *)
LEMMA WorksMoves ==
    ASSUME TypeOK, NEW t \in Tasks, Works(t)
    PROVE  /\ task[t] \in Active /\ task'[t] \in Active \cup Ended /\ task'[t] # "bind"
           /\ \A u \in Tasks : u # t => task'[u] = task[u]
           /\ task' \in [Tasks -> States]
           /\ UNCHANGED <<ui, screen, serial, queue>>
<1>1. CASE Bind(t)
  BY <1>1, GotoMoves DEF Bind, Active, Ended, States
<1>2. CASE Burst(t)
  BY <1>2, GotoMoves DEF Burst, Active, Ended, States
<1>3. CASE Exchange(t)
  BY <1>3, GotoMoves, OutcomesAssumption DEF Exchange, Active, Ended, States
<1> QED BY <1>1, <1>2, <1>3 DEF Works

(* Every step keeps the variables in their ranges, and the queue in order. *)
LEMMA NextTypeOK ==
    ASSUME TypeOK, QueuedOnce, [Next]_vars
    PROVE  TypeOK' /\ QueuedOnce'
<1>1. CASE UNCHANGED vars
  BY <1>1 DEF vars, TypeOK, QueuedOnce
<1>2. CASE onTouch \/ toggle \/ Located \/ onStart
  <2>1. ui' \in {"idle", "getting", "crashed"} /\ UNCHANGED <<act, task, queue, port, serial>>
    BY <1>2 DEF onTouch, toggle, Located, onStart, TypeOK
  <2>2. checked' \in BOOLEAN /\ visible' \subseteq Buttons
    BY <1>2 DEF onTouch, toggle, Located, onStart, TypeOK, Buttons
  <2>3. shown' \subseteq Cursors /\ cursor' \in Cursors \cup {None}
    BY <1>2 DEF onTouch, toggle, Located, onStart, TypeOK
  <2> QED BY <2>1, <2>2, <2>3 DEF TypeOK, QueuedOnce
<1>3. CASE onCreate
  <2>1. act' \in Activities
    BY <1>3, OwnTasks DEF onCreate, TypeOK
  <2> QED BY <1>3, <2>1 DEF onCreate, TypeOK, QueuedOnce, Buttons
<1>4. ASSUME NEW t \in Tasks, NEW next \in {"idle", "getting"}, Execute(t, next),
             UNCHANGED <<screen, port, serial>>
      PROVE  TypeOK' /\ QueuedOnce'
  BY <1>4, ExecuteReturns DEF screen, TypeOK
<1>5. CASE locate
  BY <1>4, <1>5, OwnTasks DEF locate, TypeOK
<1>6. CASE mesure
  <2>1. CASE ui' = "crashed" /\ UNCHANGED <<task, queue, screen, port, serial>>
    BY <2>1 DEF TypeOK, screen, QueuedOnce
  <2> QED BY <1>4, <1>6, <2>1, OwnTasks DEF mesure, TypeOK
<1>7. ASSUME NEW t \in Tasks, Begin(t)
      PROVE  TypeOK' /\ QueuedOnce'
  <2>1. task' \in [Tasks -> States] /\ UNCHANGED <<ui, screen, serial, port>>
    BY <1>7, GotoMoves DEF Begin, States
  <2> QED BY <1>7, <2>1, BeginReturns DEF TypeOK, screen
<1>8. ASSUME NEW t \in Tasks, Works(t)
      PROVE  TypeOK' /\ QueuedOnce'
  <2>1. port' \in Tasks \cup {None}
    BY <1>8 DEF Works, Bind, Burst, Exchange, TypeOK
  <2>2. task[t] # "queued" /\ task'[t] # "queued"
    BY <1>8, WorksMoves DEF Active, Ended
  <2>3. \A u \in Tasks : task'[u] = "queued" <=> \E i \in DOMAIN queue : queue[i] = u
    BY <1>8, <2>2, WorksMoves DEF TypeOK
  <2> QED BY <1>8, <2>1, <2>3, WorksMoves DEF TypeOK, screen, QueuedOnce
<1>9. CASE Finalize \/ \E t \in Tasks : Throw(t)
  BY <1>9 DEF Finalize, Throw, screen, TypeOK, QueuedOnce
<1> QED BY <1>1, <1>2, <1>3, <1>5, <1>6, <1>7, <1>8, <1>9
        DEF Next, UI, doInBackground, Works

(* The port of a burst is not given to another, nor freed.                 *)
LEMMA NextBurstHoldsPort ==
    ASSUME TypeOK, QueuedOnce, BurstHoldsPort, [Next]_vars
    PROVE  BurstHoldsPort'
<1>1. CASE UNCHANGED <<task, port>>
  BY <1>1 DEF BurstHoldsPort
<1>2. ASSUME NEW t \in Tasks, NEW next, Execute(t, next), port' = port
      PROVE  BurstHoldsPort'
  BY <1>2, ExecuteReturns DEF BurstHoldsPort
<1>3. ASSUME NEW t \in Tasks, Begin(t)
      PROVE  BurstHoldsPort'
  BY <1>3, GotoMoves DEF Begin, BurstHoldsPort
<1>4. ASSUME NEW t \in Tasks, Bind(t)
      PROVE  BurstHoldsPort'
  BY <1>4, GotoMoves, NoneAssumption DEF Bind, BurstHoldsPort
<1>5. ASSUME NEW t \in Tasks, Burst(t) \/ Exchange(t)
      PROVE  BurstHoldsPort'
  <2>1. task'[t] # "burst" /\ port' = port /\ \A u \in Tasks : u # t => task'[u] = task[u]
    BY <1>5, GotoMoves, OutcomesAssumption DEF Burst, Exchange, Ended
  <2> QED BY <2>1 DEF BurstHoldsPort
<1>6. CASE Finalize
  BY <1>6 DEF Finalize, BurstHoldsPort
<1> QED BY <1>1, <1>2, <1>3, <1>4, <1>5, <1>6, OwnTasks
        DEF Next, UI, doInBackground, vars, onTouch, toggle, locate, Located,
            mesure, onStart, onCreate, Throw, screen, TypeOK

(* Each callback shows the buttons of one mode, or fewer.                  *)
LEMMA NextModesApart ==
    ASSUME TypeOK, ModesApart, [Next]_vars
    PROVE  ModesApart'
<1>1. CASE UNCHANGED <<checked, visible>>
  BY <1>1 DEF ModesApart
<1>2. CASE toggle
  <2>1. CASE checked'
    BY <1>2, <2>1 DEF toggle, ModesApart
  <2>2. CASE ~checked'
    BY <1>2, <2>2 DEF toggle, ModesApart
  <2> QED BY <2>1, <2>2
<1>3. CASE onStart \/ onCreate
  BY <1>3 DEF onStart, onCreate, Hidden, ModesApart
<1> QED BY <1>1, <1>2, <1>3
        DEF Next, UI, doInBackground, vars, onTouch, locate, Located, mesure,
            Begin, Bind, Burst, Exchange, Throw, Finalize, Goto, screen

(* The Locate of the activity on the screen is new, or over, whenever the  *)
(* UI thread can do something.                                             *)
LEMMA NextLocateSettled ==
    ASSUME TypeOK, QueuedOnce, LocateSettled, [Next]_vars
    PROVE  LocateSettled'
<1>0. act \in Activities /\ MyLocate \in Tasks
  BY OwnTasks DEF TypeOK, MyLocate
<1>1. CASE UNCHANGED <<task, act>> /\ (ui' = "idle" => ui = "idle")
  BY <1>1 DEF LocateSettled, MyLocate
<1>2. CASE locate
  <2>1. /\ ui' # "idle" /\ act' = act
        /\ \A u \in Tasks : u # MyLocate => task'[u] = task[u]
    BY <1>0, <1>2, ExecuteReturns DEF locate, MyLocate, screen
  <2>2. act \in Nat /\ MyLocate[2] = act
    BY <1>0, OwnTasks DEF MyLocate
  <2> QED BY <2>1, <2>2 DEF LocateSettled
<1>3. CASE Located
  BY <1>3 DEF Located, LocateSettled, MyLocate
<1>4. CASE mesure
  <2>1. UNCHANGED act /\ ui = "idle"
    BY <1>4 DEF mesure, screen
  <2>2. CASE task' = task
    BY <2>1, <2>2 DEF LocateSettled, MyLocate
  <2>3. CASE Execute(<<"measure", act>>, "idle")
    <3>1. \A u \in Tasks : u # <<"measure", act>> => task'[u] = task[u]
      BY <1>0, <2>3, OwnTasks, ExecuteReturns
    <3>2. act \in Nat /\ <<"measure", act>>[2] = act /\ MyLocate # <<"measure", act>>
      BY <1>0, OwnTasks DEF MyLocate
    <3>3. MyLocate' = MyLocate
      BY <2>1 DEF MyLocate
    <3> QED BY <1>0, <2>1, <3>1, <3>2, <3>3 DEF LocateSettled
  <2> QED BY <1>4, <2>2, <2>3 DEF mesure
<1>5. CASE onCreate
  <2>1. act' = act + 1 /\ act' \in Activities /\ act \in Nat /\ task' = task
    BY <1>0, <1>5, OwnTasks DEF onCreate
  <2>2. MyLocate' \in Tasks /\ MyLocate'[2] > act
    <3>1. MyLocate' = <<"locate", act + 1>>
      BY <2>1 DEF MyLocate
    <3>2. <<"locate", act + 1>> \in Tasks
      BY <2>1, OwnTasks
    <3>3. act + 1 > act
      BY <2>1
    <3> QED BY <3>1, <3>2, <3>3
  <2>3. \A t \in Tasks : t[2] > act' => t[2] > act
    BY <2>1, ActivitiesAssumption DEF Tasks, Activities
  <2> QED BY <2>1, <2>2, <2>3 DEF LocateSettled
<1>6. ASSUME NEW t \in Tasks, Begin(t) \/ Works(t)
      PROVE  LocateSettled'
  <2>1. /\ task[t] \in {"queued"} \cup Active
        /\ \A u \in Tasks : u # t => task'[u] = task[u]
        /\ UNCHANGED <<ui, screen>>
    BY <1>6, GotoMoves, WorksMoves DEF Begin, Active
  <2>2. ui = "idle" => t # MyLocate
    BY <2>1 DEF LocateSettled, Active, Ended
  <2>3. MyLocate' = MyLocate /\ act' = act
    BY <2>1 DEF MyLocate, screen
  <2>4. ~(t[2] > act)
    BY <2>1 DEF LocateSettled, Active
  <2> QED BY <1>0, <2>1, <2>2, <2>3, <2>4 DEF LocateSettled
<1>7. CASE Finalize \/ \E t \in Tasks : Throw(t)
  BY <1>7 DEF Finalize, Throw, screen, LocateSettled, MyLocate
<1> QED BY <1>1, <1>2, <1>3, <1>4, <1>5, <1>6, <1>7
        DEF Next, UI, doInBackground, Works, vars, onTouch, toggle, onStart

(* A cursor is left behind only by the Locate that has just ended.         *)
LEMMA NextCursorsInPlace ==
    ASSUME TypeOK, QueuedOnce, LocateSettled, CursorsInPlace, [Next]_vars
    PROVE  CursorsInPlace'
<1>0. act \in Activities /\ MyLocate \in Tasks
  BY OwnTasks DEF TypeOK, MyLocate
<1>1. CASE UNCHANGED <<task, act, shown, cursor>> /\ (ui' = "getting" <=> ui = "getting")
  BY <1>1 DEF CursorsInPlace, Stale, MyLocate
<1>2. CASE onTouch
  <2>1. PICK c \in Cursors \ shown : shown' = (shown \ {cursor}) \cup {c} /\ cursor' = c
    BY <1>2 DEF onTouch
  <2>2. Stale' = Stale /\ cursor' \in shown'
    BY <2>1 DEF Stale
  <2>3. UNCHANGED <<ui, task, act>>
    BY <1>2 DEF onTouch
  <2> QED BY <2>2, <2>3 DEF CursorsInPlace, MyLocate
<1>3. CASE locate
  <2>1. /\ UNCHANGED <<act, shown, cursor>> /\ ui = "idle" /\ MyLocate' = MyLocate
    BY <1>3 DEF locate, screen, MyLocate
  <2>2. \/ ui' = "getting" /\ task[MyLocate] = "new"
        \/ ui' = "crashed" /\ task' = task
    BY <1>0, <1>3, ExecuteReturns DEF locate, MyLocate
  <2> QED BY <2>1, <2>2 DEF CursorsInPlace, Stale
<1>4. CASE Located
  <2>1. UNCHANGED <<act, task>> /\ ui = "getting" /\ MyLocate' = MyLocate /\ ui' # "getting"
    BY <1>4 DEF Located, MyLocate
  <2>2. Stale = {}
    BY <2>1 DEF CursorsInPlace
  <2>3. CASE task[MyLocate] = "result"
    <3>1. PICK c \in Cursors \ shown : shown' = shown \cup {c} /\ cursor' = c
      BY <1>4, <2>3 DEF Located, MyLocate
    <3>2. Stale' = shown /\ cursor' \in shown'
      BY <3>1 DEF Stale
    <3>3. \A c1, d1 \in shown : c1 = d1
      BY <2>2 DEF Stale
    <3> QED BY <2>1, <2>3, <3>2, <3>3 DEF CursorsInPlace
  <2>4. CASE task[MyLocate] # "result"
    <3>1. UNCHANGED <<shown, cursor>>
      BY <1>4, <2>4 DEF Located, MyLocate
    <3> QED BY <2>1, <2>2, <2>4, <3>1 DEF CursorsInPlace, Stale
  <2> QED BY <2>3, <2>4
<1>5. CASE mesure
  <2>1. UNCHANGED <<act, shown, cursor>> /\ ui = "idle" /\ MyLocate' = MyLocate
    BY <1>5 DEF mesure, screen, MyLocate
  <2>2. ui' # "getting" /\ task'[MyLocate] = task[MyLocate]
    <3>1. MyLocate # <<"measure", act>> /\ <<"measure", act>> \in Tasks
      BY <1>0, OwnTasks DEF MyLocate
    <3> QED BY <1>0, <1>5, <3>1, ExecuteReturns DEF mesure
  <2> QED BY <2>1, <2>2 DEF CursorsInPlace, Stale
<1>6. CASE onCreate
  <2>1. Stale' = {} /\ cursor' = None
    BY <1>6 DEF onCreate, Stale
  <2> QED BY <2>1 DEF CursorsInPlace
<1>7. ASSUME NEW t \in Tasks, Begin(t) \/ Works(t)
      PROVE  CursorsInPlace'
  <2>1. /\ task[t] \in {"queued"} \cup Active /\ ui # "crashed"
        /\ \A u \in Tasks : u # t => task'[u] = task[u]
        /\ UNCHANGED <<ui, screen>>
    BY <1>7, GotoMoves, WorksMoves DEF Begin, Active, Works, Bind, Burst, Exchange
  <2>2. MyLocate' = MyLocate /\ UNCHANGED <<ui, shown, cursor>>
    BY <2>1 DEF MyLocate, screen
  <2>3. t = MyLocate => ui = "getting"
    BY <2>1 DEF LocateSettled, Active, Ended, TypeOK
  <2> QED BY <1>0, <2>1, <2>2, <2>3 DEF CursorsInPlace, Stale
<1>8. ASSUME NEW t \in Tasks, Throw(t)
      PROVE  CursorsInPlace'
  <2>1. UNCHANGED <<task, act, shown, cursor>> /\ ui' = "crashed"
    BY <1>8 DEF Throw, screen
  <2>2. MyLocate' = MyLocate /\ Stale' = Stale
    BY <2>1 DEF MyLocate, Stale
  <2> QED BY <2>1, <2>2 DEF CursorsInPlace
<1> QED BY <1>1, <1>2, <1>3, <1>4, <1>5, <1>6, <1>7, <1>8
        DEF Next, UI, doInBackground, Works, vars, toggle, onStart, Finalize, screen

(* The invariant holds in every state.                                     *)
LEMMA IInvAlways == Spec => []IInv
<1>1. IInv /\ [Next]_vars => IInv'
  BY NextTypeOK, NextBurstHoldsPort, NextModesApart, NextLocateSettled, NextCursorsInPlace
  DEF IInv
<1> QED BY InitIInv, <1>1, PTL DEF Spec
-----------------------------------------------------------------------------
(* The application is type correct, and its executor's queue holds what is *)
(* queued (Main, AsyncTask).                                               *)
THEOREM TypeCorrect == Spec => []TypeOK
<1>1. IInv => TypeOK
  BY DEF IInv
<1> QED BY <1>1, IInvAlways, PTL

(* Port 1337 keeps the bursts of tasks apart, however many activities had  *)
(* their buttons pressed (doInBackground).                                 *)
THEOREM OneBurst == Spec => []BurstsApart
<1>1. IInv => BurstsApart
  BY DEF IInv, BurstHoldsPort, BurstsApart
<1> QED BY <1>1, IInvAlways, PTL

(* No sequence of callbacks shows the buttons of both modes (Main).        *)
THEOREM OneMode == Spec => []ModesApart
<1>1. IInv => ModesApart
  BY DEF IInv
<1> QED BY <1>1, IInvAlways, PTL

(* The last cursor is shown, and one stale one at most (Main.locate,       *)
(* Main.onTouch).                                                          *)
THEOREM StaleCursors == Spec => []OneStaleCursor
<1>1. IInv => OneStaleCursor
  <2> SUFFICES ASSUME IInv PROVE OneStaleCursor
    OBVIOUS
  <2>1. cursor # None => cursor \in shown
    BY DEF IInv, CursorsInPlace
  <2>2. Cardinality({}) = 0
    BY FS_EmptySet
  <2>3. CASE Stale = {}
    BY <2>1, <2>2, <2>3 DEF OneStaleCursor, Stale
  <2>4. CASE Stale # {}
    <3>1. PICK c : c \in Stale
      BY <2>4
    <3>2. task[MyLocate] = "result" /\ Stale = {c}
      BY <2>4, <3>1 DEF IInv, CursorsInPlace
    <3>3. Cardinality(Stale) = 1
      BY <3>2, FS_Singleton
    <3> QED BY <2>1, <3>2, <3>3 DEF OneStaleCursor, Stale, MyLocate
  <2> QED BY <2>3, <2>4
<1> QED BY <1>1, IInvAlways, PTL

(* A task object runs once at most, however often its button is pressed,   *)
(* and its end is not forgotten (AsyncTask.execute).                       *)
THEOREM TasksRunOnce == Spec => RunOnce
<1> DEFINE Once(t) == /\ task[t] \in Ended => task'[t] = task[t]
                      /\ task[t] # "new" => task'[t] # "new"
                      /\ task'[t] = "queued" => task[t] \in {"new", "queued"}
<1>1. IInv /\ [Next]_vars => \A t \in Tasks : Once(t)
  <2> SUFFICES ASSUME IInv, [Next]_vars PROVE \A t \in Tasks : Once(t)
    OBVIOUS
  <2>0. TypeOK /\ QueuedOnce
    BY DEF IInv
  <2>1. CASE task' = task
    BY <2>1
  <2>2. ASSUME NEW u \in Tasks, NEW next, Execute(u, next)
        PROVE  \A t \in Tasks : Once(t)
    BY <2>0, <2>2, ExecuteReturns DEF Ended
  <2>3. ASSUME NEW u \in Tasks, Begin(u) \/ Works(u)
        PROVE  \A t \in Tasks : Once(t)
    <3>1. /\ task[u] \in {"queued"} \cup Active /\ task'[u] \in Active \cup Ended
          /\ \A t \in Tasks : t # u => task'[t] = task[t]
      BY <2>0, <2>3, GotoMoves, WorksMoves DEF Begin, Active, Ended
    <3> QED BY <3>1 DEF Active, Ended
  <2>4. <<"locate", act>> \in Tasks /\ <<"measure", act>> \in Tasks
    BY <2>0, OwnTasks DEF TypeOK
  <2> QED BY <2>1, <2>2, <2>3, <2>4
          DEF Next, UI, doInBackground, Works, vars, onTouch, toggle, locate,
              Located, mesure, onStart, onCreate, Throw, Finalize
<1> QED BY <1>1, IInvAlways, PTL DEF Spec, RunOnce
===============================================================================
