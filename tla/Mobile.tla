-------------------------------- MODULE Mobile --------------------------------
(***************************************************************************)
(* The Android application (mobile/ui/Main.java, mobile/net/Locate.java,   *)
(* Measure.java): one process, its UI thread, and the two AsyncTasks of    *)
(* each activity, which broadcast a burst from port 1337 and then ask the  *)
(* server.  A task object can be executed once; a new activity (onCreate)  *)
(* has new ones.  Whether tasks run one by one depends on the Android      *)
(* version.  cancel does nothing.  A process that crashed, when started    *)
(* again, is at Init.                                                      *)
(* Definitions that begin with Bad are variants with a mistake.            *)
(***************************************************************************)
EXTENDS Integers, Sequences, FiniteSets

CONSTANTS
    MaxActivities,  (* bound: activities of one process                    *)
    Cursors,        (* the views a cursor can be                           *)
    Casts,          (* what the cast in mesure does: with the layout of the*)
                    (* repository (main.xml) it is refused                 *)
    Outcomes,       (* what an HTTP exchange ends in: Android refuses its  *)
                    (* output stream (null); the server's answers cannot be*)
                    (* parsed (threw); a position in integers (result)     *)
    None

Activities == 1 .. MaxActivities
Tasks == {"locate", "measure"} \X Activities
States == {"new", "queued", "bind", "burst", "exchange", "null", "threw", "result"}
Active == {"bind", "burst", "exchange"}
Ended == {"null", "threw", "result"}
Buttons == {"locate", "cancel", "mesure"}

ASSUME ActivitiesAssumption == MaxActivities \in Nat \ {0}
ASSUME NoneAssumption == None \notin Cursors \cup Tasks
ASSUME OutcomesAssumption ==
    Outcomes \subseteq Ended /\ Casts \subseteq {"refused", "accepted"}

VARIABLES
    ui,       (* the UI thread: idle, getting (waiting in get), or crashed *)
    act,      (* the activity on the screen                                *)
    checked,  (* the toggle button                                         *)
    visible,  (* the buttons that are shown                                *)
    shown,    (* the cursors in the layout                                 *)
    cursor,   (* the field cursor                                          *)
    task,     (* the state of each AsyncTask                               *)
    queue,    (* those that wait for a thread                              *)
    port,     (* the task that opened the socket bound to 1337             *)
    serial    (* the executor runs one task at a time                      *)

screen == <<act, checked, visible, shown, cursor>>
vars == <<ui, act, checked, visible, shown, cursor, task, queue, port, serial>>

Init ==
    /\ ui = "idle" /\ act = 1
    /\ checked = FALSE /\ visible = {"locate"}
    /\ shown = {} /\ cursor = None
    /\ task = [t \in Tasks |-> "new"]
    /\ queue = <<>> /\ port = None
    /\ serial \in BOOLEAN

-----------------------------------------------------------------------------
(* The UI thread.                                                          *)

(* The cursor is taken out of the linear layout, which does not hold it.   *)
BadonTouch ==
    /\ ui = "idle"
    /\ \E c \in Cursors \ shown : shown' = shown \cup {c} /\ cursor' = c
    /\ UNCHANGED <<ui, act, checked, visible, task, queue, port, serial>>

(* The cursor is taken away, and a new one put where the touch was.        *)
onTouch ==
    /\ ui = "idle"
    /\ \E c \in Cursors \ shown : shown' = (shown \ {cursor}) \cup {c} /\ cursor' = c
    /\ UNCHANGED <<ui, act, checked, visible, task, queue, port, serial>>

toggle ==
    /\ ui = "idle"
    /\ checked' = ~checked
    /\ visible' = IF checked' THEN {"cancel", "mesure"} ELSE {"locate"}
    /\ UNCHANGED <<ui, act, shown, cursor, task, queue, port, serial>>

(* A task object is executed again. *)
BadExecute(t, next) ==
    /\ ui' = next
    /\ task' = [task EXCEPT ![t] = "queued"]
    /\ queue' = Append(queue, t)

(* AsyncTask.execute: IllegalStateException, which nobody catches, unless  *)
(* the object is new.                                                      *)
Execute(t, next) ==
    IF task[t] = "new"
    THEN /\ ui' = next
         /\ task' = [task EXCEPT ![t] = "queued"]
         /\ queue' = Append(queue, t)
    ELSE ui' = "crashed" /\ UNCHANGED <<task, queue>>

(* The button calls execute and get: the UI thread waits for the task.     *)
locate ==
    /\ ui = "idle" /\ "locate" \in visible
    /\ Execute(<<"locate", act>>, "getting")
    /\ UNCHANGED <<screen, port, serial>>

(* Null is told from an array. *)
BadIndexable(result) == TRUE

(* What get returned is an array, of two nulls after an ExecutionException.*)
Indexable(result) == result # "null"

(* get returns; the result is indexed, and if it is a position a cursor is *)
(* added.  The one before it is removed from a layout it is not in.        *)
Located ==
    LET result == task[<<"locate", act>>]
    IN  /\ ui = "getting" /\ result \in Ended
        /\ ui' = IF Indexable(result) THEN "idle" ELSE "crashed"
        /\ IF result = "result"
           THEN \E c \in Cursors \ shown : shown' = shown \cup {c} /\ cursor' = c
           ELSE UNCHANGED <<shown, cursor>>
        /\ UNCHANGED <<act, checked, visible, task, queue, port, serial>>

(* The arguments are cast before execute is called. *)
mesure ==
    /\ ui = "idle" /\ "mesure" \in visible
    /\ \/ /\ "refused" \in Casts
          /\ ui' = "crashed" /\ UNCHANGED <<task, queue>>
       \/ "accepted" \in Casts /\ Execute(<<"measure", act>>, "idle")
    /\ UNCHANGED <<screen, port, serial>>

(* The buttons of the other mode are not hidden. *)
BadHidden == {}

(* What onStart hides, whatever the toggle button shows.                   *)
Hidden == {"cancel", "mesure"}

(* The activity was out of sight, and comes back.                          *)
onStart ==
    /\ ui = "idle"
    /\ visible' = visible \ Hidden
    /\ UNCHANGED <<ui, act, checked, shown, cursor, task, queue, port, serial>>

(* A new activity in the same process, with all buttons, of which onStart  *)
(* hides two: after a rotation the toggle button is restored then, after   *)
(* a new launch it is not.  Tasks of the old activity go on.               *)
onCreate ==
    /\ ui = "idle" /\ act < MaxActivities
    /\ act' = act + 1
    /\ checked' \in {checked, FALSE}
    /\ visible' = Buttons \ Hidden
    /\ shown' = {} /\ cursor' = None
    /\ UNCHANGED <<ui, task, queue, port, serial>>

UI == onTouch \/ toggle \/ locate \/ Located \/ mesure \/ onStart \/ onCreate

-----------------------------------------------------------------------------
(* The tasks.                                                              *)

Goto(t, from, to) ==
    /\ ui # "crashed" /\ task[t] = from
    /\ task' = [task EXCEPT ![t] = to]
    /\ UNCHANGED <<ui, screen, serial>>

(* The task is left in the queue. *)
BadBegin(t) ==
    /\ queue # <<>> /\ t = Head(queue)
    /\ serial => \A u \in Tasks : task[u] \notin Active
    /\ Goto(t, "queued", "bind")
    /\ UNCHANGED <<queue, port>>

(* A thread of the executor takes the task. *)
Begin(t) ==
    /\ queue # <<>> /\ t = Head(queue)
    /\ serial => \A u \in Tasks : task[u] \notin Active
    /\ Goto(t, "queued", "bind")
    /\ queue' = Tail(queue)
    /\ UNCHANGED port

(* Tasks share the port. *)
BadBind(t) ==
    /\ Goto(t, "bind", "burst")
    /\ port' = t
    /\ UNCHANGED queue

(* The task waits for the port. *)
BadBindWaits(t) ==
    /\ port = None
    /\ Goto(t, "bind", "burst")
    /\ port' = t
    /\ UNCHANGED queue

(* new DatagramSocket(1337): a port that is taken is an IOException, which *)
(* doInBackground turns into null.                                         *)
Bind(t) ==
    /\ Goto(t, "bind", IF port = None THEN "burst" ELSE "null")
    /\ port' = IF port = None THEN t ELSE port
    /\ UNCHANGED queue

(* Half a second of broadcasts, or one that cannot be sent.  The socket is *)
(* not closed.                                                             *)
Burst(t) ==
    /\ Goto(t, "burst", "exchange") \/ Goto(t, "burst", "null")
    /\ UNCHANGED <<queue, port>>

(* The request is made, the answer read and parsed.                        *)
Exchange(t) ==
    /\ \E outcome \in Outcomes : Goto(t, "exchange", outcome)
    /\ UNCHANGED <<queue, port>>

(* An exception other than IOException: after get has returned it, the     *)
(* thread of the executor throws it too, which ends the process.           *)
Throw(t) ==
    /\ ui # "crashed" /\ task[t] = "threw"
    /\ ui' = "crashed"
    /\ UNCHANGED <<screen, task, queue, port, serial>>

doInBackground(t) == Begin(t) \/ Bind(t) \/ Burst(t) \/ Exchange(t) \/ Throw(t)

(* The collector finalises the socket of a task that is past its burst.    *)
Finalize ==
    /\ ui # "crashed" /\ port # None /\ task[port] # "burst"
    /\ port' = None
    /\ UNCHANGED <<ui, screen, task, queue, serial>>

Next == UI \/ (\E t \in Tasks : doInBackground(t)) \/ Finalize

Spec == Init /\ [][Next]_vars

(* Threads are scheduled and a burst has a timed end.  An exchange need    *)
(* not end: neither task sets a timeout on its connection                  *)
(* (net/Locate.java:49-55), and the server may never answer, as when its   *)
(* workers all spin (servlets/Measure.java:72).                            *)
FairSpec ==
    /\ Spec
    /\ WF_vars(Located)
    /\ \A t \in Tasks :
          WF_vars(Begin(t)) /\ WF_vars(Bind(t)) /\ WF_vars(Burst(t)) /\ WF_vars(Throw(t))

-----------------------------------------------------------------------------
(* Every variable stays in its range, and the queue holds what is queued.  *)
TypeOK ==
    /\ ui \in {"idle", "getting", "crashed"}
    /\ act \in Activities
    /\ checked \in BOOLEAN /\ visible \subseteq Buttons
    /\ shown \subseteq Cursors /\ cursor \in Cursors \cup {None}
    /\ task \in [Tasks -> States]
    /\ queue \in Seq(Tasks)
    /\ \A t \in Tasks : task[t] = "queued" <=> \E i \in DOMAIN queue : queue[i] = t
    /\ port \in Tasks \cup {None}
    /\ serial \in BOOLEAN

(* The last cursor is on the screen, and one stale cursor at most: locate  *)
(* leaves one behind, and can do so once, since its task runs once         *)
(* (Main.locate, Main.onTouch).                                            *)
OneStaleCursor ==
    /\ cursor # None => cursor \in shown
    /\ Cardinality(shown \ {cursor})
         <= IF task[<<"locate", act>>] = "result" THEN 1 ELSE 0

(* The access points never hear the bursts of two tasks at a time, however *)
(* many activities had their buttons pressed (doInBackground).             *)
BurstsApart == \A t, u \in Tasks : task[t] = "burst" /\ task[u] = "burst" => t = u

(* The buttons of the two modes are never shown together, and those of the *)
(* measure mode never without its mode, whatever activities come and go    *)
(* (Main.onStart, Main.toggle).                                            *)
ModesApart == "mesure" \in visible => checked /\ "locate" \notin visible

(* What a task ended in stays, as does its past: pressing a button twice   *)
(* never runs a task, nor its burst, again (AsyncTask.execute).            *)
RunOnce ==
    [][\A t \in Tasks :
          /\ task[t] \in Ended => task'[t] = task[t]
          /\ task[t] # "new" => task'[t] # "new"
          /\ task'[t] = "queued" => task[t] \in {"new", "queued"}]_vars

(* A screen that stays frozen waits for the server: if get never returns,  *)
(* some exchange never ends, that of the Locate it waits for or, where     *)
(* tasks run one by one, of a task before it.  Nothing else, the port, the *)
(* queue or tasks of old activities, keeps it for ever (Main.locate,       *)
(* doInBackground).                                                        *)
LocateReturns ==
    <>[](ui = "getting") =>
        \E t \in Tasks : <>[](task[t] = "exchange" /\ (serial \/ t = <<"locate", act>>))

(* No failure is survived: when a Locate, of any activity, could not ask   *)
(* the server, or any task could not read the answer, the process ends     *)
(* (Main.locate, doInBackground).                                          *)
FailuresAreFatal ==
    \A t \in Tasks :
        task[t] = "threw" \/ (t[1] = "locate" /\ task[t] = "null") ~> ui = "crashed"
=============================================================================
