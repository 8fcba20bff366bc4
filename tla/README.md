# WiPoS: specifications, checks and proofs

WiPoS locates a WiFi terminal. Access points (OpenWrt routers running a C
program) listen to the air and remember how strongly they heard each station;
a Java servlet container (the positioning server) asks them for the average
strength of a client and looks for the nearest position measured before; an
Android application sends broadcast packets to be heard, and asks the server.
This directory holds TLA+ modules of that system, TLC configurations that check
them and proofs for TLAPS. Source paths below are relative to `src/`.

## 1. Inventory

### Access point (`router/src`, `router/include`)

| Component | State | Operations | Correct if |
|---|---|---|---|
| device list, `rssi/RSSI_list.c` | singly linked list of devices, each with a list of dated samples | `is_known`, `add_device`, `add_rssi_sample`, `delete_outdate(d)`, `average` | one entry per station; samples under their own station; what is outdated goes, what is not stays |
| `rssi_thread`, `rssi/rssi.c` | the list `l`, the pcap handle | capture a frame, filter it, file its strength, expire | the list stays sound whatever is heard; expiry happens although it is driven by traffic |
| `socket_thread`, `socket/socket.c` | a UDP socket | receive, `parse`, `average`, `display`, reply | answers what was asked; survives its datagrams and the other thread |
| process, `main.c` | both threads, sharing `l` without a lock | `pthread_create`, `pthread_join` | no thread sees memory that is freed or not initialised |

Hard here: two threads over pointers without a lock, nodes linked before they
are initialised and freed while they may be in use; expiry that stops at the
first recent sample; the pointer `add_device` returns.

### Positioning server (`server/src/fr/utbm/lo53/wipos/server`)

| Component | State | Operations | Correct if |
|---|---|---|---|
| `UdpThread` (listener) | static `instance`, a socket on port 1234, DAOs | `start`, `run` (receive, file, notify) | exactly one listens, for as long as the server runs; every answer is filed |
| `UdpThread.send` | a socket on port 1337 | `send` | every request reaches the access points |
| `servlets/Locate` | static `waitList`, field `mac`, its `UdpThread` | `doGet`, `locate` | every request is answered, for its own client |
| `servlets/Measure` | static socket on port 1337, its `UdpThread` | `doGet` | answers OK; leaves Locate alone |
| `Common.toMac` | reads `/proc/net/arp` | look up an address | the client's own address |
| `logic/*` | rows of an SQLite database (ORMLite) | `AccessPoint.get`, `fromRequest` | one row per access point |

Hard here: every request has its own thread while all requests of a servlet
class share one object; check and set of `instance` and of `waitList` are not
atomic; sockets are never closed, so a port is free again only after the
garbage collector ran; exceptions end the listener for good; a wait with a
timeout; the two servlets and the two `UdpThread`s compete for two ports.

### Android application (`mobile/src/fr/utbm/lo53/wipos/mobile`)

`ui/Main.java` (modes, cursor, buttons), `net/Locate.java` and
`net/Measure.java` (tasks that broadcast for half a second from a socket bound
to port 1337, never closed, and then make an HTTP request), `Common.java`
(names and addresses). Correct if each press of a button ends in a result or a
message and leaves the application able to serve the next one. Hard: a task
object runs once only, the socket of the last task stays bound, a result that is
null, a UI thread that waits, activities that come and go under running tasks.

### How they interact

```
 Android --broadcasts (radio)--> rssi_thread --list l--> socket_thread
 Android --HTTP--> Locate, Measure --UDP 1337/1234--> socket_thread (1337)
 socket_thread --UDP 1337--> [UdpThread listens on 1234] --> database, waitList
 Locate <--notify-- UdpThread        Locate, Measure --start--> UdpThread
```

Read literally the pieces do not meet: the access point answers to port 1337
and the listener is on port 1234; Measure sends to port 1234 of an access point
that listens on 1337; `@WebServlet("/Mesure")` is asked for as `Measure`. The
modules therefore model each side with an environment that may or may not send
what it should, so that their properties do not rest on messages that cannot
arrive, nor on their absence.

`PROJECT.json` lists the components with their files and, under `hazards`,
every place that is hard to test, with the properties about it.

## 2. Modules

| Module | Models | State, in terms of the code |
|---|---|---|
| `RssiList` | `RSSI_list.c` as operators on a value | a chain is a sequence, a pointer an index, NULL is 0 |
| `RssiThread` | `rssi.c`, sequential | `pc`, the frame, the list `l`, the clock |
| `RouterThreads` | both threads over the list in memory | nodes with pointers, one access per step |
| `UdpThread` | the listeners, `AccessPoint.get`, `TempRssi` | `pc` per thread, static `instance`, the socket on 1234, rows |
| `Servlets` | `Locate`, `Measure`, `UdpThread.send` and `start`, `toMac` | `pc` per request, field `mac`, `waitList`, port 1337 |
| `PositioningServer` | composes `Servlets` and `UdpThread` | the variables of both; `threadState` is what `Thread.start` sees of `pc` |
| `Mobile` | `Main`, `net/Locate`, `net/Measure` | the UI thread, the screen, the state of each task object, port 1337 |
| `LeastNumber`, `RssiListProofs`, `RssiThreadProofs`, `RouterThreadsProofs`, `ServletsProofs`, `UdpThreadProofs`, `MobileProofs`, `PositioningServerProofs` | lemmas and theorems | |
| `MC*` | constants for TLC | |

An operator or action that begins with `Bad` is a variant of the one after it,
with a mistake somebody could have made in that code. Putting it in the place
of the original makes TLC report the property `PROJECT.json` pairs it with
(`mutants`): none of the properties holds whatever the code does.

**RssiList.** `add_device` is two operators, the list it leaves
(`add_device`) and the pointer it returns (`added_device`): the pointer is the
new entry only when the list was empty, otherwise the entry that was last
before. A sample keeps whose frame it was measured on (`from`) in the place of
the strength in dBm, since what can go wrong is whose it is; and so `average`
returns what it averages over, and whether it is the default, a mean or 0/0.
`clear_device_list` and `clear_rssi_list` are never called and not modelled.

**RssiThread.** One action per branch of the loop of `rssi_thread`. A frame
carries the three fields the loop reads; the mask of `rssi.c:42` is computed on
the frame control field. A sample is stamped while it is filed and expiry reads
the clock again, so `Tick` may come between. Failures of pcap end the process, and
so does a `malloc` that returns NULL (`MallocFails`): wherever the code
allocates it writes through the result. The clock is not set back.

**RouterThreads.** The same loop and `socket_thread`, over device and sample
nodes in memory. Each read `socket_thread` makes of the shared list is a step;
writes of `rssi_thread` that no read can tell apart are one step (a node's
fields before it is linked, for example). The code links nodes before it
initialises them and reads freed memory: the content of such memory is `Junk`,
a wild access may yield any node, nothing, or a crash (`Pointers`,
`WildAccess`), and freed sample nodes may be allocated again. In `parse` `"%s"`
takes the first word, semicolons included, and nothing after it ever matches:
the address asked for (`mac_addr`) is zeros. A word of more than 32 characters
is written over it (`op` has 5, and `mac_addr` is at offset 32 of `request_t`),
so `Receive` may leave any address of `Overlaid` there instead; one longer than
the structure destroys the frame of `parse` (`SmashStack`), which is modelled as
the end of the process. `display` crashes on a datagram with a semicolon and has
nothing to send without one; which of the two is left open, as a long word is
written over the count of semicolons too. Formatting is not modelled.
`Linked` follows the pointers as far as they lead, from junk nowhere.
`Allocates` names the places where memory may be exhausted; the crash takes
`socket_thread` down at whatever step it is.

**UdpThread.** `Enter`, `Claim` and `Check` are the three accesses to the
static `instance`. A socket is bound for every datagram and becomes garbage
when `receive` returned; `Finalize` frees the port. `AccessPoint.get` is a
query and an insertion, each with its own connection. `createIfNotExists` of
ORMLite 4.40 refuses classes without an id field, as `TempRssi` is
(`Refuse`); to see also what stands behind that call, the passing run lets the
library accept it as well (`CreateOutcomes`, `Store`, `Dispatch`). Behind it
the thread always ends: `Integer.decode` of a coordinate such as `0.0`, before
a Location is filed or `Rssi.fromRequest` gets its access point; `Locate.get`
that returns null; or `notify` without the monitor. `Dispatch` is those ends in
one step. An answer to Measure (`~ToLocate`) may leave it by an exception of the
database instead, which the loop catches. `filed` counts the rows of `TempRssi`.
The constructor may have failed to get the DAOs and only printed so: `daos` are
the threads that have theirs, and the others die where they use them (`NoDaos`).

**Servlets.** One record of progress per HTTP request. `arp` is the ARP table of
the host, one of `Tables`, which the kernel may change at any time
(`Neighbours`). `Lookup` is `toMac` and the test of `waitList`; a table that
cannot be read, or a line that is too short, ends the request (`LookupFails`,
and in Measure `Load`). `Assign`
writes the field; `IsAlive` and `StartThread` are the two halves of
`UdpThread.start`; `Bind` and `Send` those of `UdpThread.send`; `Put` the entry
in the map, which a simultaneous `put` may lose (a `HashMap` without a lock);
`Locate` the end of the wait and the query. There is no column `id` in the
joined tables, so the query raises an exception and the answer is ERROR.
`Load` is the static initialiser of Measure, at its first request; `Post` the
request it sends, before it spins for ever. The listener started is the
`UdpThread` of the other module, seen from outside: alive, then over
(`PositioningServer` shows that this is what the other module does).
Not modelled: the address Measure looks up (it only goes into the message), an
endless loop inside a `HashMap` that is resized concurrently, and stale reads of
unsynchronised fields beyond the interleaving of steps.

**PositioningServer.** A step is a request's or a listener's. They meet in
`Start`, which is `StartThread` of `Servlets` and, when the thread was new,
`Start` of `UdpThread` in one step; everything else of one part leaves the other
alone. `Servlets!thread` is not a variable here but `threadState`, computed from
the listeners' `pc`, so `ListenerEnds` is replaced by what `run` really does.
The wait list is shared in the code too, but `run` only reads it, behind a point
from which the thread always ends.

**Mobile.** One action per callback of `Main` (`onTouch`, `toggle`, `locate`,
`mesure`, `onStart`, `onCreate`) and one per step of `doInBackground`, which the
two tasks share: wait for a thread of the executor, bind, burst, exchange.
`locate` blocks the UI thread in `get` until `Located`. A task that threw
crashes the process, before or after `get` has returned its exception (`Throw`),
because the executor's thread rethrows what is not an `IOException`. A press
while the UI thread waits is delivered afterwards, which is a press then. With
the code as it is, the cast in `mesure` is always refused: it is that of the
layout parameters of `absLayout` (`Main.java:123`), which come from its parent,
a `LinearLayout` (`main.xml:19-25`). Android refuses the output stream of `net/Locate`, and the
answers of the server (ERROR, PENDING, decimals) cannot be parsed; `Casts` and
`Outcomes` let the passing run have the other outcomes as well, so that what
stands behind them is explored. `new DatagramSocket(1337)` is the same garbage
as in the server. A process that is started again is at `Init`.

## 3. Runs

Bounds are constants of the modules and are named in them. `CHECK_DEADLOCK`
is off everywhere because each system may stop: a crashed process, a clock at
its bound, requests that are all answered, listeners that have ended.

| Run | States | Question |
|---|---|---|
| `rssi_thread` | 203,000 | does the capture loop keep its list sound, and does expiry happen |
| `rssi_own_samples` | violation | does an entry hold its own station's samples |
| `router_threads` | 2,416,000 | is the list in memory that list; what may a walk rely on |
| `router_reply` | violation | does the access point survive a request |
| `udp_thread` | 347,000 | who listens, who is heard, and until when |
| `udp_gather` | violation | are all answers that arrive gathered |
| `udp_filled` | violation | does an answer that arrives get into the database |
| `servlets` | 470,000 | is every request answered; what is left behind by those that fail |
| `locate_own_client` | violation | does a request query for its own client |
| `locate_pending` | violation | does PENDING mean that a request is pending |
| `server` | 488,000 | do requests and listeners, composed, keep what each promises; who wins |
| `mobile` | 91,000 | what do presses, touches and activities in any order lead to |

**rssi_thread.** Three stations (an entry with a predecessor and a successor,
which is what misfiling needs), two accepted frames a second (a new station and
a known one between two ticks) and four seconds (a sample is outdated after
two, and there is time for a second round). *DevicesDistinct*: one entry per
station. *StraysBounded*: the wrong pointer of `add_device` puts one stray
sample at most in an entry, always of the station of the next entry.
*SamplesInDateOrder* and *ExpiryIsExact*: expiry that stops at the first recent
sample is exact, because of the order of the dates. *DevicesPersist*: a pointer
to an entry never dangles. *OutdatedRemoved* (liveness): samples of silent
stations go in the end.

**router_threads.** Two stations, one of them the zeros `socket_thread` asks for
and the other an address that a long datagram may happen to spell, so that a
walk may find either or pass it; three sample nodes, so that nodes that were
freed are used again. *ImplementsRssiThread*: with `Published` as the list and
`Stage` as the program counter, every step is one of RssiThread or stutters. The
list changes at the moment the sample is complete, and at the moment expiry
reads the time, although memory goes through states that are no list at all.
*MemoryExact*: no sample node is leaked, freed while linked, or linked twice.
*FaultsInWindows* is about the race itself: however the list changes during a
walk, there are three places where that can end the process: before `*l`
has a value, on the last entry until it is initialised, and on a sample that was
freed or is not initialised. (Where it does not end there, the sum may be of what
are no samples; nothing is claimed of it.) *UndisturbedAverage*, *FaultsNeedChanges* and
*WalksEnd* say what is left without the race: a walk during which the capture
loop changes nothing answers with the samples of the entry and no other (0/0 if
there are none, which nothing excludes), never touches freed memory, and ends. With
changes it may do none of that, which the model shows when the guard
`~disturbed` is left out.

**udp_thread.** Two threads (there are two servlets), three datagrams, two
access points. *InstanceListens*: although `instance` is tested and set without
a lock, never do both threads step back. *DuplicatesNeedTwoListeners*: query
then insert duplicates a row only with two listeners, which the same race
allows. *DeafForEver*: once no one listens and `instance` is set, no one ever
will. *ListensAgain* (liveness): a datagram that does not kill its thread does
not keep the port for ever. A thread has its DAOs or not, from the start.

**servlets.** Two Locate requests of two clients, two Measure requests and two
workers, so that both workers may come to spin. A third station's address
contains that of a client; of the three ARP tables one has it before the
client, one has the two clients, and in one a client is missing. *ListedWereAsked*: entries of the wait list are for
ever, so it matters that a request that failed has left none.
*MeasureStarvesLocate* and *UnheardForEver*: two ways the server stops asking
the access points until it is restarted: Measure holds port 1337, or the
listener of Locate is over and cannot be started again. *AloneLocatesOwn*: as
long as requests do not overlap and no address in the table contains a client's,
a request queries for the station its client is, or for null; the two hypotheses
are two bugs, and the property says that there is no third. The first is
`locate_own_client`; the second is `contains` in `Common.java:52`, which takes
192.168.1.56 for 192.168.1.5 if that line comes first, where the report speaks of
"the client mac address" (`part3.tex:181`). *AnsweredUnlessSpinning* (liveness): no request waits for
ever unless every worker spins in Measure.

**server.** Two Locate requests and one Measure request on two workers, the two
real listeners, one datagram at most, too short for the access points' format
(each datagram kills or is refused; which does what is the business of
`udp_thread`), one ARP table. *ImplementsServlets*: whatever `run` does
is, for the requests, a thread that ends at some time. *SomeServletServes*: of
the two threads one can always still be used, unless an answer killed a
listener. *WinnerTakesAll*: the thread that stepped back takes its servlet with
it, although nothing failed. *AskedAfterStart*: no question without a listener
started for its answer. *UseWakesListener* (liveness): a servlet that reaches
`start` has a listener past the instance check in the end.

**mobile.** Two activities (tasks of the old one go on under the new one), three
views (two on the screen and a new one), one task at a time or several.
*OneStaleCursor*: `locate` forgets to take the old cursor away, but can do so
only once. *BurstsApart*: tasks of several activities never broadcast at the
same time. *ModesApart*: buttons of both modes are never shown together, as
`onStart` and `toggle` both set them. *RunOnce*: no second run of a task
object. *LocateReturns* (liveness): if the screen is frozen in `get` for ever, it
is an exchange with the server that does not end, its own or, where tasks run
one by one, one before it; never a port, a queue or a burst. *FailuresAreFatal*
(liveness): a Locate that could not ask, or an answer that cannot be read, is
the end of the process.

**Violations.** Each checks one sentence of the report or a comment that the
code does not keep to; `findings` in `PROJECT.json` quotes it and says why. TLC's
traces are short: two stations heard once each; one datagram with a semicolon;
two datagrams in one buffer; one datagram whose row is refused; two overlapping
requests; two requests of a client in a row. Other places where the code parts
from the report are in the models, but have no run of their own: the average
0.0/0.0 of a station without samples (`RSSI_list.c:50`, `part3.tex:81`), `contains`
(above), a wait-list entry that a simultaneous `put` loses (`Locate.java:88`,
`part3.tex:169`), and `onStart`, which hides the buttons of the measure mode
although the toggle button is on (`Main.java:53`, `part3.tex:217`).

### Fairness

- `RssiThread`: weak fairness of the loop (the kernel schedules the thread) and
  strong fairness of capturing an accepted frame: the mask lets beacons pass,
  which every access point in range sends about ten times a second. The clock
  has no fairness; a sample that does not become outdated need not be removed.
- `RouterThreads`: weak fairness of `Walk`, the steps of `socket_thread` between
  a datagram and the next `recvfrom`. None on datagrams.
- `UdpThread`: weak fairness of each thread that can run, and of `Finalize`:
  the loop allocates a buffer and an exception each time it finds the port
  taken, so the collector does run. None on datagrams.
- `Servlets`: weak fairness of each request, of which `wait(5000)` has a
  timeout. None on the collector or the listener.
- `PositioningServer`: weak fairness of each request and of each listener that
  can run. None on datagrams or the collector.
- `Mobile`: weak fairness of `Located`, and of each task's `Begin`, `Bind`, `Burst`
  and `Throw` (threads are scheduled, a burst has a timed end). None on the
  exchange: no read timeout is set, Measure is never answered
  (`servlets/Measure.java:72`) and Locate is not if every worker of the server
  spins there.
  None on the user, nor on the collector.

## 4. Proofs

TLAPS proves the theorems below for every set of stations, every set of frames
and every bound; of requests, clients, ARP tables, threads, datagrams,
addresses a datagram may spell, activities and views, likewise. The assumptions
are those of the modules, which TLC evaluates on each instance: frames are
well formed and bounds are natural numbers (`FramesAssumption`,
`BoundsAssumption`), requests of the two kinds are different and `None` is none
of them (`RequestsAssumption`), the lines of the tables are well formed
(`TablesAssumption`), there are finitely many threads (`ThreadsAssumption`),
datagrams are well formed (`DatagramsAssumption`), a request of the application
ends in one of its outcomes (`OutcomesAssumption`). `RouterThreads` and
`PositioningServer` repeat the assumptions of the modules they instantiate: the
theorems on those are used on the instances.

`RssiListProofs` has the lemmas on the operators: `is_known` returns an entry
that carries the address, or NULL if there is none (`IsKnownReturns`);
`FirstKept` exists and `delete_outdated` is the suffix that begins there; and
each operation preserves *consistency*, the conjunction of the three list
invariants (`AddOwnSampleIsConsistent`, `AddNewIsConsistent`,
`DeleteOutdateIsConsistent`, `LaterIsConsistent`).

`RssiThreadProofs`: the inductive invariant `IInv` is the conjunction of
`TypeOK`, `DevicesDistinct`, `StraysBounded` and `SamplesInDateOrder`. They
need each other: a stray is of the *next* entry's station only because entries
are not repeated and a new one goes to the tail; it stays the only one because
its station is known afterwards, so that its frames go to its own entry. From
`IInv` follow `TypeCorrect`, `NoDuplicateDevice`, `MisfilingBounded` and
`DateOrder`; `ExactExpiry` uses the order of the dates for one step; and
`EntriesStay` needs in addition that the list is empty until it is allocated.

`RouterThreadsProofs`: the list in memory is the list of `RssiThread`, for any
number of nodes. `IInv` says what the writing thread relies on. `Layout`: the
sample nodes of the entries are disjoint paths that end in NULL, or in the node
under construction; together they are the nodes that are allocated, and the
others are junk. `Devices`: the entries are linked in the order of their
allocation. `Control`, `Filing`, `Expiring`: which pointer is open at each point
of the loop, and which entries expiry is done with. The layout decides what
`Linked` returns (`FollowExists`, `FollowFinds`, `LayoutIsLinked`): from the last
node of an entry to the first, by the least distance at which the two could
differ, which is how the induction is put to provers that have none. Every write (`InitDevice`, `LinkSample`, `Unlink`, ...) has
a lemma that the layout is kept, with the path it makes. From `IInv` follow
`RouterTypeCorrect` and `MemoryIsExact`.

`RouterImplementsRssiThread` shows that each step maps to one of `RssiThread`
or to a stutter: `Published` is the value the paths stand for (`InMemory`), and
during expiry what `delete_outdate` will leave of it (`PublishedInMemory`). An
entry is published with its first sample, and expiry when the time is read:
unlinking a node, one per step, does not change what `delete_outdate` returns
(`DeleteOutdatedTail`). `MemoryKeepsThePromises` then carries the theorems of `RssiThreadProofs`
to the nodes in memory.

The theorems on `socket_thread` have an invariant of their own, `WalkInv`, which
TLC checked before it was proved. As long as `disturbed` is false, no change of
the list is under way (`Settled`), and `Progress` says where the walk is and
which nodes it has added: the first ones of the entry of the address, in their
order. A step of `rssi_thread` keeps it or disturbs the walk
(`ProgressKept`, `RssiWalk`). It gives `FaultsComeOfChanges` (no freed or
uninitialised node is read unless the list changed meanwhile) and
`UndisturbedIsExact`. That the list does change meanwhile is what the run leaves
possible, and what nothing in the code excludes. For that, `FaultsAreInWindows`
needs no more than `IInv`: it tells which pointers may be without a value at each
point of the writing thread (`PointersSet`), and a walk only ends the process by
following one of them (`SocketFaults`).

`ServletsProofs`: `IInv` adds two facts to the invariants of the run: a request
that is about to send owns the port, and Measure's socket excludes that
(`PortOwned`); and a request that is about to put itself in the wait list has
sent (`PutWasAsked`). `OnlyAskedListed` is a conjunct of
it; `Starvation` follows for one step, since sending needs the port;
`UnheardStays` is inductive with `TypeOK`. `AloneIsSafe` has assumptions on the
environment: requests do not overlap (`Alone`), no address of the table contains a
client's (`Unambiguous`), and stations keep their addresses (`Leased`). Under
them two invariants: what a request looked up is its client's address in every
table that has it, or null (`OwnAddress`, since the only line `toMac` can hit is
the client's own), and from the assignment on the field holds it (`OwnField`).
`LeastNumber` is the fact that a nonempty set of naturals has a least element,
on which the loops that stop at the first match rest.

`UdpThreadProofs`: `TypeOK` and `InstanceListens` are inductive once a listener
stays a listener (`ListenersStay`). `RowsOnce` strengthens the claim on duplicate
rows: as long as no two threads listen, no row is there twice *and whoever is
about to insert still finds none*. `DeafForGood`
needs `InstanceListens`: the owner of the instance can only be dead.

`MobileProofs`: `TypeOK` needs `QueuedOnce`, the queue being without
repetitions. `BurstHoldsPort` (a task in its burst opened the socket that has the
port) gives `OneBurst`. `StaleCursors` rests on `LocateSettled`: activities to
come have new tasks, and while the UI thread is idle the Locate of the one on
the screen is new or over; so its result is seen once.

`PositioningServerProofs`: `ServletsRefined` and `ListenersRefined` say that the
composition implements both of its parts, so that each theorem on a part is one
on the server. The refinement mapping is `threadState`; the only step with
something to show is a listener's, which must be an end or a stutter of the
thread (`RunMoves`). `Decided` (a thread past the instance check found it set) and
`InstanceListens` give `OneServes`; `SentAfterStart` gives
`ListenerBeforeQuestion`.

`PartsKeepTheirPromises` states those theorems for the server, with the instances
of the two proof modules (`UProofs`, `SProofs`); `ServerTypeCorrect` combines
the two type invariants.

Model-checked only: liveness, which the prover has no rules for, since it needs
ENABLED: `OutdatedRemoved`, `WalksEnd`, `ListensAgain`, `AnsweredUnlessSpinning`,
`LocateReturns`, `FailuresAreFatal` and `UseWakesListener`. Every invariant and
every action property of the passing runs is stated by a theorem.

## 5. Not modelled

- A clock set back: the dates' order, which the capture loop rests on, is what
  such a clock breaks. Listed as a hazard.
- `logic/Location`, `Map` and `Rssi`, except as what ends the listener behind
  `createIfNotExists`: the code that would file their rows is never reached.
- Of the application, the layout and the coordinates of views, a process the
  system kills because its UI thread hangs (it is at `Init` again), and `cancel`,
  which is empty.
- Formatting, parsing and SQL, beyond the outcomes they have. Of the overflow of
  `op` in `parse` by long words only the address and the end of the process: not
  the other fields it overwrites, which nothing reads but `display` in front of
  its crash, nor what else a destroyed frame may lead to.
- `router/platform` (a vendored cross compiler and system headers, nearly all of
  the lines in the repository), `doc` (the report), generated and build files.

## 6. Plan

Done: `RssiList`, `RssiThread`, `RouterThreads` refining it, `UdpThread`,
`Servlets`, `PositioningServer` and `Mobile`, all with proofs.

1. An abstract specification of what the server promises a client (a request is
   answered once, within its timeout), to be implemented by
   `PositioningServer`.
2. `Wipos`: the access point, the server and the application over the ports of
   the network; what could be delivered if the ports agreed.

To reproduce: `tlc -config X.cfg MCModule.tla` for a run, `tlapm Module.tla`
for the proofs.
