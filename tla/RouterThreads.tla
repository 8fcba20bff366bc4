---------------------------- MODULE RouterThreads ----------------------------
(***************************************************************************)
(* The process of the access point (router/src): rssi_thread and           *)
(* socket_thread share the list l, which rssi_thread changes while         *)
(* socket_thread walks it, with no lock.  The list is the one in memory:   *)
(* nodes with pointers, read and written one access at a time.  Writes     *)
(* that socket_thread cannot tell apart are one step.                      *)
(* Device nodes are numbered in the order of their allocation; none is     *)
(* ever freed.  Sample nodes are freed and allocated again.                *)
(* Definitions that begin with Bad are variants with a mistake.            *)
(***************************************************************************)
EXTENDS RssiList, FiniteSets

CONSTANTS
    Frames,      (* the frames the interface may deliver                   *)
    MaxClock,    (* bound: last second of the model                        *)
    MaxRate,     (* bound: accepted frames captured in one second          *)
    MaxSamples,  (* bound: sample nodes the allocator can hand out         *)
    ZeroMAC,     (* 00:00:00:00:00:00, what parse leaves in mac_addr       *)
    Overlaid     (* what the text of a long datagram may leave there       *)

Samples == 1 .. MaxSamples
Junk == -1  (* the content of memory that is not initialised, or was freed *)

ASSUME RouterAssumption == MaxSamples \in Nat /\ Junk \notin MACs
ASSUME RouterBoundsAssumption == MaxClock \in Nat /\ MaxRate \in Nat

VARIABLES
    proc,       (* the process: running, exited or crashed                 *)
    packet,     (* the frame captured last                                 *)
    rssi,       (* rssi_thread: pc, the entry dev it works on, new (the    *)
                (* entry is being added), node (the sample linked and not  *)
                (* initialised, or NULL), tv (when expiry began)           *)
    mem,        (* shared: l (null, junk if *l has no value yet, or list), *)
                (* the nodes dev and smp, and live, the smp allocated      *)
    sock,       (* socket_thread: pc, the pointer cur of its walk, summed  *)
                (* (the samples added), answer (what average returned)     *)
    mac_addr,   (* socket_thread: request.mac_addr, the address asked for  *)
    clock, rate,
    disturbed   (* history: rssi_thread was changing the list at some time *)
                (* of the walk                                             *)

vars == <<proc, packet, rssi, mem, sock, mac_addr, clock, rate, disturbed>>

JunkSample == [from |-> Junk, date |-> Junk, next |-> Junk]
JunkDevice == [mac |-> Junk, rssi |-> Junk, next |-> Junk]
NoPacket == [msgcode |-> 0, frame_control |-> 0]

(* The sample nodes from n on, up to the one under construction. *)
Linked[n \in Samples \cup {NULL, Junk}] ==
    IF n \in Samples \ {rssi.node} THEN <<n>> \o Linked[mem.smp[n].next] ELSE <<>>

(* The list as it was before the frame being stored, or as it will be once *)
(* the expiry under way is over.                                           *)
Published ==
    LET Content(n) == [from |-> mem.smp[n].from, date |-> mem.smp[n].date]
        Entry(d) == LET nodes == Linked[d.rssi]
                    IN  [mac |-> d.mac,
                         rssi |-> [k \in DOMAIN nodes |-> Content(nodes[k])]]
        shown == Len(mem.dev) - IF rssi.new THEN 1 ELSE 0
        list == [i \in 1 .. shown |-> Entry(mem.dev[i])]
    IN  IF rssi.pc = "unlink" THEN delete_outdate(list, rssi.tv) ELSE list

Stage ==
    CASE rssi.pc \in {"start", "alloc"} -> "open"
      [] rssi.pc \in {"capture", "unlink"} -> "capture"
      [] rssi.pc \in {"classify", "initdev", "sample", "initsample"} -> "classify"
      [] OTHER -> rssi.pc

Capturing == INSTANCE RssiThread WITH l <- Published, pc <- Stage

ASSUME RouterFramesAssumption == Frames \subseteq Capturing!Packet

-----------------------------------------------------------------------------
Init ==
    /\ proc = "running"
    /\ packet = NoPacket
    /\ rssi = [pc |-> "start", dev |-> NULL, new |-> FALSE, node |-> NULL, tv |-> 0]
    /\ mem = [l |-> "null", dev |-> <<>>, smp |-> [n \in Samples |-> JunkSample],
              live |-> {}]
    /\ sock = [pc |-> "bind", cur |-> NULL, summed |-> {}, answer |-> "default"]
    /\ mac_addr = ZeroMAC
    /\ clock = 0 /\ rate = 0
    /\ disturbed = FALSE

Running == proc = "running"
Walking == sock.pc \notin {"bind", "ended", "deaf", "recv"}

(***************************************************************************)
(* rssi_thread                                                             *)
(***************************************************************************)
(* Steps that change the list socket_thread should see, and others. *)
Changes ==
    /\ Running
    /\ disturbed' = (disturbed \/ Walking)
    /\ UNCHANGED <<proc, packet, sock, mac_addr, clock, rate>>
Local ==
    Running /\ UNCHANGED <<proc, packet, mem, sock, mac_addr, clock, rate, disturbed>>

(* pcap_open_live, and l = malloc. *)
AllocList ==
    /\ rssi.pc = "start"
    /\ rssi' = [rssi EXCEPT !.pc = "alloc"]
    /\ mem' = [mem EXCEPT !.l = "junk"]
    /\ Changes

(* *l is not set. *)
BadInitList ==
    /\ rssi.pc = "alloc"
    /\ rssi' = [rssi EXCEPT !.pc = "capture"]
    /\ Changes
    /\ UNCHANGED mem

InitList ==
    /\ rssi.pc = "alloc"
    /\ rssi' = [rssi EXCEPT !.pc = "capture"]
    /\ mem' = [mem EXCEPT !.l = "list"]
    /\ Changes

(* The process ends: the interface cannot be opened, or pcap_next returned *)
(* NULL.                                                                   *)
End(from, how) ==
    /\ Running
    /\ rssi.pc = from
    /\ proc' = how /\ rssi' = [rssi EXCEPT !.pc = how]
    /\ UNCHANGED <<packet, mem, sock, mac_addr, clock, rate, disturbed>>
OpenFails == End("start", "exited")
CaptureFails == End("capture", "crashed")

Accepting == rssi.pc = "classify" /\ Capturing!Accepted(packet)
Source == packet.source_addr

(* malloc returns NULL: its result is written to before it is linked, or   *)
(* through the link.                                                       *)
Allocates ==
    \/ rssi.pc \in {"start", "sample"}
    \/ Accepting /\ is_known(mem.dev, Source) = NULL
MallocFails == Allocates /\ End(rssi.pc, "crashed")

Capture ==
    /\ Running
    /\ rssi.pc = "capture"
    /\ packet' \in Frames
    /\ rate' = IF Capturing!Accepted(packet') THEN rate + 1 ELSE rate
    /\ rate' <= MaxRate
    /\ rssi' = [rssi EXCEPT !.pc = "classify"]
    /\ UNCHANGED <<proc, mem, sock, mac_addr, clock, disturbed>>

Skip ==
    /\ rssi.pc = "classify"
    /\ ~Capturing!Accepted(packet)
    /\ rssi' = [rssi EXCEPT !.pc = "capture"]
    /\ Local

Known ==
    /\ Accepting
    /\ is_known(mem.dev, Source) # NULL
    /\ rssi' = [rssi EXCEPT !.pc = "sample", !.dev = is_known(mem.dev, Source)]
    /\ Local

(* dl_next is not set. *)
BadNewDevice == [mac |-> Source, rssi |-> NULL, next |-> Junk]
NewDevice == [mac |-> Source, rssi |-> NULL, next |-> NULL]

(* The first node is initialised before *l points to it. *)
FirstDevice ==
    /\ Accepting
    /\ mem.dev = <<>>
    /\ mem' = [mem EXCEPT !.dev = <<NewDevice>>]
    /\ rssi' = [rssi EXCEPT !.pc = "sample", !.dev = 1, !.new = TRUE]
    /\ Changes

(* Any other node is linked first, and tmp_l stays at the old tail. *)
LinkDevice ==
    LET tail == Len(mem.dev)
    IN  /\ Accepting
        /\ tail # 0
        /\ is_known(mem.dev, Source) = NULL
        /\ mem' = [mem EXCEPT !.dev =
                       Append([@ EXCEPT ![tail].next = tail + 1], JunkDevice)]
        /\ rssi' = [rssi EXCEPT !.pc = "initdev", !.dev = tail, !.new = TRUE]
        /\ Changes

InitDevice ==
    /\ rssi.pc = "initdev"
    /\ mem' = [mem EXCEPT !.dev[Len(mem.dev)] = NewDevice]
    /\ rssi' = [rssi EXCEPT !.pc = "sample"]
    /\ Changes

NewSample == [from |-> Source, date |-> clock, next |-> NULL]

(* The first sample of an entry is initialised before it is linked. *)
FirstSample ==
    /\ rssi.pc = "sample"
    /\ mem.dev[rssi.dev].rssi = NULL
    /\ \E n \in Samples \ mem.live :
        mem' = [mem EXCEPT !.live = @ \cup {n}, !.smp[n] = NewSample,
                           !.dev[rssi.dev].rssi = n]
    /\ rssi' = [rssi EXCEPT !.pc = "expire", !.new = FALSE]
    /\ Changes

(* Any other is linked to the last node first. *)
LinkSample ==
    LET nodes == Linked[mem.dev[rssi.dev].rssi]
    IN  /\ rssi.pc = "sample"
        /\ mem.dev[rssi.dev].rssi # NULL
        /\ \E n \in Samples \ mem.live :
            /\ mem' = [mem EXCEPT !.live = @ \cup {n}, !.smp[n] = JunkSample,
                                  !.smp[nodes[Len(nodes)]].next = n]
            /\ rssi' = [rssi EXCEPT !.pc = "initsample", !.node = n]
        /\ Changes

InitSample ==
    /\ rssi.pc = "initsample"
    /\ mem' = [mem EXCEPT !.smp[rssi.node] = NewSample]
    /\ rssi' = [rssi EXCEPT !.pc = "expire", !.node = NULL, !.new = FALSE]
    /\ Changes

(* delete_outdate reads the time, then visits every entry. *)
Expire ==
    /\ rssi.pc = "expire"
    /\ rssi' = [rssi EXCEPT !.pc = "unlink", !.tv = clock, !.dev = 1]
    /\ Changes
    /\ UNCHANGED mem

(* Samples of the last second are removed too. *)
BadStale(n) == n # NULL /\ rssi.tv > mem.smp[n].date
Stale(n) == n # NULL /\ Outdated(mem.smp[n], rssi.tv)

(* Unlinked, and not freed. *)
BadUnlink ==
    LET n == mem.dev[rssi.dev].rssi
    IN  /\ rssi.pc = "unlink"
        /\ Stale(n)
        /\ mem' = [mem EXCEPT !.dev[rssi.dev].rssi = mem.smp[n].next]
        /\ Changes
        /\ UNCHANGED rssi

(* The first sample of the entry is unlinked and freed. *)
Unlink ==
    LET n == mem.dev[rssi.dev].rssi
    IN  /\ rssi.pc = "unlink"
        /\ Stale(n)
        /\ mem' = [mem EXCEPT !.dev[rssi.dev].rssi = mem.smp[n].next,
                              !.smp[n] = JunkSample, !.live = @ \ {n}]
        /\ Changes
        /\ UNCHANGED rssi

NextEntry ==
    LET next == mem.dev[rssi.dev].next
    IN  /\ rssi.pc = "unlink"
        /\ ~Stale(mem.dev[rssi.dev].rssi)
        /\ rssi' = [rssi EXCEPT !.dev = next,
                                !.pc = IF next = NULL THEN "capture" ELSE @]
        /\ Local

(***************************************************************************)
(* socket_thread                                                           *)
(***************************************************************************)
Reads == Running /\ UNCHANGED <<packet, rssi, mem, mac_addr, clock, rate, disturbed>>
Goto(loc) == sock' = [sock EXCEPT !.pc = loc] /\ UNCHANGED proc
Crash == proc' = "crashed" /\ UNCHANGED sock

(* MY_IP does not parse and sin_addr keeps what was on the stack: bind     *)
(* fails, or binds to some address; addr_size is not initialised either,   *)
(* so recvfrom may refuse it for ever.                                     *)
Bind ==
    /\ sock.pc = "bind"
    /\ \E loc \in {"ended", "deaf", "recv"} : Goto(loc)
    /\ Reads

(* A datagram arrives and is parsed.  sscanf matches %s and never the rest *)
(* of its formats: mac_addr stays zero, unless the first word has more     *)
(* than the 32 characters that fit in op and the fields before mac_addr.   *)
(* Then average is called with l.                                          *)
Receive ==
    /\ Running
    /\ sock.pc = "recv"
    /\ sock' = [pc |-> IF mem.l = "null" THEN "display" ELSE "head",
                cur |-> NULL, summed |-> {}, answer |-> "default"]
    /\ mac_addr' \in {ZeroMAC} \cup Overlaid
    /\ disturbed' = (rssi.pc \notin {"start", "capture", "classify", "expire"})
    /\ UNCHANGED <<proc, packet, rssi, mem, clock, rate>>

(* A first word longer than request_t is written over the frame of parse,  *)
(* which does not return from it.                                          *)
SmashStack == sock.pc = "recv" /\ Crash /\ Reads

(* A pointer read from memory without a value may be anything: a node,     *)
(* NULL, or an address whose use ends the process.                         *)
Pointers(p, nodes) == IF p = Junk THEN nodes \cup {NULL} ELSE {p}
WildAccess(p) == p = Junk /\ Crash

(* The walk does not test for NULL. *)
BadGotoDevice(p) ==
    \/ /\ p \in DOMAIN mem.dev
       /\ sock' = [sock EXCEPT !.cur = p, !.pc = "compare"]
       /\ UNCHANGED proc
    \/ p \in {NULL, Junk} /\ Crash

(* Past the last entry, the address is unknown: the answer stays -95. *)
GotoDevice(p) ==
    \/ \E d \in Pointers(p, DOMAIN mem.dev) :
        /\ sock' = [sock EXCEPT !.cur = d,
                                !.pc = IF d = NULL THEN "display" ELSE "compare"]
        /\ UNCHANGED proc
    \/ WildAccess(p)

(* Past the last sample, the sum is divided, 0.0 by 0.0 if there was none. *)
GotoSample(p) ==
    \/ \E n \in Pointers(p, Samples) :
        /\ sock' = [sock EXCEPT
                      !.cur = n,
                      !.pc = IF n = NULL THEN "display" ELSE "value",
                      !.answer = IF n # NULL THEN @
                                 ELSE IF sock.summed = {} THEN "nan" ELSE "mean"]
        /\ UNCHANGED proc
    \/ WildAccess(p)

(* is_known: tmp_l = *l. *)
LoadHead ==
    /\ sock.pc = "head"
    /\ GotoDevice(IF mem.l = "junk" THEN Junk
                  ELSE IF mem.dev = <<>> THEN NULL ELSE 1)
    /\ Reads

(* The result of memcmp is taken the wrong way round. *)
BadCompare ==
    /\ sock.pc = "compare"
    /\ Goto(IF mem.dev[sock.cur].mac = mac_addr THEN "nextdev" ELSE "samples")
    /\ Reads

(* memcmp with the address of the entry; a node without one may match. *)
Compare ==
    LET mac == mem.dev[sock.cur].mac
    IN  /\ sock.pc = "compare"
        /\ \/ mac \in {mac_addr, Junk} /\ Goto("samples")
           \/ mac # mac_addr /\ Goto("nextdev")
        /\ Reads

(* The walk stays where it is. *)
BadNextDevice == sock.pc = "nextdev" /\ GotoDevice(sock.cur) /\ Reads

NextDevice == sock.pc = "nextdev" /\ GotoDevice(mem.dev[sock.cur].next) /\ Reads

(* average: the samples of the entry, each added, then followed. *)
LoadSamples == sock.pc = "samples" /\ GotoSample(mem.dev[sock.cur].rssi) /\ Reads

AddValue ==
    /\ sock.pc = "value"
    /\ sock' = [sock EXCEPT !.pc = "nextsample", !.summed = @ \cup {sock.cur}]
    /\ Reads
    /\ UNCHANGED proc

NextSample == sock.pc = "nextsample" /\ GotoSample(mem.smp[sock.cur].next) /\ Reads

(* display, for a datagram with a semicolon or without.  With one,         *)
(* asprintf writes through a null pointer.  Without, there is no message:  *)
(* sendto fails on it and the thread takes the next datagram.              *)
Display ==
    /\ sock.pc = "display"
    /\ Goto("recv") \/ Crash
    /\ Reads

-----------------------------------------------------------------------------
Tick ==
    /\ Running
    /\ clock < MaxClock
    /\ clock' = clock + 1
    /\ rate' = 0
    /\ UNCHANGED <<proc, packet, rssi, mem, sock, mac_addr, disturbed>>

Rssi ==
    \/ AllocList \/ OpenFails \/ InitList \/ Capture \/ CaptureFails \/ MallocFails \/ Skip
    \/ Known \/ FirstDevice \/ LinkDevice \/ InitDevice
    \/ FirstSample \/ LinkSample \/ InitSample
    \/ Expire \/ Unlink \/ NextEntry

Walk ==
    \/ LoadHead \/ Compare \/ NextDevice \/ LoadSamples \/ AddValue
    \/ NextSample \/ Display

Next == Rssi \/ Bind \/ Receive \/ SmashStack \/ Walk \/ Tick

Spec == Init /\ [][Next]_vars

(* The kernel schedules socket_thread; a datagram may never come. *)
FairSpec == Spec /\ WF_vars(Walk)

-----------------------------------------------------------------------------
(* Every variable stays in its range (rssi_thread and socket_thread).      *)
TypeOK ==
    /\ proc \in {"running", "exited", "crashed"}
    /\ rssi.dev \in {NULL} \cup DOMAIN mem.dev
    /\ rssi.node \in mem.live \cup {NULL}
    /\ mem.l \in {"null", "junk", "list"}
    /\ mem.live \subseteq Samples
    /\ \A d \in DOMAIN mem.dev : mem.dev[d].next \in {NULL, Junk} \cup DOMAIN mem.dev
    /\ sock.pc \in {"compare", "nextdev", "samples"} => sock.cur \in DOMAIN mem.dev
    /\ sock.pc \in {"value", "nextsample"} => sock.cur \in Samples
    /\ mac_addr \in {ZeroMAC} \cup Overlaid

(* Whatever the order of the writes, at every step the memory holds the    *)
(* list the capture loop is described with (RssiThread): a frame takes     *)
(* effect when its sample is complete, expiry when it reads the time.      *)
ImplementsRssiThread == Capturing!Spec

SamplesOf(d) == LET nodes == Linked[mem.dev[d].rssi]
                IN  {<<d, k, nodes[k]>> : k \in DOMAIN nodes}

(* No sample node is leaked, freed while linked, or linked twice: the      *)
(* allocated ones are those on the lists and the one being added.          *)
MemoryExact ==
    LET links == UNION {SamplesOf(d) : d \in {i \in DOMAIN mem.dev :
                                                  mem.dev[i] # JunkDevice}}
    IN  /\ {e[3] : e \in links} \cup ({rssi.node} \ {NULL}) = mem.live
        /\ \A e, f \in links : e[3] = f[3] => e = f

(* A walk during which rssi_thread does not change the list answers with   *)
(* the average of the address it was asked, over all its samples and no    *)
(* other.                                                                  *)
UndisturbedAverage ==
    sock.pc = "display" /\ ~disturbed =>
        LET d == is_known(mem.dev, mac_addr)
        IN  /\ sock.answer = average(Published, mac_addr).value
            /\ sock.summed = IF d = NULL THEN {} ELSE {e[3] : e \in SamplesOf(d)}

(* Walking the list faults, or reads a node that is freed or not           *)
(* initialised, only if rssi_thread changes the list meanwhile.            *)
FaultsNeedChanges ==
    ~disturbed =>
        /\ proc = "crashed" => rssi.pc = "crashed" \/ sock.pc \in {"recv", "display"}
        /\ sock.pc \in {"compare", "nextdev", "samples"} =>
             mem.dev[sock.cur] # JunkDevice
        /\ sock.pc \in {"value", "nextsample"} => sock.cur \in mem.live

(* Where rssi_thread may take the walk down: before *l has a value, on the *)
(* last entry until it is initialised, on a sample that was freed or waits *)
(* for its value.  Nowhere else does a pointer without a value reach it.   *)
(* The other ends of the process are parse, display and rssi_thread's own. *)
FaultsInWindows ==
    proc = "crashed" /\ rssi.pc # "crashed" =>
        \/ sock.pc \in {"recv", "display"}
        \/ sock.pc = "head" /\ rssi.pc = "alloc"
        \/ /\ sock.pc \in {"nextdev", "samples"}
           /\ rssi.pc = "initdev" /\ sock.cur = Len(mem.dev)
        \/ /\ sock.pc = "nextsample"
           /\ \/ sock.cur \notin mem.live
              \/ rssi.pc = "initsample" /\ sock.cur = rssi.node

(* A walk that rssi_thread leaves alone comes to its end, and the datagram *)
(* is done with; one that reads freed memory may go round in it for ever.  *)
WalksEnd == sock.pc = "head" ~> (sock.pc = "recv" \/ ~Running \/ disturbed)

-----------------------------------------------------------------------------
(* What the documents of the repository say of this code, and it does not  *)
(* do.  The manual, part2.tex:21: the access point "can reply to the       *)
(* server requests"; answering one does not end the process (display).     *)
RequestsSurvived ==
    proc = "crashed" /\ rssi.pc # "crashed" => sock.pc # "display"
=============================================================================
