------------------------- MODULE RouterThreadsProofs -------------------------
(***************************************************************************)
(* The process of the access point (RouterThreads): whatever the order of  *)
(* the writes of rssi_thread and wherever socket_thread is in its walk,    *)
(* the nodes in memory form the list of RssiThread, for any stations,      *)
(* traffic, bounds and memory.                                             *)
(***************************************************************************)
EXTENDS RouterThreads, RssiListProofs

RssiPcs == {"start", "alloc", "capture", "classify", "initdev", "sample", "initsample",
            "expire", "unlink", "exited", "crashed"}
SockPcs == {"bind", "ended", "deaf", "recv", "head", "compare", "nextdev", "samples",
            "value", "nextsample", "display"}
DeviceNode == [mac : MACs \cup {Junk}, rssi : Samples \cup {NULL, Junk},
               next : Nat \cup {Junk}]
SampleNode == [from : MACs \cup {Junk}, date : Nat \cup {Junk},
               next : Samples \cup {NULL, Junk}]

RssiState == [pc : RssiPcs, dev : Nat, new : BOOLEAN, node : Samples \cup {NULL},
              tv : Nat]
Memory == [l : {"null", "junk", "list"}, dev : Seq(DeviceNode),
           smp : [Samples -> SampleNode], live : SUBSET Samples]
SockState == [pc : SockPcs, cur : Nat, summed : SUBSET Samples,
              answer : {"default", "nan", "mean"}]

(* The variables are records of numbers, nodes and pointers.               *)
Types ==
    /\ proc \in {"running", "exited", "crashed"}
    /\ packet \in Frames \cup {NoPacket}
    /\ rssi \in RssiState
    /\ mem \in Memory
    /\ sock \in SockState
    /\ clock \in Nat

(* The entries that have an address; the last may wait for its own.        *)
Entries == 1 .. Len(mem.dev) - IF rssi.pc = "initdev" THEN 1 ELSE 0

(* The entries are linked in the order of their allocation and each has an *)
(* address of its own.                                                     *)
Devices(dev, E) ==
    /\ \A i \in E : /\ dev[i].mac \in MACs
                    /\ dev[i].next = IF i = Len(dev) THEN NULL ELSE i + 1
    /\ \A i, j \in E : dev[i].mac = dev[j].mac => i = j

(* s are the samples from the pointer first on, last is behind them.       *)
Path(s, first, last, smp) ==
    /\ first = IF s = <<>> THEN last ELSE s[1]
    /\ \A k \in DOMAIN s : smp[s[k]].next = IF k = Len(s) THEN last ELSE s[k + 1]

(* The samples of the entries E are in the nodes f[d], which are disjoint; *)
(* behind those of owner is the node under construction.  Every other node *)
(* is free.                                                                *)
Layout(f, E, m, node, owner) ==
    /\ f \in [E -> Seq(Samples)]
    /\ \A d \in E : Path(f[d], m.dev[d].rssi, IF d = owner THEN node ELSE NULL, m.smp)
    /\ \A d, e \in E : \A j \in DOMAIN f[d], k \in DOMAIN f[e] :
          f[d][j] = f[e][k] => d = e /\ j = k
    /\ \A d \in E : \A k \in DOMAIN f[d] : f[d][k] \in m.live \ {node}
    /\ \A n \in m.live \ {node} : \E d \in E : \E k \in DOMAIN f[d] : f[d][k] = n
    /\ \A n \in m.live \ {node} : m.smp[n].from \in MACs /\ m.smp[n].date \in Nat
    /\ \A n \in Samples \ m.live : m.smp[n].next = Junk

Owner == IF rssi.pc = "initsample" THEN rssi.dev ELSE NULL
Paths == [d \in Entries |-> Linked[mem.dev[d].rssi]]

(* What rssi_thread relies on, where it is.                                *)
Control ==
    /\ mem.l = CASE rssi.pc = "start" -> "null"
                 [] rssi.pc = "alloc" -> "junk"
                 [] rssi.pc \in {"exited", "crashed"} -> mem.l
                 [] OTHER -> "list"
    /\ mem.l # "list" => mem.dev = <<>>
    /\ rssi.pc = "classify" => packet \in Frames
    /\ rssi.pc \in {"initdev", "sample", "initsample"} =>
          packet \in Frames /\ Capturing!Accepted(packet)
    /\ rssi.pc \notin {"initdev", "sample", "initsample", "crashed"} => ~rssi.new
    /\ rssi.node # NULL <=> rssi.pc = "initsample"
    /\ rssi.node \in mem.live \cup {NULL}
    /\ rssi.dev \in {NULL} \cup DOMAIN mem.dev
    /\ rssi.pc = "unlink" => rssi.dev # NULL
    /\ rssi.pc = "expire" => mem.dev # <<>>

(* The entry being added is the last, and add_rssi_sample is given the one *)
(* before it, if there is one; otherwise the entry of the address.         *)
Filing ==
    rssi.pc \in {"initdev", "sample", "initsample"} =>
      LET n == Len(mem.dev)
      IN  /\ rssi.dev # NULL
          /\ ~rssi.new => rssi.pc # "initdev" /\ mem.dev[rssi.dev].mac = Source
          /\ rssi.new =>
                /\ rssi.dev = IF n = 1 THEN 1 ELSE n - 1
                /\ \A i \in 1 .. n - 1 : mem.dev[i].mac # Source
                /\ IF rssi.pc = "initdev"
                   THEN n > 1 /\ mem.dev[n] = JunkDevice
                   ELSE mem.dev[n].mac = Source /\ mem.dev[n].rssi = NULL

(* The entries behind which expiry is keep their first sample.             *)
Expiring ==
    rssi.pc = "unlink" =>
      \A i \in 1 .. rssi.dev - 1 :
          LET n == mem.dev[i].rssi IN n # NULL => ~Outdated(mem.smp[n], rssi.tv)

IInv ==
    /\ Types
    /\ Devices(mem.dev, Entries)
    /\ Layout(Paths, Entries, mem, rssi.node, Owner)
    /\ Control
    /\ Filing
    /\ Expiring
-----------------------------------------------------------------------------
(* The layout decides what Linked, the function Follow here, returns.      *)
Follow(g, smp, end) ==
    g = [n \in Samples \cup {NULL, Junk} |->
            IF n \in Samples \ {end} THEN <<n>> \o g[smp[n].next] ELSE <<>>]

(* NULL and what is not initialised are no nodes.                          *)
LEMMA NoNodes == NULL \notin Samples /\ Junk \notin Samples /\ NULL # Junk
  BY RouterAssumption DEF Samples, NULL, Junk

(* A function that follows the pointers finds the nodes of an entry: by    *)
(* induction from the last node of the entry to the first.                 *)
LEMMA FollowFinds ==
    ASSUME NEW s \in Seq(Samples), NEW first, NEW end, NEW smp, NEW g,
           NEW last, last = NULL \/ last = end, Path(s, first, last, smp),
           \A k \in DOMAIN s : s[k] # end, Follow(g, smp, end),
           end \in Samples \cup {NULL}
    PROVE  g[first] = s
<1> DEFINE N == Len(s)
<1>1. N \in Nat /\ DOMAIN s = 1 .. N /\ \A k \in 1 .. N : s[k] \in Samples \ {end}
  BY LenProperties, ElementOfSeq
<1>2. g[last] = <<>>
  BY NoNodes DEF Follow
<1>3. \A k \in 1 .. N : g[s[k]] = <<s[k]>> \o g[smp[s[k]].next]
  BY <1>1 DEF Follow
<1>4. \A k \in 1 .. N : SubSeq(s, k, N) = <<s[k]>> \o SubSeq(s, k + 1, N)
  BY <1>1, SubSeqRecursiveFirst
<1>5. SubSeq(s, N + 1, N) = <<>>
  BY <1>1, SubSeqEmpty
<1> DEFINE Wrong == {j \in Nat : j < N /\ g[s[N - j]] # SubSeq(s, N - j, N)}
<1>6. Wrong = {}
  <2> SUFFICES ASSUME Wrong # {} PROVE FALSE
    OBVIOUS
  <2>1. PICK j \in Wrong : \A i \in Wrong : j <= i
    BY LeastNatural
  <2> DEFINE k == N - j
  <2>2. k \in 1 .. N /\ j \in Nat /\ j = N - k
    BY <1>1, <2>1
  <2>3. g[s[k]] # SubSeq(s, k, N)
    BY <2>1
  <2>4. CASE k = N
    <3>1. smp[s[k]].next = last
      BY <1>1, <2>2, <2>4 DEF Path
    <3> HIDE DEF k, N
    <3>2. g[s[k]] = <<s[k]>> \o <<>>
      BY <1>2, <1>3, <2>2, <3>1
    <3>3. SubSeq(s, k, N) = <<s[k]>> \o <<>>
      BY <1>4, <1>5, <2>2, <2>4
    <3> QED BY <2>3, <3>2, <3>3
  <2>5. CASE k # N
    <3>1. smp[s[k]].next = s[k + 1]
      BY <1>1, <2>2, <2>5 DEF Path
    <3> HIDE DEF k, N, Wrong
    <3>2. k + 1 \in 1 .. N /\ j - 1 \in Nat /\ N - (j - 1) = k + 1 /\ ~(j <= j - 1)
      BY <1>1, <2>2, <2>5
    <3>3. j - 1 \notin Wrong
      BY <2>1, <3>2
    <3>4. g[s[k + 1]] = SubSeq(s, k + 1, N)
      <4>1. j - 1 < N
        BY <1>1, <2>2, <3>2
      <4> QED BY <3>2, <3>3, <4>1 DEF Wrong
    <3>5. g[s[k]] = <<s[k]>> \o SubSeq(s, k + 1, N)
      BY <1>3, <2>2, <3>1, <3>4
    <3> QED BY <1>4, <2>2, <2>3, <3>5
  <2> QED BY <2>4, <2>5
<1>7. \A k \in 1 .. N : g[s[k]] = SubSeq(s, k, N)
  <2>1. \A k \in 1 .. N : N - k \in Nat /\ N - k < N /\ N - (N - k) = k
    BY <1>1
  <2> QED BY <1>6, <2>1
<1>8. CASE s = <<>>
  BY <1>2, <1>8 DEF Path
<1>9. CASE s # <<>>
  <2>1. 1 \in 1 .. N
    BY <1>1, <1>9, EmptySeq
  <2>2. first = s[1]
    BY <1>9 DEF Path
  <2>3. g[s[1]] = SubSeq(s, 1, N)
    BY <1>7, <2>1
  <2> QED BY <2>2, <2>3, SubSeqFull
<1> QED BY <1>8, <1>9

(* Such a function exists.                                                 *)
LEMMA FollowExists ==
    ASSUME NEW f, NEW E, NEW m, NEW node \in Samples \cup {NULL}, NEW owner,
           Layout(f, E, m, node, owner), m.live \subseteq Samples
    PROVE  \E g : Follow(g, m.smp, node)
<1> DEFINE Placed(n) == {p \in E \X Nat : p[2] \in DOMAIN f[p[1]] /\ f[p[1]][p[2]] = n}
           place(n) == CHOOSE p \in Placed(n) : TRUE
           Rest(p) == SubSeq(f[p[1]], p[2], Len(f[p[1]]))
           S == Samples \cup {NULL, Junk}
           g == [n \in S |-> IF n \in m.live \ {node} THEN Rest(place(n))
                              ELSE IF n \in Samples \ {node} THEN <<n>> ELSE <<>>]
<1>1. \A d \in E : /\ f[d] \in Seq(Samples)
                   /\ Len(f[d]) \in Nat /\ DOMAIN f[d] = 1 .. Len(f[d])
  BY LenProperties DEF Layout
<1>2. ASSUME NEW d \in E, NEW k \in DOMAIN f[d]
      PROVE  g[f[d][k]] = SubSeq(f[d], k, Len(f[d]))
  <2>1. <<d, k>> \in Placed(f[d][k])
    BY <1>1
  <2>2. \A p \in Placed(f[d][k]) : p[1] = d /\ p[2] = k
    BY <1>2 DEF Layout
  <2>3. place(f[d][k]) \in Placed(f[d][k])
    BY <2>1
  <2>4. f[d][k] \in m.live \ {node} /\ f[d][k] \in S
    BY <1>2 DEF Layout
  <2> HIDE DEF Placed, place
  <2>5. g[f[d][k]] = Rest(place(f[d][k]))
    BY <2>4
  <2> QED BY <2>2, <2>3, <2>5
<1>3. /\ g[NULL] = <<>> /\ g[Junk] = <<>>
      /\ node \in S => g[node] = <<>>
  BY NoNodes
<1>4. ASSUME NEW n \in S
      PROVE  g[n] = IF n \in Samples \ {node} THEN <<n>> \o g[m.smp[n].next] ELSE <<>>
  <2>1. CASE n \notin Samples \ {node}
    BY <2>1
  <2>2. CASE n \in (Samples \ {node}) \ m.live
    <3>1. m.smp[n].next = Junk
      BY <2>2 DEF Layout
    <3>2. g[n] = <<n>>
      BY <2>2
    <3>3. <<n>> \in Seq(Samples) /\ <<n>> \o <<>> = <<n>>
      BY <2>2, ConcatEmptySeq
    <3> HIDE DEF g
    <3> QED BY <1>3, <2>2, <3>1, <3>2, <3>3
  <2>3. CASE n \in m.live \ {node}
    <3>1. PICK d \in E : \E k \in DOMAIN f[d] : f[d][k] = n
      BY <2>3 DEF Layout
    <3>2. PICK k \in DOMAIN f[d] : f[d][k] = n
      BY <3>1
    <3> DEFINE N == Len(f[d])
    <3>3. N \in Nat /\ k \in 1 .. N /\ f[d] \in Seq(Samples)
      BY <1>1, <3>2
    <3>4. g[n] = SubSeq(f[d], k, N)
      BY <1>2, <3>2
    <3>5. SubSeq(f[d], k, N) = <<n>> \o SubSeq(f[d], k + 1, N)
      <4>1. N \in k .. N
        BY <3>3
      <4>2. SubSeq(f[d], k, N) = <<f[d][k]>> \o SubSeq(f[d], k + 1, N)
        BY <3>3, <4>1, SubSeqRecursiveFirst
      <4> QED BY <3>2, <4>2
    <3>6. m.smp[n].next = IF k = N THEN IF d = owner THEN node ELSE NULL ELSE f[d][k + 1]
      BY <3>2 DEF Layout, Path
    <3>7. CASE k = N
      <4>1. SubSeq(f[d], k + 1, N) = <<>>
        BY <3>3, <3>7, SubSeqEmpty
      <4>2. g[m.smp[n].next] = <<>>
        BY <1>3, <3>6, <3>7
      <4> HIDE DEF g, N
      <4> QED BY <2>3, <3>4, <3>5, <4>1, <4>2
    <3>8. CASE k # N
      <4>1. k + 1 \in DOMAIN f[d] /\ m.smp[n].next = f[d][k + 1]
        BY <1>1, <3>3, <3>6, <3>8
      <4>2. g[m.smp[n].next] = SubSeq(f[d], k + 1, N)
        BY <1>2, <4>1
      <4> HIDE DEF g, N
      <4> QED BY <2>3, <3>4, <3>5, <4>2
    <3> QED BY <3>7, <3>8
  <2> QED BY <2>1, <2>2, <2>3
<1>5. g = [n \in S |-> IF n \in Samples \ {node} THEN <<n>> \o g[m.smp[n].next] ELSE <<>>]
  <2>1. DOMAIN g = S
    OBVIOUS
  <2>2. g = [n \in S |-> g[n]]
    OBVIOUS
  <2> HIDE DEF g, S
  <2> QED BY <1>4, <2>2
<1>6. Follow(g, m.smp, node)
  <2> HIDE DEF g
  <2> QED BY <1>5 DEF Follow
<1> HIDE DEF g
<1> QED BY <1>6

(* It finds the nodes of every entry.                                      *)
LEMMA FollowLayout ==
    ASSUME NEW f, NEW E, NEW m, NEW node \in Samples \cup {NULL}, NEW owner,
           Layout(f, E, m, node, owner), NEW g, Follow(g, m.smp, node)
    PROVE  \A d \in E : g[m.dev[d].rssi] = f[d]
<1> SUFFICES ASSUME NEW d \in E PROVE g[m.dev[d].rssi] = f[d]
  OBVIOUS
<1> DEFINE last == IF d = owner THEN node ELSE NULL
<1>1. f[d] \in Seq(Samples)
  BY DEF Layout
<1>2. Path(f[d], m.dev[d].rssi, last, m.smp)
  BY DEF Layout
<1>3. \A k \in DOMAIN f[d] : f[d][k] # node
  BY DEF Layout
<1>4. last = NULL \/ last = node
  OBVIOUS
<1> HIDE DEF last
<1> QED BY <1>1, <1>2, <1>3, <1>4, FollowFinds

(* So the samples of every entry are the nodes of its layout.              *)
LEMMA LayoutIsLinked ==
    \A f : Layout(f, Entries, mem, rssi.node, Owner) /\ Types => f = Paths
<1> SUFFICES ASSUME NEW f, Layout(f, Entries, mem, rssi.node, Owner), Types
             PROVE  f = Paths
  OBVIOUS
<1>1. mem.live \subseteq Samples /\ rssi.node \in Samples \cup {NULL}
  BY DEF Types, Memory, RssiState
<1>2. \E g : Follow(g, mem.smp, rssi.node)
  BY <1>1, FollowExists
<1>3. Linked = CHOOSE g : Follow(g, mem.smp, rssi.node)
  BY DEF Linked, Follow
<1>4. Follow(Linked, mem.smp, rssi.node)
  BY <1>2, <1>3
<1>5. \A d \in Entries : Linked[mem.dev[d].rssi] = f[d]
  BY <1>1, <1>4, FollowLayout
<1>6. f \in [Entries -> Seq(Samples)]
  BY DEF Layout
<1>7. f = [d \in Entries |-> f[d]]
  BY <1>6
<1> QED BY <1>5, <1>7 DEF Paths

(* The same after a step.                                                  *)
LEMMA LayoutIsLinkedNext ==
    \A f : Layout(f, Entries', mem', rssi'.node, Owner') /\ Types' => f = Paths'
<1>1. (\A f : Layout(f, Entries, mem, rssi.node, Owner) /\ Types => f = Paths)'
  BY LayoutIsLinked, PTL
<1>2. \A f : Layout(f, Entries, mem, rssi.node, Owner)'
            <=> Layout(f, Entries', mem', rssi'.node, Owner')
  BY DEF Layout, Path
<1> QED BY <1>1, <1>2
-----------------------------------------------------------------------------
(* What the steps of rssi_thread make of a layout.                         *)

(* Every entry has a sequence of distinct nodes.                           *)
LEMMA LayoutTypes ==
    ASSUME NEW f, NEW E, NEW m, NEW node, NEW owner, Layout(f, E, m, node, owner),
           NEW d \in E
    PROVE  /\ f[d] \in Seq(Samples)
           /\ Len(f[d]) \in Nat /\ DOMAIN f[d] = 1 .. Len(f[d])
           /\ \A k \in DOMAIN f[d] : f[d][k] \in Samples
           /\ f[d] # <<>> => Len(f[d]) \in DOMAIN f[d] /\ 1 \in DOMAIN f[d]
<1>1. f[d] \in Seq(Samples)
  BY DEF Layout
<1>2. Len(f[d]) \in Nat /\ DOMAIN f[d] = 1 .. Len(f[d])
  BY <1>1, LenProperties
<1>3. \A k \in DOMAIN f[d] : f[d][k] \in Samples
  BY <1>1, <1>2, ElementOfSeq
<1>4. f[d] # <<>> => Len(f[d]) \in Nat \ {0}
  BY <1>1, EmptySeq
<1> QED BY <1>1, <1>2, <1>3, <1>4

(* A step that writes to no sample and to no head of an entry.             *)
LEMMA LayoutKept ==
    ASSUME NEW f, NEW E, NEW m, NEW o, Layout(f, E, m, NULL, o),
           NEW m2, m2.smp = m.smp, m2.live = m.live,
           \A d \in E : m2.dev[d].rssi = m.dev[d].rssi, NEW o2
    PROVE  Layout(f, E, m2, NULL, o2)
  BY DEF Layout, Path

(* A new entry.                                                            *)
LEMMA LayoutExtended ==
    ASSUME NEW f, NEW E, NEW m, NEW o, Layout(f, E, m, NULL, o),
           NEW m2, m2.smp = m.smp, m2.live = m.live, NEW new, new \notin E,
           \A d \in E : m2.dev[d].rssi = m.dev[d].rssi,
           m2.dev[new].rssi = NULL, NEW o2
    PROVE  Layout([d \in E \cup {new} |-> IF d = new THEN <<>> ELSE f[d]],
                  E \cup {new}, m2, NULL, o2)
<1> DEFINE g == [d \in E \cup {new} |-> IF d = new THEN <<>> ELSE f[d]]
<1>1. g[new] = <<>> /\ DOMAIN g[new] = {} /\ \A d \in E : g[d] = f[d]
  OBVIOUS
<1>2. g \in [E \cup {new} -> Seq(Samples)]
  BY EmptySeq DEF Layout
<1>3. \A d \in E \cup {new} :
          Path(g[d], m2.dev[d].rssi, IF d = o2 THEN NULL ELSE NULL, m2.smp)
  BY <1>1 DEF Layout, Path
<1>4. \A d \in E \cup {new} : \A k \in DOMAIN g[d] : d \in E /\ k \in DOMAIN f[d]
  BY <1>1
<1> HIDE DEF g
<1>5. /\ \A d, e \in E \cup {new} : \A j \in DOMAIN g[d], k \in DOMAIN g[e] :
            g[d][j] = g[e][k] => d = e /\ j = k
      /\ \A d \in E \cup {new} : \A k \in DOMAIN g[d] : g[d][k] \in m2.live \ {NULL}
  BY <1>1, <1>4 DEF Layout
<1>6. \A n \in m2.live \ {NULL} :
          \E d \in E \cup {new} : \E k \in DOMAIN g[d] : g[d][k] = n
  BY <1>1 DEF Layout
<1>7. /\ \A n \in m2.live \ {NULL} : m2.smp[n].from \in MACs /\ m2.smp[n].date \in Nat
      /\ \A n \in Samples \ m2.live : m2.smp[n].next = Junk
  BY DEF Layout
<1>8. Layout(g, E \cup {new}, m2, NULL, o2)
  BY <1>2, <1>3, <1>5, <1>6, <1>7 DEF Layout
<1> QED BY <1>8 DEF g

(* The first sample of an entry.                                           *)
FirstWritten(E, m, m2, e, n) ==
    /\ e \in E /\ m.dev[e].rssi = NULL /\ n \in Samples \ m.live
    /\ m2.live = m.live \cup {n} /\ m2.dev[e].rssi = n
    /\ \A d \in E \ {e} : m2.dev[d].rssi = m.dev[d].rssi
    /\ \A i \in Samples \ {n} : m2.smp[i] = m.smp[i]
    /\ m2.smp[n].next = NULL /\ m2.smp[n].from \in MACs /\ m2.smp[n].date \in Nat

LEMMA LayoutFirst ==
    ASSUME NEW f, NEW E, NEW m, NEW o, Layout(f, E, m, NULL, o), m.live \subseteq Samples,
           NEW e, NEW n, NEW m2, FirstWritten(E, m, m2, e, n), NEW o2
    PROVE  f[e] = <<>> /\ Layout([f EXCEPT ![e] = <<n>>], E, m2, NULL, o2)
<1> USE DEF FirstWritten
<1> DEFINE g == [f EXCEPT ![e] = <<n>>]
<1>1. \A d \in E : \A k \in DOMAIN f[d] : /\ f[d][k] \in m.live /\ f[d][k] \in Samples \ {n}
  BY DEF Layout
<1>2. f[e] = <<>>
  <2> SUFFICES ASSUME f[e] # <<>> PROVE FALSE
    OBVIOUS
  <2>1. m.dev[e].rssi = f[e][1]
    BY DEF Layout, Path
  <2>2. 1 \in DOMAIN f[e]
    BY LayoutTypes
  <2> QED BY <1>1, <2>1, <2>2, NoNodes
<1>3. /\ g \in [E -> Seq(Samples)] /\ DOMAIN f = E
      /\ g[e] = <<n>> /\ \A d \in E \ {e} : g[d] = f[d]
  BY DEF Layout
<1>4. <<n>> # <<>> /\ Len(<<n>>) = 1 /\ DOMAIN <<n>> = {1} /\ <<n>>[1] = n
  OBVIOUS
<1> HIDE DEF g
<1>5. Path(g[e], m2.dev[e].rssi, NULL, m2.smp)
  BY <1>3, <1>4 DEF Path
<1>6. ASSUME NEW d \in E \ {e}
      PROVE  Path(g[d], m2.dev[d].rssi, NULL, m2.smp)
  <2>1. Path(f[d], m.dev[d].rssi, NULL, m.smp) /\ g[d] = f[d]
    BY <1>3 DEF Layout
  <2>2. \A k \in DOMAIN f[d] : m2.smp[f[d][k]] = m.smp[f[d][k]]
    BY <1>1
  <2> QED BY <2>1, <2>2 DEF Path
<1>7. \A d, c \in E : \A j \in DOMAIN g[d], k \in DOMAIN g[c] :
          g[d][j] = g[c][k] => d = c /\ j = k
  <2>1. /\ \A d \in E \ {e} : \A k \in DOMAIN g[d] : g[d][k] # n
        /\ \A k \in DOMAIN g[e] : g[e][k] = n /\ k = 1
    BY <1>1, <1>3, <1>4
  <2>2. \A d, c \in E \ {e} : \A j \in DOMAIN g[d], k \in DOMAIN g[c] :
            g[d][j] = g[c][k] => d = c /\ j = k
    BY <1>3 DEF Layout
  <2> QED BY <2>1, <2>2
<1>8. \A d \in E : \A k \in DOMAIN g[d] : g[d][k] \in m2.live \ {NULL}
  BY <1>1, <1>3, <1>4, NoNodes
<1>9. \A i \in m2.live \ {NULL} : \E d \in E : \E k \in DOMAIN g[d] : g[d][k] = i
  <2>1. \E k \in DOMAIN g[e] : g[e][k] = n
    BY <1>3, <1>4
  <2>2. ASSUME NEW i \in m.live \ {NULL}
        PROVE  \E d \in E : \E k \in DOMAIN g[d] : g[d][k] = i
    <3>1. PICK d \in E : \E k \in DOMAIN f[d] : f[d][k] = i
      BY DEF Layout
    <3>2. d # e
      BY <1>2, <3>1
    <3> QED BY <1>3, <3>1, <3>2
  <2> QED BY <2>1, <2>2
<1>10. /\ \A i \in m2.live \ {NULL} : m2.smp[i].from \in MACs /\ m2.smp[i].date \in Nat
       /\ \A i \in Samples \ m2.live : m2.smp[i].next = Junk
  BY DEF Layout
<1>11. Layout(g, E, m2, NULL, o2)
  BY <1>3, <1>5, <1>6, <1>7, <1>8, <1>9, <1>10 DEF Layout
<1> QED BY <1>2, <1>11 DEF g

(* A node is linked behind the last sample of an entry.                    *)
LEMMA LayoutLinked ==
    ASSUME NEW f, NEW E, NEW m, NEW o, Layout(f, E, m, NULL, o), m.live \subseteq Samples,
           NEW e \in E, f[e] # <<>>, NEW n \in Samples \ m.live,
           NEW m2, m2.live = m.live \cup {n}, m2.dev = m.dev,
           LET t == f[e][Len(f[e])]
           IN  /\ \A i \in Samples \ {n, t} : m2.smp[i] = m.smp[i]
               /\ m2.smp[t].next = n
               /\ m2.smp[t].from = m.smp[t].from
               /\ m2.smp[t].date = m.smp[t].date
    PROVE  Layout(f, E, m2, n, e)
<1> DEFINE t == f[e][Len(f[e])]
<1>1. \A d \in E : \A k \in DOMAIN f[d] : /\ f[d][k] \in m.live /\ f[d][k] \in Samples \ {n}
  BY DEF Layout
<1>2. /\ Len(f[e]) \in DOMAIN f[e] /\ t \in m.live
      /\ \A i \in m.live \ {t} : m2.smp[i] = m.smp[i]
      /\ m2.smp[t].next = n
  BY <1>1, LayoutTypes
<1>3. \A d \in E : \A k \in DOMAIN f[d] :
          f[d][k] = t <=> d = e /\ k = Len(f[e])
  BY <1>2 DEF Layout
<1> HIDE DEF t
<1>4. ASSUME NEW d \in E
      PROVE  Path(f[d], m2.dev[d].rssi, IF d = e THEN n ELSE NULL, m2.smp)
  <2>1. Path(f[d], m.dev[d].rssi, NULL, m.smp)
    BY DEF Layout
  <2>2. m2.dev[d].rssi = IF f[d] = <<>> THEN IF d = e THEN n ELSE NULL ELSE f[d][1]
    BY <2>1 DEF Path
  <2>3. ASSUME NEW k \in DOMAIN f[d]
        PROVE  m2.smp[f[d][k]].next = IF k = Len(f[d]) THEN IF d = e THEN n ELSE NULL
                                      ELSE f[d][k + 1]
    <3>1. CASE d = e /\ k = Len(f[e])
      BY <1>2, <1>3, <3>1
    <3>2. CASE ~(d = e /\ k = Len(f[e]))
      <4>1. m2.smp[f[d][k]] = m.smp[f[d][k]]
        BY <1>1, <1>2, <1>3, <3>2
      <4> QED BY <2>1, <3>2, <4>1 DEF Path
    <3> QED BY <3>1, <3>2
  <2> QED BY <2>2, <2>3 DEF Path
<1>5. \A d \in E : \A k \in DOMAIN f[d] : f[d][k] \in m2.live \ {n}
  BY <1>1
<1>6. m2.live \ {n} = m.live /\ NULL \notin m.live
  BY NoNodes
<1>7. \A i \in m2.live \ {n} : m2.smp[i].from \in MACs /\ m2.smp[i].date \in Nat
  BY <1>2, <1>6 DEF Layout, t
<1>8. \A i \in Samples \ m2.live : m2.smp[i].next = Junk
  BY <1>2 DEF Layout, t
<1>9. \A i \in m2.live \ {n} : \E d \in E : \E k \in DOMAIN f[d] : f[d][k] = i
  BY <1>6 DEF Layout
<1> QED BY <1>4, <1>5, <1>7, <1>8, <1>9 DEF Layout

(* The node behind the last sample is initialised.                         *)
LEMMA LayoutInitialised ==
    ASSUME NEW f, NEW E, NEW m, NEW n \in m.live, NEW e \in E, Layout(f, E, m, n, e),
           m.live \subseteq Samples,
           NEW m2, m2.live = m.live, m2.dev = m.dev,
           \A i \in Samples \ {n} : m2.smp[i] = m.smp[i],
           m2.smp[n].next = NULL, m2.smp[n].from \in MACs, m2.smp[n].date \in Nat,
           NEW o2
    PROVE  Layout([f EXCEPT ![e] = Append(f[e], n)], E, m2, NULL, o2)
<1> DEFINE g == [f EXCEPT ![e] = Append(f[e], n)]
           N == Len(f[e])
<1>1. \A d \in E : \A k \in DOMAIN f[d] : f[d][k] \in m.live \ {n}
  BY DEF Layout
<1>2. /\ f[e] \in Seq(Samples) /\ N \in Nat /\ DOMAIN f[e] = 1 .. N
      /\ f[e] # <<>> => N \in 1 .. N /\ 1 \in 1 .. N
  BY LayoutTypes
<1>3. /\ Append(f[e], n) \in Seq(Samples) /\ Append(f[e], n) # <<>>
      /\ Len(Append(f[e], n)) = N + 1
      /\ \A i \in 1 .. N : Append(f[e], n)[i] = f[e][i]
      /\ Append(f[e], n)[N + 1] = n
  BY <1>2, AppendProperties
<1>4. DOMAIN Append(f[e], n) = 1 .. N + 1
  BY <1>3, LenProperties
<1>5. /\ g \in [E -> Seq(Samples)] /\ DOMAIN f = E
      /\ g[e] = Append(f[e], n) /\ \A d \in E \ {e} : g[d] = f[d]
  BY <1>3 DEF Layout
<1> HIDE DEF g
<1>6. /\ DOMAIN g[e] = 1 .. N + 1 /\ Len(g[e]) = N + 1 /\ g[e] # <<>>
      /\ \A i \in 1 .. N : g[e][i] = f[e][i]
      /\ g[e][N + 1] = n
  BY <1>3, <1>4, <1>5
<1> HIDE DEF N
<1>7. Path(g[e], m2.dev[e].rssi, NULL, m2.smp)
  <2>1. Path(f[e], m.dev[e].rssi, n, m.smp)
    BY DEF Layout
  <2>2. m2.dev[e].rssi = g[e][1]
    <3>1. CASE f[e] = <<>>
      <4>1. N = 0
        BY <3>1, EmptySeq DEF N
      <4> QED BY <2>1, <3>1, <4>1, <1>6 DEF Path
    <3>2. CASE f[e] # <<>>
      BY <2>1, <3>2, <1>2, <1>6 DEF Path
    <3> QED BY <3>1, <3>2
  <2>3. ASSUME NEW k \in 1 .. N
        PROVE  m2.smp[g[e][k]].next = g[e][k + 1]
    <3>1. g[e][k] = f[e][k] /\ m2.smp[f[e][k]] = m.smp[f[e][k]]
      BY <1>1, <1>2, <1>6
    <3>2. m.smp[f[e][k]].next = IF k = N THEN n ELSE f[e][k + 1]
      BY <2>1, <1>2 DEF Path, N
    <3>3. g[e][k + 1] = IF k = N THEN n ELSE f[e][k + 1]
      BY <1>2, <1>6
    <3> QED BY <3>1, <3>2, <3>3
  <2>4. \A k \in DOMAIN g[e] : k \in 1 .. N \/ k = N + 1
    BY <1>2, <1>6
  <2>5. \A k \in 1 .. N : k # N + 1
    BY <1>2
  <2> QED BY <2>2, <2>3, <2>4, <2>5, <1>6 DEF Path
<1>8. ASSUME NEW d \in E \ {e}
      PROVE  Path(g[d], m2.dev[d].rssi, NULL, m2.smp)
  <2>1. Path(f[d], m.dev[d].rssi, NULL, m.smp) /\ g[d] = f[d]
    BY <1>5 DEF Layout
  <2>2. \A k \in DOMAIN f[d] : m2.smp[f[d][k]] = m.smp[f[d][k]]
    BY <1>1
  <2> QED BY <2>1, <2>2 DEF Path
<1>9. \A k \in DOMAIN g[e] : \/ k \in DOMAIN f[e] /\ g[e][k] = f[e][k]
                             \/ k = N + 1 /\ g[e][k] = n
  <2>1. \A k \in 1 .. N + 1 : k \in 1 .. N \/ k = N + 1
    BY <1>2
  <2> QED BY <2>1, <1>2, <1>6
<1>10. \A d, c \in E : \A j \in DOMAIN g[d], k \in DOMAIN g[c] :
          g[d][j] = g[c][k] => d = c /\ j = k
  <2>1. \A d \in E : \A k \in DOMAIN g[d] :
            \/ k \in DOMAIN f[d] /\ g[d][k] = f[d][k] /\ g[d][k] # n
            \/ d = e /\ k = N + 1 /\ g[d][k] = n
    BY <1>1, <1>5, <1>9
  <2>2. \A d, c \in E : \A j \in DOMAIN f[d], k \in DOMAIN f[c] :
            f[d][j] = f[c][k] => d = c /\ j = k
    BY DEF Layout
  <2> QED BY <2>1, <2>2
<1>11. \A d \in E : \A k \in DOMAIN g[d] : g[d][k] \in m2.live \ {NULL}
  <2>1. \A d \in E \ {e} : \A k \in DOMAIN g[d] : g[d][k] \in m.live
    BY <1>1, <1>5
  <2>2. \A k \in DOMAIN g[e] : g[e][k] \in m.live
    BY <1>1, <1>9
  <2> QED BY <2>1, <2>2, NoNodes
<1>12. \A i \in m2.live \ {NULL} : \E d \in E : \E k \in DOMAIN g[d] : g[d][k] = i
  <2>1. N + 1 \in DOMAIN g[e] /\ g[e][N + 1] = n
    BY <1>2, <1>6
  <2>2. ASSUME NEW i \in m.live \ {n}
        PROVE  \E d \in E : \E k \in DOMAIN g[d] : g[d][k] = i
    <3>1. PICK d \in E : \E k \in DOMAIN f[d] : f[d][k] = i
      BY DEF Layout
    <3>2. PICK k \in DOMAIN f[d] : f[d][k] = i
      BY <3>1
    <3>3. k \in DOMAIN g[d] /\ g[d][k] = i
      BY <1>2, <1>5, <1>6, <3>2
    <3> QED BY <3>3
  <2> QED BY <2>1, <2>2
<1>13. /\ \A i \in m2.live \ {NULL} : m2.smp[i].from \in MACs /\ m2.smp[i].date \in Nat
       /\ \A i \in Samples \ m2.live : m2.smp[i].next = Junk
  BY DEF Layout
<1>14. Layout(g, E, m2, NULL, o2)
  BY <1>5, <1>7, <1>8, <1>10, <1>11, <1>12, <1>13 DEF Layout
<1> QED BY <1>14 DEF g

(* The first sample of an entry is unlinked and freed.                     *)
HeadFreed(E, m, m2, e) ==
    LET n == m.dev[e].rssi
    IN  /\ e \in E /\ n # NULL /\ m2.live = m.live \ {n}
        /\ m2.dev[e].rssi = m.smp[n].next
        /\ \A d \in E \ {e} : m2.dev[d].rssi = m.dev[d].rssi
        /\ \A i \in Samples \ {n} : m2.smp[i] = m.smp[i]
        /\ m2.smp[n].next = Junk

LEMMA LayoutUnlinked ==
    ASSUME NEW f, NEW E, NEW m, NEW o, Layout(f, E, m, NULL, o), m.live \subseteq Samples,
           NEW e, NEW m2, HeadFreed(E, m, m2, e), NEW o2
    PROVE  /\ f[e] # <<>> /\ m.dev[e].rssi = f[e][1]
           /\ Layout([f EXCEPT ![e] = Tail(f[e])], E, m2, NULL, o2)
<1> USE DEF HeadFreed
<1> DEFINE g == [f EXCEPT ![e] = Tail(f[e])]
           N == Len(f[e])
           n == m.dev[e].rssi
<1>1. Path(f[e], n, NULL, m.smp)
  BY DEF Layout
<1>2. f[e] # <<>> /\ n = f[e][1]
  BY <1>1 DEF Path
<1>3. f[e] \in Seq(Samples) /\ N \in Nat /\ DOMAIN f[e] = 1 .. N /\ 1 \in 1 .. N
  BY <1>2, LayoutTypes
<1>4. /\ Tail(f[e]) \in Seq(Samples) /\ Len(Tail(f[e])) = N - 1
      /\ \A i \in 1 .. N - 1 : Tail(f[e])[i] = f[e][i + 1]
  BY <1>2, <1>3, HeadTailProperties
<1>5. DOMAIN Tail(f[e]) = 1 .. N - 1
  BY <1>4, LenProperties
<1>6. /\ g \in [E -> Seq(Samples)] /\ DOMAIN f = E
      /\ g[e] = Tail(f[e]) /\ \A d \in E \ {e} : g[d] = f[d]
  BY <1>4 DEF Layout
<1>7. \A d \in E : \A k \in DOMAIN f[d] : f[d][k] \in m.live /\ f[d][k] \in Samples \ {NULL}
  BY NoNodes DEF Layout
<1>8. n \in m.live /\ n \in Samples
  BY <1>2, <1>3, <1>7
<1>9. \A d \in E : \A k \in DOMAIN f[d] : f[d][k] = n <=> d = e /\ k = 1
  BY <1>2, <1>3 DEF Layout
<1> HIDE DEF g, n, N
<1>10. /\ DOMAIN g[e] = 1 .. N - 1 /\ Len(g[e]) = N - 1
       /\ \A i \in 1 .. N - 1 : g[e][i] = f[e][i + 1]
       /\ g[e] = <<>> <=> N = 1
  <2>1. g[e] = <<>> => N - 1 = 0
    BY <1>4, <1>6, EmptySeq
  <2>2. g[e] # <<>> => N - 1 \in Nat \ {0}
    BY <1>4, <1>6, EmptySeq
  <2> QED BY <1>3, <1>4, <1>5, <1>6, <2>1, <2>2
<1>11. Path(g[e], m2.dev[e].rssi, NULL, m2.smp)
  <2>1. m2.dev[e].rssi = m.smp[f[e][1]].next
    BY <1>2 DEF n
  <2>2. m.smp[f[e][1]].next = IF N = 1 THEN NULL ELSE f[e][2]
    <3>1. \A k \in DOMAIN f[e] : m.smp[f[e][k]].next = IF k = N THEN NULL ELSE f[e][k + 1]
      BY <1>1 DEF Path, N
    <3>2. 1 \in DOMAIN f[e] /\ 1 + 1 = 2
      BY <1>3
    <3> QED BY <3>1, <3>2
  <2>3. m2.dev[e].rssi = IF g[e] = <<>> THEN NULL ELSE g[e][1]
    BY <2>1, <2>2, <1>3, <1>10
  <2>4. ASSUME NEW k \in 1 .. N - 1
        PROVE  m2.smp[g[e][k]].next = IF k = N - 1 THEN NULL ELSE g[e][k + 1]
    <3>1. k + 1 \in DOMAIN f[e] /\ k + 1 # 1 /\ g[e][k] = f[e][k + 1]
      BY <1>3, <1>10
    <3>2. m2.smp[f[e][k + 1]] = m.smp[f[e][k + 1]]
      BY <3>1, <1>7, <1>9 DEF n
    <3>3. m.smp[f[e][k + 1]].next = IF k + 1 = N THEN NULL ELSE f[e][(k + 1) + 1]
      BY <1>1, <3>1 DEF Path, N
    <3>4. k # N - 1 => g[e][k + 1] = f[e][(k + 1) + 1]
      <4>1. k # N - 1 => k + 1 \in 1 .. N - 1
        <5>1. N \in Int /\ k \in 1 .. N - 1
          BY <1>3
        <5> QED BY <5>1
      <4> QED BY <4>1, <1>10
    <3> QED BY <1>3, <3>1, <3>2, <3>3, <3>4
  <2> QED BY <2>3, <2>4, <1>10 DEF Path
<1>12. ASSUME NEW d \in E \ {e}
       PROVE  Path(g[d], m2.dev[d].rssi, NULL, m2.smp)
  <2>1. Path(f[d], m.dev[d].rssi, NULL, m.smp) /\ g[d] = f[d]
    BY <1>6 DEF Layout
  <2>2. \A k \in DOMAIN f[d] : m2.smp[f[d][k]] = m.smp[f[d][k]]
    BY <1>7, <1>9 DEF n
  <2> QED BY <2>1, <2>2 DEF Path
<1>13. \A k \in DOMAIN g[e] : k + 1 \in DOMAIN f[e] /\ k + 1 # 1 /\ g[e][k] = f[e][k + 1]
  BY <1>3, <1>10
<1>14. \A d \in E : \A k \in DOMAIN g[d] : g[d][k] \in m2.live \ {NULL}
  <2>1. \A d \in E \ {e} : \A k \in DOMAIN g[d] : g[d][k] \in m.live \ {n, NULL}
    BY <1>6, <1>7, <1>9
  <2>2. \A k \in DOMAIN g[e] : g[e][k] \in m.live \ {n, NULL}
    BY <1>7, <1>9, <1>13
  <2> QED BY <2>1, <2>2 DEF n
<1>15. \A d, c \in E : \A j \in DOMAIN g[d], k \in DOMAIN g[c] :
          g[d][j] = g[c][k] => d = c /\ j = k
  <2> DEFINE at(d, k) == IF d = e THEN k + 1 ELSE k
  <2>1. \A d \in E : \A k \in DOMAIN g[d] :
            at(d, k) \in DOMAIN f[d] /\ g[d][k] = f[d][at(d, k)]
    BY <1>6, <1>13
  <2>2. \A d, c \in E : \A j \in DOMAIN f[d], k \in DOMAIN f[c] :
            f[d][j] = f[c][k] => d = c /\ j = k
    BY DEF Layout
  <2>3. \A d, c \in E : \A j \in DOMAIN g[d], k \in DOMAIN g[c] :
            g[d][j] = g[c][k] => d = c /\ at(d, j) = at(c, k)
    <3> HIDE DEF at
    <3> QED BY <2>1, <2>2
  <2>4. \A j, k \in DOMAIN g[e] : j + 1 = k + 1 => j = k
    BY <1>3, <1>10
  <2> QED BY <2>3, <2>4
<1>16. \A i \in m2.live \ {NULL} : \E d \in E : \E k \in DOMAIN g[d] : g[d][k] = i
  <2> SUFFICES ASSUME NEW i \in m.live, i # n, i # NULL
               PROVE  \E d \in E : \E k \in DOMAIN g[d] : g[d][k] = i
    BY DEF n
  <2>1. PICK d \in E : \E k \in DOMAIN f[d] : f[d][k] = i
    BY DEF Layout
  <2>2. PICK k \in DOMAIN f[d] : f[d][k] = i
    BY <2>1
  <2>3. CASE d # e
    BY <1>6, <2>2, <2>3
  <2>4. CASE d = e
    <3>1. k # 1 /\ k \in 1 .. N
      BY <1>2, <1>3, <2>2, <2>4
    <3>2. k - 1 \in 1 .. N - 1 /\ (k - 1) + 1 = k
      BY <1>3, <3>1
    <3>3. k - 1 \in DOMAIN g[e] /\ g[e][k - 1] = i
      BY <1>10, <2>2, <2>4, <3>2
    <3> QED BY <3>3
  <2> QED BY <2>3, <2>4
<1>17. /\ \A i \in m2.live \ {NULL} : m2.smp[i].from \in MACs /\ m2.smp[i].date \in Nat
       /\ \A i \in Samples \ m2.live : m2.smp[i].next = Junk
  <2>1. \A i \in m2.live \ {NULL} : m2.smp[i] = m.smp[i] /\ i \in m.live \ {NULL}
    OBVIOUS
  <2>2. \A i \in Samples \ m2.live : i = n \/ (i \in Samples \ m.live /\ m2.smp[i] = m.smp[i])
    BY DEF n
  <2>3. m2.smp[n].next = Junk
    BY DEF n
  <2> HIDE DEF HeadFreed
  <2> QED BY <2>1, <2>2, <2>3 DEF Layout
<1>18. Layout(g, E, m2, NULL, o2)
  BY <1>6, <1>11, <1>12, <1>14, <1>15, <1>16, <1>17 DEF Layout
<1> QED BY <1>2, <1>18 DEF g, n
-----------------------------------------------------------------------------
(* Every step keeps the variables in their types.                          *)

(* The parts of the memory have theirs.                                    *)
LEMMA MemoryTypes ==
    ASSUME NEW m \in Memory
    PROVE  /\ m.l \in {"null", "junk", "list"}
           /\ m.dev \in Seq(DeviceNode)
           /\ Len(m.dev) \in Nat /\ DOMAIN m.dev = 1 .. Len(m.dev)
           /\ \A i \in DOMAIN m.dev : m.dev[i] \in DeviceNode
           /\ m.smp \in [Samples -> SampleNode]
           /\ m.live \subseteq Samples
<1>1. m.dev \in Seq(DeviceNode) /\ m.smp \in [Samples -> SampleNode]
  BY DEF Memory
<1>2. Len(m.dev) \in Nat /\ DOMAIN m.dev = 1 .. Len(m.dev)
  BY <1>1, LenProperties
<1>3. \A i \in DOMAIN m.dev : m.dev[i] \in DeviceNode
  BY <1>1, <1>2, ElementOfSeq
<1> QED BY <1>1, <1>2, <1>3 DEF Memory

(* The address in a captured frame is a station's.                         *)
LEMMA SourceType ==
    ASSUME packet \in Frames
    PROVE  Source \in MACs
<1>1. packet \in Capturing!Packet
  BY RouterFramesAssumption
<1> QED BY <1>1 DEF Capturing!Packet, Source

(* So are what rssi_thread writes to the nodes.                            *)
LEMMA NodeTypes ==
    ASSUME packet \in Frames, clock \in Nat
    PROVE  NewDevice \in DeviceNode /\ NewSample \in SampleNode
<1>1. Source \in MACs
  BY SourceType
<1>2. NewDevice \in DeviceNode
  BY <1>1 DEF NewDevice, DeviceNode, NULL
<1> HIDE DEF Source
<1>3. NewSample = [from |-> Source, date |-> clock, next |-> NULL]
  BY DEF NewSample
<1>4. NewSample \in SampleNode
  BY <1>1, <1>3 DEF SampleNode
<1> QED BY <1>2, <1>4

(* What is not initialised or was freed.                                   *)
LEMMA JunkTypes == JunkDevice \in DeviceNode /\ JunkSample \in SampleNode
  BY DEF JunkDevice, JunkSample, DeviceNode, SampleNode

(* A write of the head pointer of one entry.                               *)
LEMMA HeadWritten ==
    ASSUME NEW d \in Seq(DeviceNode), NEW i \in DOMAIN d,
           NEW p \in Samples \cup {NULL, Junk}
    PROVE  LET d2 == [d EXCEPT ![i].rssi = p]
           IN  /\ d2 \in Seq(DeviceNode)
               /\ Len(d2) = Len(d) /\ DOMAIN d2 = DOMAIN d
               /\ d2[i].rssi = p
               /\ \A j \in DOMAIN d : d2[j].mac = d[j].mac /\ d2[j].next = d[j].next
               /\ \A j \in DOMAIN d \ {i} : d2[j] = d[j]
<1> DEFINE e == [d[i] EXCEPT !.rssi = p]
<1>1. Len(d) \in Nat /\ DOMAIN d = 1 .. Len(d) /\ d[i] \in DeviceNode
  BY LenProperties, ElementOfSeq
<1>2. e \in DeviceNode /\ e.rssi = p /\ e.mac = d[i].mac /\ e.next = d[i].next
  BY <1>1 DEF DeviceNode
<1>3. [d EXCEPT ![i].rssi = p] = [d EXCEPT ![i] = e]
  OBVIOUS
<1> HIDE DEF e
<1>4. /\ [d EXCEPT ![i] = e] \in Seq(DeviceNode)
      /\ Len([d EXCEPT ![i] = e]) = Len(d)
  BY <1>1, <1>2, ExceptSeq
<1> QED BY <1>1, <1>2, <1>3, <1>4

-----------------------------------------------------------------------------
(* The invariant is inductive.  Each step of rssi_thread also tells what   *)
(* becomes of the nodes of the entries.                                    *)

(* A step that writes no pointer and no sample.                            *)
LEMMA SameNodes ==
    ASSUME IInv, Types', mem'.dev = mem.dev, mem'.smp = mem.smp, mem'.live = mem.live,
           rssi.node = NULL, rssi'.node = NULL, Entries' = Entries
    PROVE  /\ Paths' = Paths
           /\ Layout(Paths', Entries', mem', rssi'.node, Owner')
           /\ Devices(mem'.dev, Entries')
<1>1. Layout(Paths, Entries, mem, NULL, Owner)
  BY DEF IInv
<1>2. Layout(Paths, Entries, mem', NULL, Owner')
  BY <1>1, LayoutKept
<1>3. Paths = Paths'
  BY <1>2, LayoutIsLinkedNext
<1> QED BY <1>2, <1>3 DEF IInv

(* A step of socket_thread or of the clock.                                *)
LEMMA OthersInv ==
    ASSUME IInv, Types', rssi' = rssi, mem' = mem, packet' = packet
    PROVE  IInv' /\ Paths' = Paths
<1>1. Entries' = Entries /\ Owner' = Owner /\ Source' = Source
  BY DEF Entries, Owner, Source
<1>2. Layout(Paths, Entries', mem', rssi'.node, Owner') /\ Devices(mem'.dev, Entries')
  BY <1>1 DEF IInv
<1>3. Paths = Paths'
  BY <1>2, LayoutIsLinkedNext
<1>4. Control' /\ Filing' /\ Expiring'
  BY <1>1 DEF IInv, Control, Filing, Expiring, Capturing!Accepted
<1> QED BY <1>2, <1>3, <1>4 DEF IInv

(* The list is allocated, then empty.                                      *)
LEMMA AllocListInv ==
    ASSUME IInv, AllocList \/ InitList
    PROVE  IInv' /\ Paths' = Paths /\ mem'.dev = mem.dev
<1>1. /\ mem' \in Memory /\ mem'.dev = mem.dev /\ mem'.smp = mem.smp /\ mem'.live = mem.live
      /\ mem'.l = IF rssi.pc = "start" THEN "junk" ELSE "list"
      /\ mem.dev = <<>>
  BY DEF IInv, Types, Control, Memory, AllocList, InitList
<1>2. /\ rssi' \in RssiState
      /\ rssi.pc \in {"start", "alloc"}
      /\ rssi'.pc = IF rssi.pc = "start" THEN "alloc" ELSE "capture"
      /\ rssi'.dev = rssi.dev /\ rssi'.new = rssi.new /\ rssi'.node = rssi.node
  BY DEF IInv, Types, RssiState, RssiPcs, AllocList, InitList
<1>3. Types'
  BY <1>1, <1>2 DEF IInv, Types, AllocList, InitList, Changes
<1>4. Entries' = Entries
  BY <1>1, <1>2 DEF Entries
<1>5. rssi.node = NULL /\ rssi'.node = NULL
  BY <1>2 DEF IInv, Control
<1>6. /\ Paths' = Paths
      /\ Layout(Paths', Entries', mem', rssi'.node, Owner')
      /\ Devices(mem'.dev, Entries')
  BY <1>1, <1>3, <1>4, <1>5, SameNodes
<1>7. Control'
  BY <1>1, <1>2, <1>5 DEF IInv, Control
<1>8. Filing' /\ Expiring'
  BY <1>2 DEF Filing, Expiring
<1> QED BY <1>1, <1>3, <1>6, <1>7, <1>8 DEF IInv

(* The process ends in rssi_thread.                                        *)
LEMMA EndInv ==
    ASSUME IInv, OpenFails \/ CaptureFails \/ MallocFails
    PROVE  IInv' /\ Paths' = Paths
<1>1. PICK how \in {"exited", "crashed"} :
          /\ proc' = how /\ rssi' = [rssi EXCEPT !.pc = how]
          /\ rssi.pc \in {"start", "capture", "classify", "sample"}
          /\ rssi.pc = "sample" => how = "crashed"
          /\ UNCHANGED <<packet, mem, sock, clock, rate, disturbed>>
  BY DEF OpenFails, CaptureFails, MallocFails, End, Allocates, Accepting
<1>2. /\ rssi' \in RssiState
      /\ rssi'.pc = how
      /\ rssi'.dev = rssi.dev /\ rssi'.new = rssi.new /\ rssi'.node = rssi.node
  BY <1>1 DEF IInv, Types, RssiState, RssiPcs
<1>3. Types'
  BY <1>1, <1>2 DEF IInv, Types
<1>4. Entries' = Entries
  BY <1>1, <1>2 DEF Entries
<1>5. rssi.node = NULL /\ rssi'.node = NULL
  BY <1>1, <1>2 DEF IInv, Control
<1>6. /\ Paths' = Paths
      /\ Layout(Paths', Entries', mem', rssi'.node, Owner')
      /\ Devices(mem'.dev, Entries')
  BY <1>1, <1>3, <1>4, <1>5, SameNodes
<1>7. Control'
  BY <1>1, <1>2, <1>5 DEF IInv, Control
<1>8. Filing' /\ Expiring'
  BY <1>2 DEF Filing, Expiring
<1> QED BY <1>3, <1>6, <1>7, <1>8 DEF IInv

(* A frame is captured; it is skipped, or its station has an entry.        *)
LEMMA FrameInv ==
    ASSUME IInv, Capture \/ Skip \/ Known
    PROVE  IInv' /\ Paths' = Paths
<1>0. mem.dev \in Seq(DeviceNode) /\ Len(mem.dev) \in Nat /\ DOMAIN mem.dev = 1 .. Len(mem.dev)
  BY MemoryTypes DEF IInv, Types
<1>1. is_known(mem.dev, Source) # NULL =>
          /\ is_known(mem.dev, Source) \in DOMAIN mem.dev
          /\ mem.dev[is_known(mem.dev, Source)].mac = Source
  BY <1>0, KnownEntry
<1>2. /\ mem' = mem /\ proc' = proc /\ sock' = sock /\ clock' = clock
      /\ packet' \in Frames \cup {NoPacket}
  BY DEF IInv, Types, Capture, Skip, Known, Local
<1>3. /\ rssi' \in RssiState
      /\ rssi.pc \in {"capture", "classify"}
      /\ rssi'.pc \in {"capture", "classify", "sample"}
      /\ rssi'.new = rssi.new /\ rssi'.node = rssi.node
      /\ rssi'.dev \in {NULL} \cup DOMAIN mem.dev
  <2> DEFINE dev == is_known(mem.dev, Source)
  <2>1. Known => dev # NULL /\ dev \in DOMAIN mem.dev /\ dev \in Nat
    BY <1>0, <1>1 DEF Known
  <2>2. rssi.dev \in {NULL} \cup DOMAIN mem.dev
    BY DEF IInv, Control
  <2>3. Known => rssi' = [rssi EXCEPT !.pc = "sample", !.dev = dev]
    BY DEF Known
  <2> HIDE DEF dev
  <2> QED BY <2>1, <2>2, <2>3 DEF IInv, Types, RssiState, RssiPcs, Capture, Skip, Known, Accepting
<1>4. Types'
  BY <1>2, <1>3 DEF IInv, Types
<1>5. Entries' = Entries
  BY <1>2, <1>3 DEF Entries
<1>6. rssi.node = NULL /\ rssi'.node = NULL /\ ~rssi.new /\ mem.l = "list"
  BY <1>3 DEF IInv, Control
<1>7. /\ Paths' = Paths
      /\ Layout(Paths', Entries', mem', rssi'.node, Owner')
      /\ Devices(mem'.dev, Entries')
  BY <1>2, <1>4, <1>5, <1>6, SameNodes
<1>8. CASE Capture \/ Skip
  <2>1. /\ rssi'.pc = "classify" => packet' \in Frames
        /\ rssi'.pc \in {"capture", "classify"}
    BY <1>8 DEF IInv, Types, RssiState, Capture, Skip
  <2>2. Control'
    BY <1>2, <1>3, <1>6, <2>1 DEF IInv, Control
  <2>3. Filing' /\ Expiring'
    BY <2>1 DEF Filing, Expiring
  <2> QED BY <1>4, <1>7, <2>2, <2>3 DEF IInv
<1>9. CASE Known
  <2>1. /\ rssi'.pc = "sample" /\ rssi'.dev = is_known(mem.dev, Source) /\ rssi'.dev # NULL
        /\ packet' = packet /\ packet \in Frames /\ Capturing!Accepted(packet)
    BY <1>9 DEF IInv, Types, RssiState, Control, Known, Accepting, Local
  <2>2. Control'
    BY <1>2, <1>3, <1>6, <2>1 DEF IInv, Control, Capturing!Accepted
  <2>3. mem'.dev[rssi'.dev].mac = Source'
    BY <1>1, <1>2, <2>1 DEF Source
  <2>4. Filing' /\ Expiring'
    BY <1>3, <1>6, <2>1, <2>3 DEF Filing, Expiring
  <2> QED BY <1>4, <1>7, <2>2, <2>4 DEF IInv
<1> QED BY <1>8, <1>9

(* A node is linked behind the last entry.                                 *)
LEMMA DeviceAppended ==
    ASSUME NEW d \in Seq(DeviceNode), d # <<>>
    PROVE  LET n  == Len(d)
               d2 == Append([d EXCEPT ![n].next = n + 1], JunkDevice)
           IN  /\ d2 \in Seq(DeviceNode)
               /\ Len(d2) = n + 1 /\ DOMAIN d2 = 1 .. n + 1
               /\ n \in Nat /\ n > 0 /\ DOMAIN d = 1 .. n
               /\ \A j \in 1 .. n : /\ d2[j].mac = d[j].mac /\ d2[j].rssi = d[j].rssi
                                    /\ d2[j].next = IF j = n THEN n + 1 ELSE d[j].next
               /\ d2[n + 1] = JunkDevice
<1> DEFINE n == Len(d)
           e == [d[n] EXCEPT !.next = n + 1]
           c == [d EXCEPT ![n] = e]
<1>1. n \in Nat /\ n > 0 /\ n \in 1 .. n /\ DOMAIN d = 1 .. n
  BY LenProperties, EmptySeq
<1>2. d[n] \in DeviceNode
  BY <1>1, ElementOfSeq
<1>3. n + 1 \in Nat
  BY <1>1
<1> HIDE DEF n
<1>4. e \in DeviceNode /\ e.next = n + 1 /\ e.mac = d[n].mac /\ e.rssi = d[n].rssi
  BY <1>2, <1>3 DEF DeviceNode
<1>5. [d EXCEPT ![n].next = n + 1] = c
  OBVIOUS
<1> HIDE DEF e
<1>6. /\ c \in Seq(DeviceNode) /\ Len(c) = n /\ c[n] = e
      /\ \A j \in 1 .. n : j # n => c[j] = d[j]
  <2>1. n \in 1 .. Len(d)
    BY <1>1 DEF n
  <2>2. c \in Seq(DeviceNode) /\ Len(c) = Len(d)
    BY <1>4, <2>1, ExceptSeq
  <2>3. c[n] = e /\ \A j \in 1 .. n : j # n => c[j] = d[j]
    BY <1>1
  <2> QED BY <2>2, <2>3 DEF n
<1> HIDE DEF c
<1>7. /\ Append(c, JunkDevice) \in Seq(DeviceNode)
      /\ Len(Append(c, JunkDevice)) = n + 1
      /\ \A j \in 1 .. n : Append(c, JunkDevice)[j] = c[j]
      /\ Append(c, JunkDevice)[n + 1] = JunkDevice
  BY <1>6, JunkTypes, AppendProperties
<1>8. DOMAIN Append(c, JunkDevice) = 1 .. n + 1
  BY <1>7, LenProperties
<1>9. \A j \in 1 .. n : /\ c[j].mac = d[j].mac /\ c[j].rssi = d[j].rssi
                        /\ c[j].next = IF j = n THEN n + 1 ELSE d[j].next
  BY <1>4, <1>6
<1> QED BY <1>1, <1>5, <1>7, <1>8, <1>9 DEF n

(* The first entry is added.                                               *)
LEMMA FirstDeviceInv ==
    ASSUME IInv, FirstDevice
    PROVE  IInv'
<1>1. /\ packet' = packet /\ proc' = proc /\ sock' = sock /\ clock' = clock
      /\ packet \in Frames /\ Capturing!Accepted(packet)
      /\ mem.dev = <<>> /\ mem' = [mem EXCEPT !.dev = <<NewDevice>>]
      /\ rssi.pc = "classify"
  BY DEF IInv, Control, FirstDevice, Changes, Accepting
<1>2. NewDevice \in DeviceNode /\ Source \in MACs
  BY <1>1, NodeTypes, SourceType DEF IInv, Types
<1>3. /\ <<NewDevice>> \in Seq(DeviceNode) /\ Len(<<NewDevice>>) = 1
      /\ DOMAIN <<NewDevice>> = {1} /\ <<NewDevice>>[1] = NewDevice
  BY <1>2
<1>4. /\ mem' \in Memory /\ mem'.l = mem.l /\ mem'.dev = <<NewDevice>>
      /\ mem'.smp = mem.smp /\ mem'.live = mem.live
  BY <1>1, <1>3 DEF IInv, Types, Memory
<1>5. /\ rssi' \in RssiState
      /\ rssi'.pc = "sample" /\ rssi'.dev = 1 /\ rssi'.new = TRUE /\ rssi'.node = rssi.node
  BY DEF IInv, Types, RssiState, RssiPcs, FirstDevice
<1>6. Types'
  BY <1>1, <1>4, <1>5 DEF IInv, Types
<1>7. Entries = {} /\ Entries' = {1} /\ Len(mem'.dev) = 1 /\ DOMAIN mem'.dev = {1}
  <2>1. Len(<<>>) = 0
    OBVIOUS
  <2> QED BY <1>1, <1>3, <1>4, <1>5, <2>1 DEF Entries
<1>8. rssi.node = NULL /\ rssi'.node = NULL /\ mem.l = "list"
  BY <1>1, <1>5 DEF IInv, Control
<1>9. /\ mem'.dev[1].mac = Source /\ mem'.dev[1].rssi = NULL
      /\ mem'.dev[1].next = NULL
  BY <1>3, <1>4 DEF NewDevice
<1>10. Layout(Paths, Entries, mem, NULL, Owner)
  BY <1>8 DEF IInv
<1>11. Layout([d \in Entries \cup {1} |-> IF d = 1 THEN <<>> ELSE Paths[d]],
              Entries \cup {1}, mem', NULL, Owner')
  BY <1>4, <1>7, <1>9, <1>10, LayoutExtended
<1>12. Layout(Paths', Entries', mem', rssi'.node, Owner')
  <2>1. Entries \cup {1} = Entries'
    BY <1>7
  <2> QED BY <1>6, <1>8, <1>11, <2>1, LayoutIsLinkedNext
<1>13. Devices(mem'.dev, Entries')
  BY <1>2, <1>7, <1>9 DEF Devices
<1>14. Control'
  BY <1>1, <1>4, <1>5, <1>7, <1>8 DEF IInv, Control, Capturing!Accepted
<1>15. Filing'
  <2>1. Source' = Source
    BY <1>1 DEF Source
  <2>2. \A i \in 1 .. Len(mem'.dev) - 1 : mem'.dev[i].mac # Source'
    BY <1>7
  <2>3. 1 # NULL
    BY DEF NULL
  <2> QED BY <1>5, <1>7, <1>9, <2>1, <2>2, <2>3 DEF Filing
<1>16. Expiring'
  BY <1>5 DEF Expiring
<1> QED BY <1>6, <1>12, <1>13, <1>14, <1>15, <1>16 DEF IInv

(* A node for another entry is linked.                                     *)
LEMMA LinkDeviceInv ==
    ASSUME IInv, LinkDevice
    PROVE  /\ IInv' /\ Paths' = Paths
           /\ Entries = 1 .. Len(mem.dev) /\ Len(mem'.dev) = Len(mem.dev) + 1
           /\ \A i \in Entries : mem'.dev[i].mac = mem.dev[i].mac
           /\ mem'.smp = mem.smp
<1> DEFINE n == Len(mem.dev)
           d2 == Append([mem.dev EXCEPT ![n].next = n + 1], JunkDevice)
<1>0. /\ mem.dev \in Seq(DeviceNode) /\ n \in Nat /\ DOMAIN mem.dev = 1 .. n
      /\ mem.smp \in [Samples -> SampleNode] /\ mem.live \in SUBSET Samples
  BY MemoryTypes DEF IInv, Types
<1>1. /\ packet' = packet /\ proc' = proc /\ sock' = sock /\ clock' = clock
      /\ packet \in Frames /\ Capturing!Accepted(packet)
      /\ n # 0 /\ is_known(mem.dev, Source) = NULL
      /\ mem' = [mem EXCEPT !.dev = d2]
      /\ rssi.pc = "classify"
  BY DEF IInv, Control, LinkDevice, Changes, Accepting
<1>2. mem.dev # <<>>
  BY <1>1
<1>3. /\ d2 \in Seq(DeviceNode)
      /\ Len(d2) = n + 1 /\ DOMAIN d2 = 1 .. n + 1 /\ n > 0
      /\ \A j \in 1 .. n : /\ d2[j].mac = mem.dev[j].mac /\ d2[j].rssi = mem.dev[j].rssi
                           /\ d2[j].next = IF j = n THEN n + 1 ELSE mem.dev[j].next
      /\ d2[n + 1] = JunkDevice
  BY <1>0, <1>2, DeviceAppended
<1> HIDE DEF d2
<1>4. /\ mem' \in Memory /\ mem'.l = mem.l /\ mem'.dev = d2
      /\ mem'.smp = mem.smp /\ mem'.live = mem.live
  BY <1>1, <1>3 DEF IInv, Types, Memory
<1>5. /\ rssi' \in RssiState
      /\ rssi'.pc = "initdev" /\ rssi'.dev = n /\ rssi'.new = TRUE /\ rssi'.node = rssi.node
  BY <1>0 DEF IInv, Types, RssiState, RssiPcs, LinkDevice
<1>6. Types'
  BY <1>1, <1>4, <1>5 DEF IInv, Types
<1>7. Entries = 1 .. n /\ Entries' = 1 .. n
  BY <1>0, <1>1, <1>3, <1>4, <1>5 DEF Entries
<1>8. rssi.node = NULL /\ rssi'.node = NULL /\ mem.l = "list"
  BY <1>1, <1>5 DEF IInv, Control
<1>9. Layout(Paths, Entries, mem, NULL, Owner)
  BY <1>8 DEF IInv
<1>10. Layout(Paths, Entries', mem', NULL, Owner')
  BY <1>3, <1>4, <1>7, <1>9, LayoutKept
<1>11. Paths = Paths'
  BY <1>6, <1>8, <1>10, LayoutIsLinkedNext
<1>12. Devices(mem'.dev, Entries')
  <2>1. Devices(mem.dev, 1 .. n)
    BY <1>7 DEF IInv
  <2>2. \A i \in 1 .. n : i # n + 1
    BY <1>0
  <2> QED BY <1>3, <1>4, <1>7, <2>1, <2>2 DEF Devices
<1>13. Control'
  <2>1. n \in DOMAIN mem'.dev
    BY <1>0, <1>3, <1>4
  <2> QED BY <1>1, <1>4, <1>5, <1>8, <2>1 DEF IInv, Control, Capturing!Accepted
<1>14. Filing'
  <2>1. Source' = Source
    BY <1>1 DEF Source
  <2>2. \A i \in 1 .. n : mem'.dev[i].mac # Source
    BY <1>0, <1>1, <1>3, <1>4, KnownEntry
  <2>3. Len(mem'.dev) = n + 1 /\ (n + 1) - 1 = n /\ n + 1 > 1 /\ n # NULL /\ n + 1 # 1
    BY <1>0, <1>3, <1>4 DEF NULL
  <2> HIDE DEF n
  <2> QED BY <1>3, <1>4, <1>5, <2>1, <2>2, <2>3 DEF Filing
<1>15. Expiring'
  BY <1>5 DEF Expiring
<1>16. IInv'
  BY <1>6, <1>8, <1>10, <1>11, <1>12, <1>13, <1>14, <1>15 DEF IInv
<1> QED BY <1>3, <1>4, <1>7, <1>11, <1>16

(* The node of the entry is initialised.                                   *)
LEMMA InitDeviceInv ==
    ASSUME IInv, InitDevice
    PROVE  /\ IInv'
           /\ \A d \in Entries : Paths'[d] = Paths[d]
           /\ \A d \in Entries : mem'.dev[d] = mem.dev[d]
           /\ Entries = 1 .. Len(mem.dev) - 1 /\ Len(mem'.dev) = Len(mem.dev)
           /\ mem'.smp = mem.smp /\ rssi.new
<1> DEFINE n == Len(mem.dev)
           d2 == [mem.dev EXCEPT ![n] = NewDevice]
<1>0. /\ mem.dev \in Seq(DeviceNode) /\ n \in Nat /\ DOMAIN mem.dev = 1 .. n
      /\ mem.smp \in [Samples -> SampleNode] /\ mem.live \in SUBSET Samples
  BY MemoryTypes DEF IInv, Types
<1>1. /\ packet' = packet /\ proc' = proc /\ sock' = sock /\ clock' = clock
      /\ mem' = [mem EXCEPT !.dev = d2]
      /\ rssi.pc = "initdev"
  BY DEF InitDevice, Changes
<1>2. /\ packet \in Frames /\ Capturing!Accepted(packet)
      /\ rssi.node = NULL /\ mem.l = "list"
      /\ n > 1 /\ rssi.new /\ rssi.dev = n - 1
      /\ \A i \in 1 .. n - 1 : mem.dev[i].mac # Source
  BY <1>0, <1>1 DEF IInv, Control, Filing
<1>3. NewDevice \in DeviceNode /\ Source \in MACs
  BY <1>2, NodeTypes, SourceType DEF IInv, Types
<1>4. /\ d2 \in Seq(DeviceNode) /\ Len(d2) = n
      /\ d2[n] = NewDevice /\ \A j \in 1 .. n - 1 : d2[j] = mem.dev[j]
  BY <1>0, <1>2, <1>3, ExceptSeq
<1>5. DOMAIN d2 = 1 .. n
  BY <1>0
<1> HIDE DEF d2
<1>6. /\ mem' \in Memory /\ mem'.l = mem.l /\ mem'.dev = d2
      /\ mem'.smp = mem.smp /\ mem'.live = mem.live
  BY <1>1, <1>4 DEF IInv, Types, Memory
<1>7. /\ rssi' \in RssiState
      /\ rssi'.pc = "sample" /\ rssi'.dev = rssi.dev /\ rssi'.new = rssi.new
      /\ rssi'.node = rssi.node
  BY DEF IInv, Types, RssiState, RssiPcs, InitDevice
<1>8. Types'
  BY <1>1, <1>6, <1>7 DEF IInv, Types
<1>9. Entries = 1 .. n - 1 /\ Entries' = 1 .. n
  BY <1>0, <1>1, <1>4, <1>6, <1>7 DEF Entries
<1>10. Entries' = Entries \cup {n} /\ n \notin Entries
  BY <1>0, <1>2, <1>9
<1>11. Layout(Paths, Entries, mem, NULL, Owner)
  BY <1>2 DEF IInv
<1>12. mem'.dev[n].rssi = NULL /\ mem'.dev[n].mac = Source /\ mem'.dev[n].next = NULL
  BY <1>4, <1>6 DEF NewDevice
<1> DEFINE g == [d \in Entries \cup {n} |-> IF d = n THEN <<>> ELSE Paths[d]]
<1>13. \A d \in Entries : mem'.dev[d] = mem.dev[d]
  BY <1>4, <1>6, <1>9
<1> HIDE DEF n
<1>14. Layout(g, Entries \cup {n}, mem', NULL, Owner')
  BY <1>6, <1>10, <1>11, <1>12, <1>13, LayoutExtended
<1>15. Layout(g, Entries', mem', rssi'.node, Owner')
  BY <1>2, <1>7, <1>10, <1>14
<1> HIDE DEF g
<1>16. g = Paths'
  BY <1>8, <1>15, LayoutIsLinkedNext
<1>17. \A d \in Entries : Paths'[d] = Paths[d]
  BY <1>10, <1>16 DEF g
<1>18. Devices(mem'.dev, Entries')
  <2>1. Devices(mem.dev, Entries)
    BY DEF IInv
  <2>2. \A i \in Entries : /\ mem'.dev[i].mac \in MACs /\ mem'.dev[i].mac # Source
                           /\ mem'.dev[i].next = i + 1 /\ i # n
    BY <1>0, <1>2, <1>9, <1>10, <1>13, <2>1 DEF Devices, n
  <2>3. \A i, j \in Entries : mem'.dev[i].mac = mem'.dev[j].mac => i = j
    BY <1>13, <2>1 DEF Devices
  <2>4. Len(mem'.dev) = n
    BY <1>4, <1>6
  <2> QED BY <1>3, <1>10, <1>12, <2>2, <2>3, <2>4 DEF Devices
<1>19. Control'
  <2>1. rssi.dev \in DOMAIN mem'.dev /\ mem'.dev # <<>>
    BY <1>0, <1>2, <1>5, <1>6
  <2> QED BY <1>1, <1>2, <1>6, <1>7, <2>1 DEF IInv, Control, Capturing!Accepted
<1>20. Filing'
  <2>1. Source' = Source
    BY <1>1 DEF Source
  <2>2. \A i \in 1 .. n - 1 : mem'.dev[i].mac # Source
    BY <1>2, <1>9, <1>13
  <2>3. Len(mem'.dev) = n /\ n # 1 /\ n - 1 # NULL
    BY <1>0, <1>2, <1>4, <1>6 DEF NULL
  <2> QED BY <1>2, <1>7, <1>12, <2>1, <2>2, <2>3 DEF Filing
<1>21. Expiring'
  BY <1>7 DEF Expiring
<1>22. IInv'
  BY <1>8, <1>15, <1>16, <1>18, <1>19, <1>20, <1>21 DEF IInv
<1> QED BY <1>2, <1>4, <1>6, <1>9, <1>13, <1>17, <1>22 DEF n

(* What a step that files a sample starts from.                            *)
LEMMA FilingAt ==
    ASSUME IInv, rssi.pc \in {"sample", "initsample"}
    PROVE  /\ rssi.dev \in Entries /\ Entries = 1 .. Len(mem.dev)
           /\ DOMAIN mem.dev = 1 .. Len(mem.dev) /\ Len(mem.dev) \in Nat
           /\ mem.dev \in Seq(DeviceNode)
           /\ mem.smp \in [Samples -> SampleNode] /\ mem.live \subseteq Samples
           /\ packet \in Frames /\ Capturing!Accepted(packet)
           /\ NewSample \in SampleNode
           /\ NewSample.from \in MACs /\ NewSample.date \in Nat /\ NewSample.next = NULL
           /\ mem.l = "list" /\ rssi.new \in BOOLEAN /\ mem.dev # <<>>
<1>1. /\ DOMAIN mem.dev = 1 .. Len(mem.dev) /\ Len(mem.dev) \in Nat
      /\ mem.dev \in Seq(DeviceNode)
      /\ mem.smp \in [Samples -> SampleNode] /\ mem.live \subseteq Samples
  BY MemoryTypes DEF IInv, Types
<1>2. /\ packet \in Frames /\ Capturing!Accepted(packet) /\ mem.l = "list"
      /\ rssi.dev # NULL /\ rssi.dev \in {NULL} \cup DOMAIN mem.dev
  BY DEF IInv, Control, Filing
<1>3. Entries = 1 .. Len(mem.dev)
  <2>1. Entries = 1 .. Len(mem.dev) - 0
    BY DEF Entries
  <2> QED BY <1>1, <2>1
<1>4. NewSample \in SampleNode /\ Source \in MACs /\ clock \in Nat
  BY <1>2, NodeTypes, SourceType DEF IInv, Types
<1>5. NewSample.from \in MACs /\ NewSample.date \in Nat /\ NewSample.next = NULL
  BY <1>4 DEF NewSample
<1>6. rssi.new \in BOOLEAN
  BY DEF IInv, Types, RssiState
<1>7. mem.dev # <<>>
  BY <1>1, <1>2
<1> QED BY <1>1, <1>2, <1>3, <1>4, <1>5, <1>6, <1>7

(* The first sample of an entry.                                           *)
LEMMA FirstSampleInv ==
    ASSUME IInv, FirstSample
    PROVE  /\ IInv'
           /\ Paths[rssi.dev] = <<>> /\ DOMAIN Paths = Entries
           /\ Entries' = Entries /\ \A i \in Entries : mem'.dev[i].mac = mem.dev[i].mac
           /\ Len(mem'.dev) = Len(mem.dev)
           /\ \E n \in Samples \ mem.live :
                 /\ Paths' = [Paths EXCEPT ![rssi.dev] = <<n>>]
                 /\ mem'.smp[n] = NewSample
                 /\ \A i \in Samples \ {n} : mem'.smp[i] = mem.smp[i]
<1> DEFINE e == rssi.dev
<1>1. /\ packet' = packet /\ proc' = proc /\ sock' = sock /\ clock' = clock
      /\ rssi.pc = "sample" /\ mem.dev[e].rssi = NULL
  BY DEF FirstSample, Changes
<1>2. PICK n \in Samples \ mem.live :
          mem' = [mem EXCEPT !.live = @ \cup {n}, !.smp[n] = NewSample, !.dev[e].rssi = n]
  BY DEF FirstSample
<1>3. /\ e \in Entries /\ Entries = 1 .. Len(mem.dev)
      /\ DOMAIN mem.dev = 1 .. Len(mem.dev) /\ Len(mem.dev) \in Nat
      /\ mem.dev \in Seq(DeviceNode)
      /\ mem.smp \in [Samples -> SampleNode] /\ mem.live \subseteq Samples
      /\ NewSample \in SampleNode
      /\ NewSample.from \in MACs /\ NewSample.date \in Nat /\ NewSample.next = NULL
      /\ mem.l = "list" /\ mem.dev # <<>>
  BY <1>1, FilingAt
<1> DEFINE d2 == [mem.dev EXCEPT ![e].rssi = n]
           s2 == [mem.smp EXCEPT ![n] = NewSample]
           v2 == mem.live \cup {n}
<1>4. mem' = [mem EXCEPT !.live = v2, !.smp = s2, !.dev = d2]
  BY <1>2
<1>5. /\ d2 \in Seq(DeviceNode) /\ Len(d2) = Len(mem.dev) /\ DOMAIN d2 = DOMAIN mem.dev
      /\ d2[e].rssi = n
      /\ \A j \in DOMAIN mem.dev : d2[j].mac = mem.dev[j].mac /\ d2[j].next = mem.dev[j].next
      /\ \A j \in DOMAIN mem.dev \ {e} : d2[j] = mem.dev[j]
  <2>1. e \in DOMAIN mem.dev /\ n \in Samples \cup {NULL, Junk}
    BY <1>3
  <2> QED BY <1>3, <2>1, HeadWritten
<1>6. /\ s2 \in [Samples -> SampleNode] /\ v2 \in SUBSET Samples
      /\ s2[n] = NewSample /\ \A i \in Samples \ {n} : s2[i] = mem.smp[i]
  BY <1>3
<1> HIDE DEF d2, s2, v2
<1>7. /\ mem' \in Memory
      /\ mem'.l = mem.l /\ mem'.dev = d2 /\ mem'.smp = s2 /\ mem'.live = v2
  BY <1>4, <1>5, <1>6 DEF IInv, Types, Memory
<1>8. /\ rssi' \in RssiState
      /\ rssi'.pc = "expire" /\ rssi'.dev = rssi.dev /\ rssi'.new = FALSE
      /\ rssi'.node = rssi.node
  BY DEF IInv, Types, RssiState, RssiPcs, FirstSample
<1>9. Types'
  BY <1>1, <1>7, <1>8 DEF IInv, Types
<1>10. Entries' = Entries
  BY <1>1, <1>5, <1>7, <1>8 DEF Entries
<1>11. rssi.node = NULL /\ rssi'.node = NULL
  BY <1>1, <1>8 DEF IInv, Control
<1>12. Layout(Paths, Entries, mem, NULL, Owner)
  BY <1>11 DEF IInv
<1>13. /\ \A d \in Entries \ {e} : mem'.dev[d].rssi = mem.dev[d].rssi
       /\ mem'.dev[e].rssi = n /\ mem'.live = mem.live \cup {n}
  BY <1>3, <1>5, <1>7 DEF v2
<1>14. /\ \A i \in Samples \ {n} : mem'.smp[i] = mem.smp[i]
       /\ mem'.smp[n] = NewSample
  BY <1>6, <1>7
<1>15. /\ mem'.smp[n].next = NULL /\ mem'.smp[n].from \in MACs
       /\ mem'.smp[n].date \in Nat
  BY <1>3, <1>14
<1> DEFINE g == [Paths EXCEPT ![e] = <<n>>]
<1> HIDE DEF e
<1>16. Paths[e] = <<>> /\ Layout(g, Entries, mem', NULL, Owner')
  <2>1. /\ mem.live \subseteq Samples /\ e \in Entries /\ mem.dev[e].rssi = NULL
        /\ n \in Samples \ mem.live
    BY <1>1, <1>2, <1>3 DEF e
  <2>2. FirstWritten(Entries, mem, mem', e, n)
    BY <2>1, <1>13, <1>14, <1>15 DEF FirstWritten
  <2> QED BY <2>1, <2>2, <1>12, LayoutFirst
<1>17. Layout(g, Entries', mem', rssi'.node, Owner')
  BY <1>10, <1>11, <1>16
<1> HIDE DEF g
<1>18. g = Paths'
  BY <1>9, <1>17, LayoutIsLinkedNext
<1>19. Devices(mem'.dev, Entries')
  <2>1. Devices(mem.dev, Entries)
    BY DEF IInv
  <2>2. /\ Len(mem'.dev) = Len(mem.dev)
        /\ \A j \in Entries : mem'.dev[j].mac = mem.dev[j].mac /\ mem'.dev[j].next = mem.dev[j].next
    BY <1>3, <1>5, <1>7
  <2> QED BY <1>10, <2>1, <2>2 DEF Devices
<1>20. Control'
  <2>1. rssi.dev \in DOMAIN mem'.dev /\ mem'.dev # <<>>
    BY <1>3, <1>5, <1>7 DEF e
  <2> QED BY <1>1, <1>3, <1>7, <1>8, <1>11, <2>1 DEF IInv, Control
<1>21. Filing' /\ Expiring'
  BY <1>8 DEF Filing, Expiring
<1>22. DOMAIN Paths = Entries
  BY DEF Paths
<1>23. IInv'
  BY <1>9, <1>17, <1>18, <1>19, <1>20, <1>21 DEF IInv
<1>24. \A i \in Entries : mem'.dev[i].mac = mem.dev[i].mac
  BY <1>3, <1>5, <1>7
<1> QED BY <1>5, <1>7, <1>10, <1>14, <1>16, <1>18, <1>22, <1>23, <1>24 DEF e, g

(* Another sample is linked behind the last one.                           *)
LEMMA LinkSampleInv ==
    ASSUME IInv, LinkSample
    PROVE  /\ IInv'
           /\ Paths' = Paths /\ Entries' = Entries /\ mem'.dev = mem.dev
           /\ \A d \in Entries : \A k \in DOMAIN Paths[d] :
                 /\ mem'.smp[Paths[d][k]].from = mem.smp[Paths[d][k]].from
                 /\ mem'.smp[Paths[d][k]].date = mem.smp[Paths[d][k]].date
<1> DEFINE e == rssi.dev
           nodes == Linked[mem.dev[e].rssi]
           t == nodes[Len(nodes)]
<1>1. /\ packet' = packet /\ proc' = proc /\ sock' = sock /\ clock' = clock
      /\ rssi.pc = "sample" /\ mem.dev[e].rssi # NULL
  BY DEF LinkSample, Changes
<1>2. PICK n \in Samples \ mem.live :
          /\ mem' = [mem EXCEPT !.live = @ \cup {n}, !.smp[n] = JunkSample,
                                !.smp[t].next = n]
          /\ rssi' = [rssi EXCEPT !.pc = "initsample", !.node = n]
  BY DEF LinkSample
<1>3. /\ e \in Entries /\ Entries = 1 .. Len(mem.dev)
      /\ DOMAIN mem.dev = 1 .. Len(mem.dev) /\ Len(mem.dev) \in Nat
      /\ mem.dev \in Seq(DeviceNode)
      /\ mem.smp \in [Samples -> SampleNode] /\ mem.live \subseteq Samples
      /\ packet \in Frames /\ Capturing!Accepted(packet)
      /\ mem.l = "list" /\ rssi.new \in BOOLEAN
  BY <1>1, FilingAt
<1>4. nodes = Paths[e]
  BY <1>3 DEF Paths
<1> HIDE DEF nodes
<1>5. rssi.node = NULL
  BY <1>1 DEF IInv, Control
<1>6. Layout(Paths, Entries, mem, NULL, Owner)
  BY <1>5 DEF IInv
<1>7. Paths[e] # <<>>
  BY <1>1, <1>3, <1>6 DEF Layout, Path
<1>8. t \in mem.live /\ t \in Samples /\ t # n
  <2>1. Len(Paths[e]) \in DOMAIN Paths[e]
    BY <1>3, <1>6, <1>7, LayoutTypes
  <2>2. t \in mem.live
    BY <1>3, <1>4, <1>6, <2>1 DEF Layout
  <2> QED BY <1>2, <1>3, <2>2
<1> HIDE DEF t
<1> DEFINE s2 == [mem.smp EXCEPT ![n] = JunkSample, ![t].next = n]
           v2 == mem.live \cup {n}
<1>9. mem' = [l |-> mem.l, dev |-> mem.dev, smp |-> s2, live |-> v2]
  <2> DEFINE m1 == [mem EXCEPT !.live = v2]
             s1 == [mem.smp EXCEPT ![n] = JunkSample]
             m2 == [m1 EXCEPT !.smp = [m1.smp EXCEPT ![n] = JunkSample]]
             m3 == [m2 EXCEPT !.smp = [m2.smp EXCEPT ![t].next = n]]
  <2>1. mem = [l |-> mem.l, dev |-> mem.dev, smp |-> mem.smp, live |-> mem.live]
    BY DEF IInv, Types, Memory
  <2>2. mem' = m3
    BY <1>2
  <2> HIDE DEF v2
  <2>3. m1 = [l |-> mem.l, dev |-> mem.dev, smp |-> mem.smp, live |-> v2]
    BY <2>1
  <2> HIDE DEF m1
  <2>4. m2 = [l |-> mem.l, dev |-> mem.dev, smp |-> s1, live |-> v2]
    BY <2>3
  <2> HIDE DEF m2
  <2>5. s2 = [s1 EXCEPT ![t].next = n]
    OBVIOUS
  <2> HIDE DEF s1, s2
  <2>6. m3 = [l |-> mem.l, dev |-> mem.dev, smp |-> s2, live |-> v2]
    BY <2>4, <2>5
  <2> HIDE DEF m3
  <2> QED BY <2>2, <2>6
<1>10. /\ s2 \in [Samples -> SampleNode] /\ v2 \in SUBSET Samples
       /\ s2[t].next = n /\ s2[t].from = mem.smp[t].from /\ s2[t].date = mem.smp[t].date
       /\ \A i \in Samples \ {n, t} : s2[i] = mem.smp[i]
  <2>1. mem.smp[t] \in SampleNode
    BY <1>3, <1>8
  <2>2. [mem.smp[t] EXCEPT !.next = n] \in SampleNode
    BY <1>2, <2>1 DEF SampleNode
  <2>3. s2 = [mem.smp EXCEPT ![n] = JunkSample, ![t] = [mem.smp[t] EXCEPT !.next = n]]
    BY <1>3, <1>8
  <2>4. s2 \in [Samples -> SampleNode]
    BY <1>3, <2>2, <2>3, JunkTypes
  <2>5. s2[t] = [mem.smp[t] EXCEPT !.next = n] /\ \A i \in Samples \ {n, t} : s2[i] = mem.smp[i]
    BY <1>3, <1>8, <2>3
  <2>6. /\ [mem.smp[t] EXCEPT !.next = n].next = n
        /\ [mem.smp[t] EXCEPT !.next = n].from = mem.smp[t].from
        /\ [mem.smp[t] EXCEPT !.next = n].date = mem.smp[t].date
    BY <2>1 DEF SampleNode
  <2> HIDE DEF s2
  <2> QED BY <1>2, <1>3, <2>4, <2>5, <2>6
<1> HIDE DEF s2, v2
<1>11. /\ mem' \in Memory
       /\ mem'.l = mem.l /\ mem'.dev = mem.dev /\ mem'.smp = s2 /\ mem'.live = v2
  BY <1>3, <1>9, <1>10 DEF IInv, Types, Memory
<1>12. /\ rssi' \in RssiState
       /\ rssi'.pc = "initsample" /\ rssi'.dev = e /\ rssi'.new = rssi.new
       /\ rssi'.node = n
  BY <1>2 DEF IInv, Types, RssiState, RssiPcs
<1>13. Types'
  BY <1>1, <1>11, <1>12 DEF IInv, Types
<1>14. Entries' = Entries /\ Owner' = e
  BY <1>1, <1>11, <1>12 DEF Entries, Owner
<1> HIDE DEF e
<1>15. Layout(Paths, Entries, mem', n, e)
  <2>1. mem'.live = mem.live \cup {n}
    BY <1>11 DEF v2
  <2>2. t = Paths[e][Len(Paths[e])]
    BY <1>4 DEF t
  <2>3. /\ \A i \in Samples \ {n, t} : mem'.smp[i] = mem.smp[i]
        /\ mem'.smp[t].next = n
        /\ mem'.smp[t].from = mem.smp[t].from
        /\ mem'.smp[t].date = mem.smp[t].date
    BY <1>10, <1>11
  <2> QED BY <1>2, <1>3, <1>6, <1>7, <1>11, <2>1, <2>2, <2>3, LayoutLinked
<1>16. Layout(Paths, Entries', mem', rssi'.node, Owner')
  BY <1>12, <1>14, <1>15
<1>17. Paths = Paths'
  BY <1>13, <1>16, LayoutIsLinkedNext
<1>18. Devices(mem'.dev, Entries')
  BY <1>11, <1>14 DEF IInv
<1>19. Control'
  <2>1. n # NULL /\ n \in mem'.live
    BY <1>2, <1>11, NoNodes DEF v2
  <2> QED BY <1>1, <1>3, <1>11, <1>12, <2>1 DEF IInv, Control, Capturing!Accepted, e
<1>20. Filing'
  <2>1. Source' = Source
    BY <1>1 DEF Source
  <2> QED BY <1>1, <1>11, <1>12, <2>1 DEF IInv, Filing, e
<1>21. Expiring'
  BY <1>12 DEF Expiring
<1>22. IInv'
  BY <1>13, <1>16, <1>17, <1>18, <1>19, <1>20, <1>21 DEF IInv
<1>23. ASSUME NEW d \in Entries, NEW k \in DOMAIN Paths[d]
       PROVE  /\ mem'.smp[Paths[d][k]].from = mem.smp[Paths[d][k]].from
              /\ mem'.smp[Paths[d][k]].date = mem.smp[Paths[d][k]].date
  <2>1. Paths[d][k] \in Samples \ {n}
    BY <1>2, <1>3, <1>6 DEF Layout
  <2> QED BY <1>10, <1>11, <2>1
<1> QED BY <1>11, <1>14, <1>17, <1>22, <1>23

(* Its node is initialised.                                                *)
LEMMA InitSampleInv ==
    ASSUME IInv, InitSample
    PROVE  /\ IInv'
           /\ Entries' = Entries /\ mem'.dev = mem.dev
           /\ Paths' = [Paths EXCEPT ![rssi.dev] = Append(Paths[rssi.dev], rssi.node)]
           /\ DOMAIN Paths = Entries
           /\ rssi.node \in Samples /\ mem'.smp[rssi.node] = NewSample
           /\ \A i \in Samples \ {rssi.node} : mem'.smp[i] = mem.smp[i]
           /\ \A d \in Entries : \A k \in DOMAIN Paths[d] : Paths[d][k] \in Samples \ {rssi.node}
<1> DEFINE e == rssi.dev
           n == rssi.node
<1>1. /\ packet' = packet /\ proc' = proc /\ sock' = sock /\ clock' = clock
      /\ rssi.pc = "initsample" /\ mem' = [mem EXCEPT !.smp[n] = NewSample]
  BY DEF InitSample, Changes
<1>2. /\ e \in Entries /\ Entries = 1 .. Len(mem.dev)
      /\ DOMAIN mem.dev = 1 .. Len(mem.dev) /\ Len(mem.dev) \in Nat
      /\ mem.dev \in Seq(DeviceNode)
      /\ mem.smp \in [Samples -> SampleNode] /\ mem.live \subseteq Samples
      /\ NewSample \in SampleNode
      /\ NewSample.from \in MACs /\ NewSample.date \in Nat /\ NewSample.next = NULL
      /\ mem.l = "list" /\ mem.dev # <<>>
  BY <1>1, FilingAt
<1>3. n \in mem.live /\ n \in Samples
  BY <1>1, <1>2 DEF IInv, Control
<1> DEFINE s2 == [mem.smp EXCEPT ![n] = NewSample]
<1>4. mem' = [mem EXCEPT !.live = mem.live, !.smp = s2, !.dev = mem.dev]
  BY <1>1 DEF IInv, Types, Memory
<1>5. /\ s2 \in [Samples -> SampleNode] /\ s2[n] = NewSample
      /\ \A i \in Samples \ {n} : s2[i] = mem.smp[i]
  BY <1>2, <1>3
<1> HIDE DEF s2
<1>6. /\ mem' \in Memory
      /\ mem'.l = mem.l /\ mem'.dev = mem.dev /\ mem'.smp = s2 /\ mem'.live = mem.live
  BY <1>2, <1>4, <1>5 DEF IInv, Types, Memory
<1>7. /\ rssi' \in RssiState
      /\ rssi'.pc = "expire" /\ rssi'.dev = rssi.dev /\ rssi'.new = FALSE
      /\ rssi'.node = NULL
  BY DEF IInv, Types, RssiState, RssiPcs, InitSample
<1>8. Types'
  BY <1>1, <1>6, <1>7 DEF IInv, Types
<1>9. Entries' = Entries /\ Owner = e
  BY <1>1, <1>6, <1>7 DEF Entries, Owner
<1>10. Layout(Paths, Entries, mem, n, e)
  BY <1>9 DEF IInv
<1>11. /\ \A i \in Samples \ {n} : mem'.smp[i] = mem.smp[i]
       /\ mem'.smp[n] = NewSample
  BY <1>5, <1>6
<1>12. /\ mem'.smp[n].next = NULL /\ mem'.smp[n].from \in MACs
       /\ mem'.smp[n].date \in Nat
  BY <1>2, <1>11
<1> DEFINE g == [Paths EXCEPT ![e] = Append(Paths[e], n)]
<1> HIDE DEF e, n
<1>13. Layout(g, Entries, mem', NULL, Owner')
  BY <1>2, <1>3, <1>6, <1>10, <1>11, <1>12, LayoutInitialised
<1>14. Layout(g, Entries', mem', rssi'.node, Owner')
  BY <1>7, <1>9, <1>13
<1> HIDE DEF g
<1>15. g = Paths'
  BY <1>8, <1>14, LayoutIsLinkedNext
<1>16. Devices(mem'.dev, Entries')
  BY <1>6, <1>9 DEF IInv
<1>17. Control'
  BY <1>1, <1>2, <1>6, <1>7 DEF IInv, Control
<1>18. Filing' /\ Expiring'
  BY <1>7 DEF Filing, Expiring
<1>19. IInv'
  BY <1>8, <1>14, <1>15, <1>16, <1>17, <1>18 DEF IInv
<1>20. \A d \in Entries : \A k \in DOMAIN Paths[d] : Paths[d][k] \in Samples \ {n}
  BY <1>2, <1>10 DEF Layout
<1>21. DOMAIN Paths = Entries
  BY DEF Paths
<1> QED BY <1>3, <1>6, <1>9, <1>11, <1>15, <1>19, <1>20, <1>21 DEF e, n, g


(* Expiry begins.                                                          *)
LEMMA ExpireInv ==
    ASSUME IInv, Expire
    PROVE  IInv' /\ Paths' = Paths
<1>1. /\ packet' = packet /\ proc' = proc /\ sock' = sock /\ clock' = clock
      /\ mem' = mem /\ rssi.pc = "expire"
  BY DEF Expire, Changes
<1>2. clock \in Nat /\ 1 \in Nat
  BY DEF IInv, Types
<1>3. /\ rssi' \in RssiState
      /\ rssi'.pc = "unlink" /\ rssi'.dev = 1 /\ rssi'.new = rssi.new
      /\ rssi'.node = rssi.node
  BY <1>2 DEF IInv, Types, RssiState, RssiPcs, Expire
<1>4. Types'
  BY <1>1, <1>3 DEF IInv, Types
<1>5. Entries' = Entries
  BY <1>1, <1>3 DEF Entries
<1>6. rssi.node = NULL /\ rssi'.node = NULL /\ ~rssi.new /\ mem.l = "list"
  BY <1>1, <1>3 DEF IInv, Control
<1>7. /\ Paths' = Paths
      /\ Layout(Paths', Entries', mem', rssi'.node, Owner')
      /\ Devices(mem'.dev, Entries')
  BY <1>1, <1>4, <1>5, <1>6, SameNodes
<1>8. Control'
  <2>1. mem.dev # <<>> /\ mem.dev \in Seq(DeviceNode)
    BY <1>1, MemoryTypes DEF IInv, Types, Control
  <2>2. Len(mem.dev) \in Nat \ {0} /\ DOMAIN mem.dev = 1 .. Len(mem.dev)
    BY <2>1, EmptySeq, LenProperties
  <2>3. 1 \in DOMAIN mem.dev /\ 1 # NULL
    BY <2>2 DEF NULL
  <2> QED BY <1>1, <1>3, <1>6, <2>1, <2>3 DEF IInv, Control
<1>9. Filing' /\ Expiring'
  BY <1>3 DEF Filing, Expiring
<1> QED BY <1>4, <1>7, <1>8, <1>9 DEF IInv

(* What a step of expiry starts from.                                      *)
LEMMA ExpiryAt ==
    ASSUME IInv, rssi.pc = "unlink"
    PROVE  /\ rssi.dev \in Entries /\ Entries = 1 .. Len(mem.dev)
           /\ DOMAIN mem.dev = 1 .. Len(mem.dev) /\ Len(mem.dev) \in Nat
           /\ mem.dev \in Seq(DeviceNode)
           /\ mem.smp \in [Samples -> SampleNode] /\ mem.live \subseteq Samples
           /\ mem.l = "list" /\ ~rssi.new /\ rssi.node = NULL
           /\ rssi.tv \in Nat /\ Layout(Paths, Entries, mem, NULL, Owner)
<1>1. /\ DOMAIN mem.dev = 1 .. Len(mem.dev) /\ Len(mem.dev) \in Nat
      /\ mem.dev \in Seq(DeviceNode)
      /\ mem.smp \in [Samples -> SampleNode] /\ mem.live \subseteq Samples
  BY MemoryTypes DEF IInv, Types
<1>2. /\ mem.l = "list" /\ ~rssi.new /\ rssi.node = NULL
      /\ rssi.dev # NULL /\ rssi.dev \in {NULL} \cup DOMAIN mem.dev
  BY DEF IInv, Control
<1>3. Entries = 1 .. Len(mem.dev)
  <2>1. Entries = 1 .. Len(mem.dev) - 0
    BY DEF Entries
  <2> QED BY <1>1, <2>1
<1>4. rssi.tv \in Nat
  BY DEF IInv, Types, RssiState
<1>5. Layout(Paths, Entries, mem, NULL, Owner)
  BY <1>2 DEF IInv
<1> QED BY <1>1, <1>2, <1>3, <1>4, <1>5

(* The first sample of an entry is unlinked and freed.                     *)
LEMMA UnlinkInv ==
    ASSUME IInv, Unlink
    PROVE  /\ IInv'
           /\ Paths' = [Paths EXCEPT ![rssi.dev] = Tail(Paths[rssi.dev])]
           /\ DOMAIN Paths = Entries /\ Paths[rssi.dev] # <<>>
           /\ Outdated(mem.smp[Paths[rssi.dev][1]], rssi.tv)
           /\ Entries' = Entries /\ \A i \in Entries : mem'.dev[i].mac = mem.dev[i].mac
           /\ Len(mem'.dev) = Len(mem.dev)
           /\ \A i \in Samples \ {Paths[rssi.dev][1]} : mem'.smp[i] = mem.smp[i]
<1> DEFINE e == rssi.dev
           n == mem.dev[e].rssi
<1>1. /\ packet' = packet /\ proc' = proc /\ sock' = sock /\ clock' = clock
      /\ rssi' = rssi /\ rssi.pc = "unlink"
      /\ n # NULL /\ Outdated(mem.smp[n], rssi.tv)
      /\ mem' = [mem EXCEPT !.dev[e].rssi = mem.smp[n].next,
                            !.smp[n] = JunkSample, !.live = @ \ {n}]
  BY DEF Unlink, Changes, Stale
<1>2. /\ e \in Entries /\ Entries = 1 .. Len(mem.dev)
      /\ DOMAIN mem.dev = 1 .. Len(mem.dev) /\ Len(mem.dev) \in Nat
      /\ mem.dev \in Seq(DeviceNode)
      /\ mem.smp \in [Samples -> SampleNode] /\ mem.live \subseteq Samples
      /\ mem.l = "list" /\ ~rssi.new /\ rssi.node = NULL
      /\ Layout(Paths, Entries, mem, NULL, Owner)
  BY <1>1, ExpiryAt
<1>3. n \in Samples /\ Paths[e] # <<>> /\ n = Paths[e][1]
  <2>1. Path(Paths[e], n, NULL, mem.smp)
    BY <1>2 DEF Layout
  <2>2. Paths[e] # <<>> /\ n = Paths[e][1]
    BY <1>1, <2>1 DEF Path
  <2> HIDE DEF n
  <2> QED BY <1>2, <2>2, LayoutTypes
<1> DEFINE p == mem.smp[n].next
           d2 == [mem.dev EXCEPT ![e].rssi = p]
           s2 == [mem.smp EXCEPT ![n] = JunkSample]
           v2 == mem.live \ {n}
<1>4. p \in Samples \cup {NULL, Junk}
  <2>1. mem.smp[n] \in SampleNode
    BY <1>2, <1>3
  <2> QED BY <2>1 DEF SampleNode
<1> HIDE DEF p
<1>5. mem' = [mem EXCEPT !.dev = d2, !.smp = s2, !.live = v2]
  BY <1>1 DEF p
<1>6. /\ d2 \in Seq(DeviceNode) /\ Len(d2) = Len(mem.dev) /\ DOMAIN d2 = DOMAIN mem.dev
      /\ d2[e].rssi = p
      /\ \A j \in DOMAIN mem.dev : d2[j].mac = mem.dev[j].mac /\ d2[j].next = mem.dev[j].next
      /\ \A j \in DOMAIN mem.dev \ {e} : d2[j] = mem.dev[j]
  <2>1. e \in DOMAIN mem.dev
    BY <1>2
  <2> QED BY <1>2, <1>4, <2>1, HeadWritten
<1>7. /\ s2 \in [Samples -> SampleNode] /\ v2 \in SUBSET Samples
      /\ s2[n] = JunkSample /\ \A i \in Samples \ {n} : s2[i] = mem.smp[i]
  BY <1>2, <1>3, JunkTypes
<1> HIDE DEF d2, s2, v2
<1>8. /\ mem' \in Memory
      /\ mem'.l = mem.l /\ mem'.dev = d2 /\ mem'.smp = s2 /\ mem'.live = v2
  BY <1>5, <1>6, <1>7 DEF IInv, Types, Memory
<1>9. Types'
  BY <1>1, <1>8 DEF IInv, Types
<1>10. Entries' = Entries
  BY <1>1, <1>6, <1>8 DEF Entries
<1> DEFINE g == [Paths EXCEPT ![e] = Tail(Paths[e])]
<1>11. HeadFreed(Entries, mem, mem', e)
  <2>1. mem'.smp[n].next = Junk
    BY <1>7, <1>8 DEF JunkSample
  <2>2. mem'.live = mem.live \ {n} /\ mem'.dev[e].rssi = mem.smp[n].next
    BY <1>6, <1>8 DEF p, v2
  <2>3. \A d \in Entries \ {e} : mem'.dev[d].rssi = mem.dev[d].rssi
    BY <1>2, <1>6, <1>8
  <2>4. \A i \in Samples \ {n} : mem'.smp[i] = mem.smp[i]
    BY <1>7, <1>8
  <2>5. e \in Entries /\ n # NULL
    BY <1>1, <1>2
  <2> QED BY <2>1, <2>2, <2>3, <2>4, <2>5 DEF HeadFreed
<1> HIDE DEF e, n
<1>12. Layout(g, Entries, mem', NULL, Owner')
  BY <1>2, <1>11, LayoutUnlinked
<1>13. Layout(g, Entries', mem', rssi'.node, Owner')
  BY <1>1, <1>2, <1>10, <1>12
<1> HIDE DEF g
<1>14. g = Paths'
  BY <1>9, <1>13, LayoutIsLinkedNext
<1>15. Devices(mem'.dev, Entries')
  <2>1. Devices(mem.dev, Entries)
    BY DEF IInv
  <2>2. /\ Len(mem'.dev) = Len(mem.dev)
        /\ \A j \in Entries : mem'.dev[j].mac = mem.dev[j].mac /\ mem'.dev[j].next = mem.dev[j].next
    BY <1>2, <1>6, <1>8
  <2> QED BY <1>10, <2>1, <2>2 DEF Devices
<1>16. Control'
  <2>1. rssi.dev \in DOMAIN mem'.dev /\ mem'.dev # <<>> /\ rssi.dev # NULL
    <3>1. 0 \notin Entries
      BY <1>2
    <3> QED BY <1>2, <1>6, <1>8, <3>1 DEF e, NULL
  <2> QED BY <1>1, <1>2, <1>8, <2>1 DEF IInv, Control
<1>17. Filing'
  BY <1>1 DEF Filing
<1>18. Expiring'
  <2>1. ASSUME NEW i \in 1 .. e - 1, mem'.dev[i].rssi # NULL
        PROVE  ~Outdated(mem'.smp[mem'.dev[i].rssi], rssi.tv)
    <3>1. i \in Entries /\ i # e
      BY <1>2
    <3>2. mem'.dev[i] = mem.dev[i]
      BY <1>2, <1>6, <1>8, <3>1
    <3>3. Path(Paths[i], mem.dev[i].rssi, NULL, mem.smp)
      BY <1>2, <3>1 DEF Layout
    <3>4. Paths[i] # <<>> /\ mem.dev[i].rssi = Paths[i][1]
      BY <2>1, <3>2, <3>3 DEF Path
    <3>5. 1 \in DOMAIN Paths[i] /\ 1 \in DOMAIN Paths[e]
      BY <1>2, <1>3, <3>1, <3>4, LayoutTypes
    <3>6. mem.dev[i].rssi # n /\ mem.dev[i].rssi \in Samples
      BY <1>2, <1>3, <3>1, <3>4, <3>5, LayoutTypes DEF Layout
    <3>7. mem'.smp[mem'.dev[i].rssi] = mem.smp[mem.dev[i].rssi]
      BY <1>7, <1>8, <3>2, <3>6
    <3>8. ~Outdated(mem.smp[mem.dev[i].rssi], rssi.tv)
      BY <1>1, <2>1, <3>2 DEF IInv, Expiring, e
    <3> QED BY <3>7, <3>8
  <2> QED BY <1>1, <2>1 DEF Expiring, e
<1>19. IInv'
  BY <1>9, <1>13, <1>14, <1>15, <1>16, <1>17, <1>18 DEF IInv
<1>20. \A i \in Entries : mem'.dev[i].mac = mem.dev[i].mac
  BY <1>2, <1>6, <1>8
<1>21. DOMAIN Paths = Entries
  BY DEF Paths
<1>22. \A i \in Samples \ {n} : mem'.smp[i] = mem.smp[i]
  BY <1>7, <1>8
<1> QED BY <1>1, <1>3, <1>6, <1>8, <1>10, <1>14, <1>19, <1>20, <1>21, <1>22 DEF e, g

(* Expiry goes to the next entry, or it is over.                           *)
LEMMA NextEntryInv ==
    ASSUME IInv, NextEntry
    PROVE  /\ IInv' /\ Paths' = Paths
           /\ rssi'.pc = "capture" =>
                \A i \in Entries : LET n == mem.dev[i].rssi
                                   IN  n # NULL => ~Outdated(mem.smp[n], rssi.tv)
<1> DEFINE e == rssi.dev
           next == mem.dev[e].next
<1>1. /\ packet' = packet /\ proc' = proc /\ sock' = sock /\ clock' = clock
      /\ mem' = mem /\ rssi.pc = "unlink" /\ ~Stale(mem.dev[e].rssi)
      /\ rssi' = [rssi EXCEPT !.dev = next, !.pc = IF next = NULL THEN "capture" ELSE @]
  BY DEF NextEntry, Local
<1>2. /\ e \in Entries /\ Entries = 1 .. Len(mem.dev)
      /\ DOMAIN mem.dev = 1 .. Len(mem.dev) /\ Len(mem.dev) \in Nat
      /\ mem.l = "list" /\ ~rssi.new /\ rssi.node = NULL
  BY <1>1, ExpiryAt
<1>3. next = IF e = Len(mem.dev) THEN NULL ELSE e + 1
  BY <1>2 DEF IInv, Devices
<1>4. next \in {NULL} \cup DOMAIN mem.dev /\ next \in Nat
  <2>1. e # Len(mem.dev) => e + 1 \in 1 .. Len(mem.dev)
    BY <1>2
  <2> QED BY <1>2, <1>3, <2>1 DEF NULL
<1>5. /\ rssi' \in RssiState
      /\ rssi'.pc = IF next = NULL THEN "capture" ELSE "unlink"
      /\ rssi'.dev = next /\ rssi'.new = rssi.new /\ rssi'.node = rssi.node
      /\ rssi'.tv = rssi.tv
  <2> HIDE DEF next
  <2> QED BY <1>1, <1>4 DEF IInv, Types, RssiState, RssiPcs
<1>6. Types'
  BY <1>1, <1>5 DEF IInv, Types
<1>7. Entries' = Entries
  BY <1>1, <1>5 DEF Entries
<1>8. /\ Paths' = Paths
      /\ Layout(Paths', Entries', mem', rssi'.node, Owner')
      /\ Devices(mem'.dev, Entries')
  BY <1>1, <1>2, <1>5, <1>6, <1>7, SameNodes
<1> DEFINE kept(i) == LET n == mem.dev[i].rssi
                      IN  n # NULL => ~Outdated(mem.smp[n], rssi.tv)
<1>9. \A i \in 1 .. e : kept(i)
  <2>1. \A i \in 1 .. e - 1 : kept(i)
    BY <1>1 DEF IInv, Expiring
  <2>2. kept(e)
    BY <1>1 DEF Stale
  <2>3. \A i \in 1 .. e : i \in 1 .. e - 1 \/ i = e
    BY <1>2
  <2> HIDE DEF kept, e
  <2> QED BY <2>1, <2>2, <2>3
<1> HIDE DEF next
<1>10. Control'
  BY <1>1, <1>2, <1>4, <1>5 DEF IInv, Control
<1>11. Filing'
  BY <1>5 DEF Filing
<1>12. Expiring'
  <2>1. CASE next = NULL
    BY <1>5, <2>1 DEF Expiring
  <2>2. CASE next # NULL
    <3>1. (e + 1) - 1 = e /\ next = e + 1
      BY <1>2, <1>3, <2>2
    <3> QED BY <1>1, <1>5, <1>9, <3>1 DEF Expiring
  <2> QED BY <2>1, <2>2
<1>13. next = NULL => e = Len(mem.dev)
  <2>1. e + 1 # NULL
    BY <1>2 DEF NULL
  <2> QED BY <1>3, <2>1
<1> HIDE DEF kept, e
<1>14. rssi'.pc = "capture" => \A i \in Entries : kept(i)
  BY <1>2, <1>5, <1>9, <1>13
<1> QED BY <1>6, <1>8, <1>10, <1>11, <1>12, <1>14 DEF IInv, kept

-----------------------------------------------------------------------------
(* The pointer of socket_thread's walk is to a node of the kind it reads,  *)
(* freed or not.                                                           *)
Cursor ==
    /\ sock.pc \in {"compare", "nextdev", "samples"} => sock.cur \in DOMAIN mem.dev
    /\ sock.pc \in {"value", "nextsample"} => sock.cur \in Samples

(* What the walk may find in the nodes.                                    *)
LEMMA Pointed ==
    ASSUME IInv
    PROVE  /\ DOMAIN mem.dev \subseteq Nat /\ NULL \notin DOMAIN mem.dev
           /\ mem.dev # <<>> => 1 \in DOMAIN mem.dev
           /\ \A d \in DOMAIN mem.dev :
                 /\ mem.dev[d].next \in {NULL, Junk} \cup DOMAIN mem.dev
                 /\ mem.dev[d].rssi \in {NULL, Junk} \cup Samples
           /\ \A n \in Samples : mem.smp[n].next \in {NULL, Junk} \cup Samples
<1>1. /\ mem.dev \in Seq(DeviceNode) /\ Len(mem.dev) \in Nat
      /\ DOMAIN mem.dev = 1 .. Len(mem.dev)
      /\ mem.smp \in [Samples -> SampleNode]
      /\ \A d \in DOMAIN mem.dev : mem.dev[d] \in DeviceNode
  BY MemoryTypes DEF IInv, Types
<1>2. DOMAIN mem.dev \subseteq Nat /\ NULL \notin DOMAIN mem.dev
  BY <1>1 DEF NULL
<1>3. mem.dev # <<>> => 1 \in DOMAIN mem.dev
  BY <1>1, EmptySeq
<1>4. \A d \in DOMAIN mem.dev : mem.dev[d].rssi \in {NULL, Junk} \cup Samples
  BY <1>1 DEF DeviceNode
<1>5. \A n \in Samples : mem.smp[n].next \in {NULL, Junk} \cup Samples
  BY <1>1 DEF SampleNode
<1>6. ASSUME NEW d \in DOMAIN mem.dev
      PROVE  mem.dev[d].next \in {NULL, Junk} \cup DOMAIN mem.dev
  <2>1. CASE d \in Entries
    <3>1. mem.dev[d].next = IF d = Len(mem.dev) THEN NULL ELSE d + 1
      BY <2>1 DEF IInv, Devices
    <3>2. d # Len(mem.dev) => d + 1 \in DOMAIN mem.dev
      BY <1>1
    <3> QED BY <3>1, <3>2
  <2>2. CASE d \notin Entries
    <3>1. rssi.pc = "initdev" /\ d = Len(mem.dev)
      <4>1. rssi.pc # "initdev" => Entries = 1 .. Len(mem.dev) - 0
        BY DEF Entries
      <4>2. rssi.pc = "initdev"
        BY <1>1, <2>2, <4>1
      <4>3. Entries = 1 .. Len(mem.dev) - 1
        BY <4>2 DEF Entries
      <4> QED BY <1>1, <2>2, <4>2, <4>3
    <3>2. rssi.new
      BY <3>1 DEF IInv, Filing
    <3>3. mem.dev[d] = JunkDevice
      BY <3>1, <3>2 DEF IInv, Filing
    <3> QED BY <3>3 DEF JunkDevice
  <2> QED BY <2>1, <2>2
<1> QED BY <1>1, <1>2, <1>3, <1>4, <1>5, <1>6

(* The walk goes to an entry.                                              *)
LEMMA GotoDeviceTypes ==
    ASSUME IInv, NEW p, p \in {NULL, Junk} \cup DOMAIN mem.dev, GotoDevice(p)
    PROVE  /\ proc' \in {proc, "crashed"}
           /\ sock' # sock => /\ sock' \in SockState /\ sock'.pc \in {"display", "compare"}
                              /\ sock'.pc = "compare" => sock'.cur \in DOMAIN mem.dev
<1>1. CASE WildAccess(p)
  BY <1>1 DEF WildAccess, Crash
<1>2. CASE ~WildAccess(p)
  <2>1. PICK d \in Pointers(p, DOMAIN mem.dev) :
            /\ sock' = [sock EXCEPT !.cur = d,
                                    !.pc = IF d = NULL THEN "display" ELSE "compare"]
            /\ proc' = proc
    BY <1>2 DEF GotoDevice
  <2>2. d \in DOMAIN mem.dev \/ d = NULL
    BY DEF Pointers
  <2>3. d \in Nat
    BY <2>2, Pointed DEF NULL
  <2>4. /\ sock' \in SockState /\ sock'.cur = d
        /\ sock'.pc = IF d = NULL THEN "display" ELSE "compare"
    BY <2>1, <2>3 DEF IInv, Types, SockState, SockPcs
  <2> QED BY <2>1, <2>2, <2>4
<1> QED BY <1>1, <1>2

(* The walk goes to a sample.                                              *)
LEMMA GotoSampleTypes ==
    ASSUME IInv, NEW p, p \in {NULL, Junk} \cup Samples, GotoSample(p)
    PROVE  /\ proc' \in {proc, "crashed"}
           /\ sock' # sock => /\ sock' \in SockState /\ sock'.pc \in {"display", "value"}
                              /\ sock'.pc = "value" => sock'.cur \in Samples
<1>1. CASE WildAccess(p)
  BY <1>1 DEF WildAccess, Crash
<1>2. CASE ~WildAccess(p)
  <2> DEFINE ans(n) == IF n # NULL THEN sock.answer
                       ELSE IF sock.summed = {} THEN "nan" ELSE "mean"
  <2>1. PICK n \in Pointers(p, Samples) :
            /\ sock' = [sock EXCEPT !.cur = n,
                                    !.pc = IF n = NULL THEN "display" ELSE "value",
                                    !.answer = ans(n)]
            /\ proc' = proc
    BY <1>2 DEF GotoSample
  <2>2. n \in Samples \/ n = NULL
    BY DEF Pointers
  <2>3. n \in Nat
    BY <2>2, RouterAssumption DEF NULL, Samples
  <2>4. ans(n) \in {"default", "nan", "mean"}
    BY DEF IInv, Types, SockState
  <2> HIDE DEF ans
  <2>5. /\ sock' \in SockState /\ sock'.cur = n
        /\ sock'.pc = IF n = NULL THEN "display" ELSE "value"
    BY <2>1, <2>3, <2>4 DEF IInv, Types, SockState, SockPcs
  <2> QED BY <2>1, <2>2, <2>5
<1> QED BY <1>1, <1>2

(* A step of socket_thread.                                                *)
LEMMA SocketInv ==
    ASSUME IInv, Cursor, Bind \/ Receive \/ SmashStack \/ Walk
    PROVE  IInv' /\ Paths' = Paths /\ Cursor'
<1>1. rssi' = rssi /\ mem' = mem /\ packet' = packet /\ clock' = clock
  BY DEF Bind, Receive, SmashStack, Walk, LoadHead, Compare, NextDevice, LoadSamples, AddValue,
         NextSample, Display, Reads
<1>2. proc \in {"running", "exited", "crashed"} /\ sock \in SockState
  BY DEF IInv, Types
<1>3. CASE Bind
  <2>1. PICK loc \in {"ended", "deaf", "recv"} : sock' = [sock EXCEPT !.pc = loc] /\ proc' = proc
    BY <1>3 DEF Bind, Goto
  <2>2. sock' \in SockState /\ sock'.pc = loc
    BY <1>2, <2>1 DEF SockState, SockPcs
  <2>3. Types' /\ Cursor'
    BY <1>1, <1>2, <2>1, <2>2 DEF IInv, Types, Cursor
  <2> QED BY <1>1, <2>3, OthersInv
<1>4. CASE Receive
  <2>1. /\ sock' = [pc |-> IF mem.l = "null" THEN "display" ELSE "head",
                    cur |-> NULL, summed |-> {}, answer |-> "default"]
        /\ proc' = proc
    BY <1>4 DEF Receive
  <2>2. sock' \in SockState /\ sock'.pc \in {"display", "head"}
    BY <2>1 DEF SockState, SockPcs, NULL
  <2>3. Types' /\ Cursor'
    BY <1>1, <1>2, <2>1, <2>2 DEF IInv, Types, Cursor
  <2> QED BY <1>1, <2>3, OthersInv
<1>5. CASE LoadHead
  <2> DEFINE p == IF mem.l = "junk" THEN Junk ELSE IF mem.dev = <<>> THEN NULL ELSE 1
  <2>1. GotoDevice(p)
    BY <1>5 DEF LoadHead
  <2>2. p \in {NULL, Junk} \cup DOMAIN mem.dev
    BY Pointed
  <2> HIDE DEF p
  <2>3. /\ proc' \in {proc, "crashed"}
        /\ sock' # sock => /\ sock' \in SockState /\ sock'.pc \in {"display", "compare"}
                           /\ sock'.pc = "compare" => sock'.cur \in DOMAIN mem.dev
    BY <2>1, <2>2, GotoDeviceTypes
  <2>4. Types' /\ Cursor'
    BY <1>1, <1>2, <2>3 DEF IInv, Types, Cursor
  <2> QED BY <1>1, <2>4, OthersInv
<1>6. CASE Compare
  <2>1. PICK loc \in {"samples", "nextdev"} : sock' = [sock EXCEPT !.pc = loc] /\ proc' = proc
    BY <1>6 DEF Compare, Goto
  <2>2. sock' \in SockState /\ sock'.pc = loc /\ sock'.cur = sock.cur
    BY <1>2, <2>1 DEF SockState, SockPcs
  <2>3. sock.cur \in DOMAIN mem.dev
    BY <1>6 DEF Cursor, Compare
  <2>4. Types' /\ Cursor'
    BY <1>1, <1>2, <2>1, <2>2, <2>3 DEF IInv, Types, Cursor
  <2> QED BY <1>1, <2>4, OthersInv
<1>7. CASE NextDevice
  <2>1. GotoDevice(mem.dev[sock.cur].next) /\ sock.cur \in DOMAIN mem.dev
    BY <1>7 DEF Cursor, NextDevice
  <2>2. mem.dev[sock.cur].next \in {NULL, Junk} \cup DOMAIN mem.dev
    BY <2>1, Pointed
  <2>3. /\ proc' \in {proc, "crashed"}
        /\ sock' # sock => /\ sock' \in SockState /\ sock'.pc \in {"display", "compare"}
                           /\ sock'.pc = "compare" => sock'.cur \in DOMAIN mem.dev
    BY <2>1, <2>2, GotoDeviceTypes
  <2>4. Types' /\ Cursor'
    BY <1>1, <1>2, <2>3 DEF IInv, Types, Cursor
  <2> QED BY <1>1, <2>4, OthersInv
<1>8. CASE LoadSamples
  <2>1. GotoSample(mem.dev[sock.cur].rssi) /\ sock.cur \in DOMAIN mem.dev
    BY <1>8 DEF Cursor, LoadSamples
  <2>2. mem.dev[sock.cur].rssi \in {NULL, Junk} \cup Samples
    BY <2>1, Pointed
  <2>3. /\ proc' \in {proc, "crashed"}
        /\ sock' # sock => /\ sock' \in SockState /\ sock'.pc \in {"display", "value"}
                           /\ sock'.pc = "value" => sock'.cur \in Samples
    BY <2>1, <2>2, GotoSampleTypes
  <2>4. Types' /\ Cursor'
    BY <1>1, <1>2, <2>3 DEF IInv, Types, Cursor
  <2> QED BY <1>1, <2>4, OthersInv
<1>9. CASE AddValue
  <2>1. /\ sock' = [sock EXCEPT !.pc = "nextsample", !.summed = @ \cup {sock.cur}]
        /\ proc' = proc /\ sock.cur \in Samples
    BY <1>9 DEF AddValue, Cursor
  <2>2. sock' \in SockState /\ sock'.pc = "nextsample" /\ sock'.cur = sock.cur
    BY <1>2, <2>1 DEF SockState, SockPcs
  <2>3. Types' /\ Cursor'
    BY <1>1, <1>2, <2>1, <2>2 DEF IInv, Types, Cursor
  <2> QED BY <1>1, <2>3, OthersInv
<1>10. CASE NextSample
  <2>1. GotoSample(mem.smp[sock.cur].next) /\ sock.cur \in Samples
    BY <1>10 DEF Cursor, NextSample
  <2>2. mem.smp[sock.cur].next \in {NULL, Junk} \cup Samples
    BY <2>1, Pointed
  <2>3. /\ proc' \in {proc, "crashed"}
        /\ sock' # sock => /\ sock' \in SockState /\ sock'.pc \in {"display", "value"}
                           /\ sock'.pc = "value" => sock'.cur \in Samples
    BY <2>1, <2>2, GotoSampleTypes
  <2>4. Types' /\ Cursor'
    BY <1>1, <1>2, <2>3 DEF IInv, Types, Cursor
  <2> QED BY <1>1, <2>4, OthersInv
<1>11. CASE Display
  <2>1. \/ sock' = [sock EXCEPT !.pc = "recv"] /\ proc' = proc
        \/ sock' = sock /\ proc' = "crashed"
    BY <1>11 DEF Display, Goto, Crash
  <2>2. sock' # sock => sock' \in SockState /\ sock'.pc = "recv"
    BY <1>2, <2>1 DEF SockState, SockPcs
  <2>3. Types' /\ Cursor'
    BY <1>1, <1>2, <2>1, <2>2 DEF IInv, Types, Cursor
  <2> QED BY <1>1, <2>3, OthersInv
<1>12. CASE SmashStack
  <2>1. sock' = sock /\ proc' = "crashed"
    BY <1>12 DEF SmashStack, Crash
  <2>2. Types' /\ Cursor'
    BY <1>1, <1>2, <2>1 DEF IInv, Types, Cursor
  <2> QED BY <1>1, <2>2, OthersInv
<1> QED BY <1>3, <1>4, <1>5, <1>6, <1>7, <1>8, <1>9, <1>10, <1>11, <1>12 DEF Walk

(* Only Receive sets the address asked for.                                *)
LEMMA AddressKept ==
    ASSUME Rssi \/ Bind \/ SmashStack \/ Walk \/ Tick \/ UNCHANGED vars
    PROVE  mac_addr' = mac_addr
<1>1. CASE Rssi
  BY <1>1 DEF Rssi, AllocList, OpenFails, InitList, Capture, CaptureFails, MallocFails,
              Skip, Known, FirstDevice, LinkDevice, InitDevice, FirstSample, LinkSample,
              InitSample, Expire, Unlink, NextEntry, Changes, Local, End
<1>2. CASE Bind \/ SmashStack \/ Walk
  BY <1>2 DEF Bind, SmashStack, Walk, LoadHead, Compare, NextDevice, LoadSamples,
              AddValue, NextSample, Display, Reads
<1>3. CASE Tick \/ UNCHANGED vars
  BY <1>3 DEF Tick, vars
<1> QED BY <1>1, <1>2, <1>3

(* The nodes of the entries never go away.                                 *)
LEMMA RssiInv ==
    ASSUME IInv, Rssi
    PROVE  IInv' /\ sock' = sock /\ DOMAIN mem.dev \subseteq DOMAIN mem'.dev
<1>1. Len(mem.dev) \in Nat /\ DOMAIN mem.dev = 1 .. Len(mem.dev)
  BY MemoryTypes DEF IInv, Types
<1>2. IInv' => Len(mem'.dev) \in Nat /\ DOMAIN mem'.dev = 1 .. Len(mem'.dev)
  BY MemoryTypes DEF IInv, Types
<1>3. CASE AllocList \/ InitList
  BY <1>3, AllocListInv DEF AllocList, InitList, Changes
<1>4. CASE OpenFails \/ CaptureFails \/ MallocFails
  BY <1>4, EndInv DEF OpenFails, CaptureFails, MallocFails, End
<1>5. CASE Capture \/ Skip \/ Known
  BY <1>5, FrameInv DEF Capture, Skip, Known, Local
<1>6. CASE FirstDevice
  <2>1. mem.dev = <<>> /\ sock' = sock
    BY <1>6 DEF FirstDevice, Changes
  <2> QED BY <1>6, <2>1, FirstDeviceInv
<1>7. CASE LinkDevice
  <2>1. IInv' /\ Len(mem'.dev) = Len(mem.dev) + 1
    BY <1>7, LinkDeviceInv
  <2>2. sock' = sock
    BY <1>7 DEF LinkDevice, Changes
  <2> QED BY <1>1, <1>2, <2>1, <2>2
<1>8. CASE InitDevice
  BY <1>1, <1>2, <1>8, InitDeviceInv DEF InitDevice, Changes
<1>9. CASE FirstSample
  <2>1. IInv' /\ Len(mem'.dev) = Len(mem.dev)
    BY <1>9, FirstSampleInv
  <2>2. sock' = sock
    BY <1>9 DEF FirstSample, Changes
  <2> QED BY <1>1, <1>2, <2>1, <2>2
<1>10. CASE LinkSample
  BY <1>10, LinkSampleInv DEF LinkSample, Changes
<1>11. CASE InitSample
  BY <1>11, InitSampleInv DEF InitSample, Changes
<1>12. CASE Expire
  BY <1>12, ExpireInv DEF Expire, Changes
<1>13. CASE Unlink
  <2>1. IInv' /\ Len(mem'.dev) = Len(mem.dev)
    BY <1>13, UnlinkInv
  <2>2. sock' = sock
    BY <1>13 DEF Unlink, Changes
  <2> QED BY <1>1, <1>2, <2>1, <2>2
<1>14. CASE NextEntry
  BY <1>14, NextEntryInv DEF NextEntry, Local
<1> QED BY <1>3, <1>4, <1>5, <1>6, <1>7, <1>8, <1>9, <1>10, <1>11, <1>12, <1>13, <1>14
        DEF Rssi

(* Time passes.                                                            *)
LEMMA TickInv ==
    ASSUME IInv, Tick
    PROVE  IInv' /\ Paths' = Paths /\ sock' = sock /\ mem' = mem
<1>1. /\ rssi' = rssi /\ mem' = mem /\ packet' = packet /\ sock' = sock /\ proc' = proc
      /\ clock' = clock + 1
  BY DEF Tick
<1>2. Types'
  BY <1>1 DEF IInv, Types
<1> QED BY <1>1, <1>2, OthersInv

(* At the start there are no nodes.                                        *)
LEMMA InitIInv == Init => IInv /\ Cursor
<1> SUFFICES ASSUME Init PROVE IInv /\ Cursor
  OBVIOUS
<1>1. /\ rssi = [pc |-> "start", dev |-> NULL, new |-> FALSE, node |-> NULL, tv |-> 0]
      /\ mem = [l |-> "null", dev |-> <<>>, smp |-> [n \in Samples |-> JunkSample],
                live |-> {}]
      /\ sock = [pc |-> "bind", cur |-> NULL, summed |-> {}, answer |-> "default"]
      /\ proc = "running" /\ packet = NoPacket /\ clock = 0
  BY DEF Init
<1>2. rssi \in RssiState /\ sock \in SockState
  BY <1>1 DEF RssiState, RssiPcs, SockState, SockPcs, NULL
<1>3. <<>> \in Seq(DeviceNode) /\ Len(<<>>) = 0 /\ DOMAIN <<>> = {}
  OBVIOUS
<1>4. [n \in Samples |-> JunkSample] \in [Samples -> SampleNode]
  BY JunkTypes
<1>5. mem \in Memory
  BY <1>1, <1>3, <1>4 DEF Memory
<1>6. Types
  BY <1>1, <1>2, <1>5 DEF Types
<1>7. Entries = {}
  BY <1>1, <1>3 DEF Entries
<1>8. Layout(Paths, Entries, mem, rssi.node, Owner)
  <2>1. Paths \in [Entries -> Seq(Samples)]
    BY <1>7 DEF Paths
  <2>2. \A n \in Samples : mem.smp[n].next = Junk
    BY <1>1 DEF JunkSample
  <2>3. mem.live = {}
    BY <1>1
  <2> QED BY <1>7, <2>1, <2>2, <2>3 DEF Layout
<1>9. Devices(mem.dev, Entries)
  BY <1>7 DEF Devices
<1>10. Control /\ Filing /\ Expiring /\ Cursor
  BY <1>1 DEF Control, Filing, Expiring, Cursor
<1> QED BY <1>6, <1>8, <1>9, <1>10 DEF IInv

LEMMA NextIInv == IInv /\ Cursor /\ [Next]_vars => IInv' /\ Cursor'
<1> SUFFICES ASSUME IInv, Cursor, [Next]_vars PROVE IInv' /\ Cursor'
  OBVIOUS
<1>1. CASE Rssi
  <2>1. IInv' /\ sock' = sock /\ DOMAIN mem.dev \subseteq DOMAIN mem'.dev
    BY <1>1, RssiInv
  <2> QED BY <2>1 DEF Cursor
<1>2. CASE Bind \/ Receive \/ SmashStack \/ Walk
  BY <1>2, SocketInv
<1>3. CASE Tick
  BY <1>3, TickInv DEF Cursor
<1>4. CASE UNCHANGED vars
  <2>1. Types'
    BY <1>4 DEF IInv, Types, vars
  <2>2. IInv' /\ Paths' = Paths
    BY <1>4, <2>1, OthersInv DEF vars
  <2> QED BY <1>4, <2>2 DEF Cursor, vars
<1> QED BY <1>1, <1>2, <1>3, <1>4 DEF Next

(* Wherever the two threads are, the nodes rssi_thread works on are where  *)
(* it expects them, and those socket_thread reads are in its memory.       *)
THEOREM Invariance == Spec => [](IInv /\ Cursor)
<1>1. Init => IInv /\ Cursor
  BY InitIInv
<1>2. (IInv /\ Cursor) /\ [Next]_vars => (IInv /\ Cursor)'
  BY NextIInv
<1> QED BY <1>1, <1>2, PTL DEF Spec

(* Every variable stays in its range.                                      *)
THEOREM RouterTypeCorrect == Spec => []TypeOK
<1> DEFINE Address == mac_addr \in {ZeroMAC} \cup Overlaid
<1>1. IInv /\ Cursor /\ Address => TypeOK
  <2> SUFFICES ASSUME IInv, Cursor, Address PROVE TypeOK
    OBVIOUS
  <2>1. /\ proc \in {"running", "exited", "crashed"}
        /\ rssi.dev \in {NULL} \cup DOMAIN mem.dev
        /\ rssi.node \in mem.live \cup {NULL}
    BY DEF IInv, Types, Control
  <2>2. mem.l \in {"null", "junk", "list"} /\ mem.live \subseteq Samples
    BY MemoryTypes DEF IInv, Types
  <2>3. \A d \in DOMAIN mem.dev : mem.dev[d].next \in {NULL, Junk} \cup DOMAIN mem.dev
    BY Pointed
  <2> QED BY <2>1, <2>2, <2>3 DEF TypeOK, Cursor
<1>2. Init => Address
  BY DEF Init
<1>3. Address /\ [Next]_vars => Address'
  BY AddressKept DEF Next, Receive
<1> HIDE DEF Address
<1> QED BY <1>1, <1>2, <1>3, Invariance, PTL DEF Spec

(* No sample node is leaked, freed while linked, or linked twice, with     *)
(* whatever number of stations and samples.                                *)
THEOREM MemoryIsExact == Spec => []MemoryExact
<1>1. IInv => MemoryExact
  <2> SUFFICES ASSUME IInv PROVE MemoryExact
    OBVIOUS
  <2> DEFINE E == {i \in DOMAIN mem.dev : mem.dev[i] # JunkDevice}
             links == UNION {SamplesOf(d) : d \in E}
  <2>1. Layout(Paths, Entries, mem, rssi.node, Owner)
    BY DEF IInv
  <2>2. E = Entries
    <3>1. /\ DOMAIN mem.dev = 1 .. Len(mem.dev) /\ Len(mem.dev) \in Nat
          /\ mem.live \subseteq Samples
      BY MemoryTypes DEF IInv, Types
    <3>2. \A i \in Entries : mem.dev[i].mac \in MACs
      BY DEF IInv, Devices
    <3>3. \A i \in Entries : mem.dev[i] # JunkDevice
      BY <3>2, RouterAssumption DEF JunkDevice
    <3>4. CASE rssi.pc # "initdev"
      <4>1. Entries = 1 .. Len(mem.dev) - 0
        BY <3>4 DEF Entries
      <4> QED BY <3>1, <3>3, <4>1
    <3>5. CASE rssi.pc = "initdev"
      <4>1. Entries = 1 .. Len(mem.dev) - 1
        BY <3>5 DEF Entries
      <4>2. rssi.new
        BY <3>5 DEF IInv, Filing
      <4>3. mem.dev[Len(mem.dev)] = JunkDevice
        BY <3>5, <4>2 DEF IInv, Filing
      <4>4. \A i \in 1 .. Len(mem.dev) : i \in Entries \/ i = Len(mem.dev)
        BY <3>1, <4>1
      <4>5. Entries \subseteq DOMAIN mem.dev
        BY <3>1, <4>1
      <4> QED BY <3>1, <3>3, <4>3, <4>4, <4>5
    <3> QED BY <3>4, <3>5
  <2>3. \A d \in Entries : SamplesOf(d) = {<<d, k, Paths[d][k]>> : k \in DOMAIN Paths[d]}
    BY DEF SamplesOf, Paths
  <2>4. \A e \in links : /\ e[1] \in Entries /\ e[2] \in DOMAIN Paths[e[1]]
                         /\ e = <<e[1], e[2], Paths[e[1]][e[2]]>>
    BY <2>2, <2>3
  <2>5. \A d \in Entries : \A k \in DOMAIN Paths[d] : <<d, k, Paths[d][k]>> \in links
    BY <2>2, <2>3
  <2> HIDE DEF links, E
  <2>6. {e[3] : e \in links} = mem.live \ {rssi.node}
    <3>1. ASSUME NEW e \in links PROVE e[3] \in mem.live \ {rssi.node}
      BY <2>1, <2>4 DEF Layout
    <3>2. ASSUME NEW n \in mem.live \ {rssi.node} PROVE \E e \in links : e[3] = n
      <4>1. PICK d \in Entries : \E k \in DOMAIN Paths[d] : Paths[d][k] = n
        BY <2>1 DEF Layout
      <4>2. PICK k \in DOMAIN Paths[d] : Paths[d][k] = n
        BY <4>1
      <4>3. <<d, k, Paths[d][k]>> \in links
        BY <2>5
      <4> QED BY <4>2, <4>3
    <3> QED BY <3>1, <3>2
  <2>7. \A e, f \in links : e[3] = f[3] => e = f
    <3> SUFFICES ASSUME NEW e \in links, NEW f \in links, e[3] = f[3] PROVE e = f
      OBVIOUS
    <3>1. Paths[e[1]][e[2]] = Paths[f[1]][f[2]]
      BY <2>4
    <3>2. e[1] = f[1] /\ e[2] = f[2]
      BY <2>1, <2>4, <3>1 DEF Layout
    <3> QED BY <2>4, <3>2
  <2>8. rssi.node \in mem.live \cup {NULL} /\ NULL \notin mem.live
    <3>1. mem.live \subseteq Samples
      BY MemoryTypes DEF IInv, Types
    <3> QED BY <3>1, NoNodes DEF IInv, Control
  <2>9. {e[3] : e \in links} \cup ({rssi.node} \ {NULL}) = mem.live
    BY <2>6, <2>8
  <2> QED BY <2>7, <2>9 DEF MemoryExact, links, E
<1> QED BY <1>1, Invariance, PTL

-----------------------------------------------------------------------------
(* The list in memory is the one the capture loop is described with.       *)
Contents(s, smp) == [k \in DOMAIN s |-> [from |-> smp[s[k]].from, date |-> smp[s[k]].date]]
ListOf(f, dev, smp, m) ==
    [i \in 1 .. m |-> [mac |-> dev[i].mac, rssi |-> Contents(f[i], smp)]]
Shown == Len(mem.dev) - IF rssi.new THEN 1 ELSE 0
InMemory == ListOf(Paths, mem.dev, mem.smp, Shown)

(* The entries that are shown have their nodes.                            *)
LEMMA ShownEntries ==
    ASSUME IInv
    PROVE  1 .. Shown \subseteq Entries
<1>1. Len(mem.dev) \in Nat
  BY MemoryTypes DEF IInv, Types
<1>2. rssi.pc = "initdev" => rssi.new
  BY DEF IInv, Filing
<1>3. CASE rssi.new
  <2>1. Shown = Len(mem.dev) - 1
    BY <1>3 DEF Shown
  <2>2. Entries = 1 .. Len(mem.dev) - 1 \/ Entries = 1 .. Len(mem.dev) - 0
    BY DEF Entries
  <2> QED BY <1>1, <2>1, <2>2
<1>4. CASE ~rssi.new
  <2>1. Shown = Len(mem.dev) - 0
    BY <1>4 DEF Shown
  <2>2. Entries = 1 .. Len(mem.dev) - 0
    BY <1>2, <1>4 DEF Entries
  <2> QED BY <2>1, <2>2
<1> QED BY <1>3, <1>4

(* What is published is the list in memory, or what expiry will leave of   *)
(* it.                                                                     *)
LEMMA PublishedInMemory ==
    IInv => Published = IF rssi.pc = "unlink" THEN delete_outdate(InMemory, rssi.tv)
                        ELSE InMemory
<1> SUFFICES ASSUME IInv
             PROVE  Published = IF rssi.pc = "unlink" THEN delete_outdate(InMemory, rssi.tv)
                                ELSE InMemory
  OBVIOUS
<1> DEFINE entry(d) == [mac |-> d.mac,
                        rssi |-> [k \in DOMAIN Linked[d.rssi] |->
                                     [from |-> mem.smp[Linked[d.rssi][k]].from,
                                      date |-> mem.smp[Linked[d.rssi][k]].date]]]
           list == [i \in 1 .. Shown |-> entry(mem.dev[i])]
<1>1. Published = IF rssi.pc = "unlink" THEN delete_outdate(list, rssi.tv) ELSE list
  BY DEF Published, Shown
<1>2. \A i \in 1 .. Shown : Linked[mem.dev[i].rssi] = Paths[i]
  BY ShownEntries DEF Paths
<1>3. \A i \in 1 .. Shown :
          entry(mem.dev[i]) = [mac |-> mem.dev[i].mac, rssi |-> Contents(Paths[i], mem.smp)]
  BY <1>2 DEF Contents
<1> HIDE DEF entry
<1>4. list = InMemory
  BY <1>3 DEF InMemory, ListOf
<1> QED BY <1>1, <1>4

LEMMA PublishedNext ==
    IInv' => Published' = IF rssi'.pc = "unlink" THEN delete_outdate(InMemory', rssi'.tv)
                          ELSE InMemory'
<1>1. (IInv => Published = IF rssi.pc = "unlink" THEN delete_outdate(InMemory, rssi.tv)
                           ELSE InMemory)'
  BY PublishedInMemory, PTL
<1> QED BY <1>1

(* The samples of an entry.                                                *)
LEMMA ContentsTypes ==
    ASSUME NEW s \in Seq(Samples), NEW smp,
           \A k \in DOMAIN s : smp[s[k]].from \in MACs /\ smp[s[k]].date \in Nat
    PROVE  /\ Contents(s, smp) \in Seq(RssiSample)
           /\ Len(Contents(s, smp)) = Len(s)
           /\ \A k \in DOMAIN s :
                Contents(s, smp)[k] = [from |-> smp[s[k]].from, date |-> smp[s[k]].date]
<1>1. DOMAIN s = 1 .. Len(s) /\ Len(s) \in Nat
  BY LenProperties
<1> DEFINE e(k) == [from |-> smp[s[k]].from, date |-> smp[s[k]].date]
<1>2. \A k \in 1 .. Len(s) : e(k) \in RssiSample
  BY <1>1 DEF RssiSample
<1>3. Contents(s, smp) = [k \in 1 .. Len(s) |-> e(k)]
  BY <1>1 DEF Contents
<1>4. \A k \in DOMAIN s : Contents(s, smp)[k] = e(k)
  BY DEF Contents
<1>5. [k \in 1 .. Len(s) |-> e(k)] \in Seq(RssiSample)
  <2> HIDE DEF e
  <2> QED BY <1>1, <1>2, IsASeq
<1>6. Len(Contents(s, smp)) = Len(s)
  <2>1. DOMAIN Contents(s, smp) = 1 .. Len(s)
    BY <1>1 DEF Contents
  <2>2. /\ DOMAIN Contents(s, smp) = 1 .. Len(Contents(s, smp))
        /\ Len(Contents(s, smp)) \in Nat
    BY <1>3, <1>5, LenProperties
  <2> QED BY <1>1, <2>1, <2>2
<1> QED BY <1>3, <1>4, <1>5, <1>6

(* The list of entries in their types.                                     *)
LEMMA ListOfTypes ==
    ASSUME NEW f, NEW dev, NEW smp, NEW m \in Nat,
           \A i \in 1 .. m : dev[i].mac \in MACs /\ Contents(f[i], smp) \in Seq(RssiSample)
    PROVE  LET d == ListOf(f, dev, smp, m)
           IN  /\ d \in Seq(DeviceEntry) /\ DOMAIN d = 1 .. m /\ Len(d) = m
               /\ \A i \in 1 .. m : d[i].mac = dev[i].mac /\ d[i].rssi = Contents(f[i], smp)
<1> DEFINE e(i) == [mac |-> dev[i].mac, rssi |-> Contents(f[i], smp)]
           d == ListOf(f, dev, smp, m)
<1>1. \A i \in 1 .. m : e(i) \in DeviceEntry
  BY DEF DeviceEntry
<1>2. d = [i \in 1 .. m |-> e(i)]
  BY DEF ListOf
<1>3. /\ DOMAIN d = 1 .. m
      /\ \A i \in 1 .. m : d[i].mac = dev[i].mac /\ d[i].rssi = Contents(f[i], smp)
  BY <1>2
<1>4. [i \in 1 .. m |-> e(i)] \in Seq(DeviceEntry)
  <2> HIDE DEF e
  <2> QED BY <1>1, IsASeq
<1> HIDE DEF d, e
<1>5. Len(d) = m
  <2>1. DOMAIN d = 1 .. Len(d) /\ Len(d) \in Nat
    BY <1>2, <1>4, LenProperties
  <2> QED BY <1>3, <2>1
<1>6. d \in Seq(DeviceEntry)
  BY <1>2, <1>4
<1> QED BY <1>3, <1>5, <1>6 DEF d

(* The samples on the lists are initialised.                               *)
LEMMA InMemoryTypes ==
    ASSUME IInv
    PROVE  /\ \A i \in Entries : /\ mem.dev[i].mac \in MACs
                                 /\ Paths[i] \in Seq(Samples)
                                 /\ \A k \in DOMAIN Paths[i] :
                                      /\ mem.smp[Paths[i][k]].from \in MACs
                                      /\ mem.smp[Paths[i][k]].date \in Nat
                                 /\ Contents(Paths[i], mem.smp) \in Seq(RssiSample)
           /\ Shown \in Nat =>
                /\ InMemory \in Seq(DeviceEntry)
                /\ DOMAIN InMemory = 1 .. Shown /\ Len(InMemory) = Shown
                /\ \A i \in 1 .. Shown : /\ InMemory[i].mac = mem.dev[i].mac
                                         /\ InMemory[i].rssi = Contents(Paths[i], mem.smp)
<1>1. Layout(Paths, Entries, mem, rssi.node, Owner)
  BY DEF IInv
<1>2. ASSUME NEW i \in Entries
      PROVE  /\ mem.dev[i].mac \in MACs
             /\ Paths[i] \in Seq(Samples)
             /\ \A k \in DOMAIN Paths[i] : /\ mem.smp[Paths[i][k]].from \in MACs
                                           /\ mem.smp[Paths[i][k]].date \in Nat
             /\ Contents(Paths[i], mem.smp) \in Seq(RssiSample)
  <2>1. mem.dev[i].mac \in MACs
    BY DEF IInv, Devices
  <2>2. Paths[i] \in Seq(Samples)
    BY <1>1 DEF Layout
  <2>3. \A k \in DOMAIN Paths[i] : /\ mem.smp[Paths[i][k]].from \in MACs
                                   /\ mem.smp[Paths[i][k]].date \in Nat
    BY <1>1 DEF Layout
  <2> QED BY <2>1, <2>2, <2>3, ContentsTypes
<1>3. ASSUME Shown \in Nat
      PROVE  /\ InMemory \in Seq(DeviceEntry)
             /\ DOMAIN InMemory = 1 .. Shown /\ Len(InMemory) = Shown
             /\ \A i \in 1 .. Shown : /\ InMemory[i].mac = mem.dev[i].mac
                                      /\ InMemory[i].rssi = Contents(Paths[i], mem.smp)
  <2>1. \A i \in 1 .. Shown :
            mem.dev[i].mac \in MACs /\ Contents(Paths[i], mem.smp) \in Seq(RssiSample)
    BY <1>2, ShownEntries
  <2> QED BY <1>3, <2>1, ListOfTypes DEF InMemory
<1> QED BY <1>2, <1>3

LEMMA InMemoryTypesNext ==
    IInv' =>
      /\ \A i \in Entries' : Contents(Paths'[i], mem'.smp) \in Seq(RssiSample)
      /\ Shown' \in Nat =>
           /\ InMemory' \in Seq(DeviceEntry)
           /\ DOMAIN InMemory' = 1 .. Shown' /\ Len(InMemory') = Shown'
           /\ \A i \in 1 .. Shown' :
                /\ InMemory'[i].mac = mem'.dev[i].mac
                /\ InMemory'[i].rssi = Contents(Paths'[i], mem'.smp)
<1> DEFINE Typed == /\ \A i \in Entries : Contents(Paths[i], mem.smp) \in Seq(RssiSample)
                    /\ Shown \in Nat =>
                         /\ InMemory \in Seq(DeviceEntry)
                         /\ DOMAIN InMemory = 1 .. Shown /\ Len(InMemory) = Shown
                         /\ \A i \in 1 .. Shown :
                              /\ InMemory[i].mac = mem.dev[i].mac
                              /\ InMemory[i].rssi = Contents(Paths[i], mem.smp)
<1>1. IInv => Typed
  BY InMemoryTypes
<1> HIDE DEF Typed
<1>2. (IInv => Typed)'
  BY <1>1, PTL
<1>3. IInv' => Typed'
  BY <1>2
<1> QED BY <1>3 DEF Typed

(* Lists of the same nodes with the same contents are the same.            *)
LEMMA SameList ==
    ASSUME NEW f, NEW f2, NEW dev, NEW dev2, NEW smp, NEW smp2, NEW m,
           \A i \in 1 .. m :
              /\ f2[i] = f[i] /\ dev2[i].mac = dev[i].mac
              /\ \A k \in DOMAIN f[i] : /\ smp2[f[i][k]].from = smp[f[i][k]].from
                                        /\ smp2[f[i][k]].date = smp[f[i][k]].date
    PROVE  ListOf(f2, dev2, smp2, m) = ListOf(f, dev, smp, m)
<1>1. \A i \in 1 .. m : Contents(f2[i], smp2) = Contents(f[i], smp)
  BY DEF Contents
<1> QED BY <1>1 DEF ListOf

(* The capture loop's description uses the same operators on lists.        *)
LEMMA SameOperators ==
    ASSUME NEW d, NEW mac, NEW dev, NEW s, NEW now
    PROVE  /\ Capturing!is_known(d, mac) = is_known(d, mac)
           /\ Capturing!add_device(d, mac) = add_device(d, mac)
           /\ Capturing!added_device(d) = added_device(d)
           /\ Capturing!add_rssi_sample(d, dev, s) = add_rssi_sample(d, dev, s)
           /\ Capturing!delete_outdate(d, now) = delete_outdate(d, now)
           /\ Capturing!NULL = NULL
<1>1. Capturing!is_known(d, mac) = is_known(d, mac) /\ Capturing!NULL = NULL
  BY DEF Capturing!is_known, Capturing!Matches, Capturing!NULL, is_known, Matches, NULL
<1>2. /\ Capturing!add_device(d, mac) = add_device(d, mac)
      /\ Capturing!added_device(d) = added_device(d)
      /\ Capturing!add_rssi_sample(d, dev, s) = add_rssi_sample(d, dev, s)
  BY DEF Capturing!add_device, Capturing!added_device, Capturing!add_rssi_sample,
         add_device, added_device, add_rssi_sample
<1>3. Capturing!delete_outdate(d, now) = delete_outdate(d, now)
  BY DEF Capturing!delete_outdate, Capturing!delete_outdated, Capturing!FirstKept,
         Capturing!Outdated, delete_outdate, delete_outdated, FirstKept, Outdated
<1> QED BY <1>1, <1>2, <1>3


(* A step that changes no sample, address or order that is shown.          *)
LEMMA SamePublished ==
    ASSUME IInv, IInv', Shown' = Shown,
           rssi'.pc = "unlink" <=> rssi.pc = "unlink", rssi'.tv = rssi.tv,
           \A i \in 1 .. Shown :
              /\ Paths'[i] = Paths[i] /\ mem'.dev[i].mac = mem.dev[i].mac
              /\ \A k \in DOMAIN Paths[i] :
                   /\ mem'.smp[Paths[i][k]].from = mem.smp[Paths[i][k]].from
                   /\ mem'.smp[Paths[i][k]].date = mem.smp[Paths[i][k]].date
    PROVE  Published' = Published
<1>1. InMemory' = InMemory
  <2>1. ListOf(Paths', mem'.dev, mem'.smp, Shown) = ListOf(Paths, mem.dev, mem.smp, Shown)
    BY SameList
  <2> QED BY <2>1 DEF InMemory
<1> QED BY <1>1, PublishedInMemory, PublishedNext

(* In particular one that changes no memory.                               *)
LEMMA SameMemory ==
    ASSUME IInv, IInv', Paths' = Paths, mem'.dev = mem.dev, mem'.smp = mem.smp,
           rssi'.new = rssi.new, rssi'.tv = rssi.tv,
           rssi'.pc = "unlink" <=> rssi.pc = "unlink"
    PROVE  Published' = Published
<1>1. Shown' = Shown
  BY DEF Shown
<1> QED BY <1>1, SamePublished

AbstractStep == Capturing!Next \/ UNCHANGED Capturing!vars

(* The list is allocated (no step), then opened.                           *)
LEMMA AllocListStep ==
    ASSUME IInv, AllocList \/ InitList
    PROVE  AbstractStep
<1>1. IInv' /\ Paths' = Paths /\ mem'.dev = mem.dev
  BY AllocListInv
<1>2. /\ packet' = packet /\ clock' = clock /\ rate' = rate /\ mem'.smp = mem.smp
      /\ rssi \in RssiState /\ rssi.pc \in {"start", "alloc"}
      /\ rssi'.pc = IF rssi.pc = "start" THEN "alloc" ELSE "capture"
      /\ rssi'.new = rssi.new /\ rssi'.tv = rssi.tv
  BY DEF IInv, Types, RssiState, Memory, AllocList, InitList, Changes
<1>3. Published' = Published
  BY <1>1, <1>2, SameMemory
<1>4. Published = <<>>
  <2>1. mem.dev = <<>> /\ ~rssi.new
    BY <1>2 DEF IInv, Control
  <2>2. Shown = 0
    BY <2>1 DEF Shown
  <2>3. InMemory = <<>>
    BY <2>2, InMemoryTypes, EmptySeq
  <2> QED BY <1>2, <2>3, PublishedInMemory
<1>5. CASE rssi.pc = "start"
  BY <1>2, <1>3, <1>5 DEF AbstractStep, Capturing!vars, Stage
<1>6. CASE rssi.pc = "alloc"
  <2>1. Stage = "open" /\ Stage' = "capture"
    BY <1>2, <1>6 DEF Stage
  <2>2. Capturing!Open
    BY <1>2, <1>3, <1>4, <2>1 DEF Capturing!Open
  <2> QED BY <2>2 DEF AbstractStep, Capturing!Next
<1> QED BY <1>2, <1>5, <1>6

(* The process ends.                                                       *)
LEMMA EndStep ==
    ASSUME IInv, OpenFails \/ CaptureFails \/ MallocFails
    PROVE  AbstractStep
<1>1. IInv' /\ Paths' = Paths
  BY EndInv
<1>2. PICK how \in {"exited", "crashed"} :
          /\ rssi' = [rssi EXCEPT !.pc = how]
          /\ \/ rssi.pc = "start" /\ how = "exited"
             \/ rssi.pc = "capture" /\ how = "crashed"
             \/ rssi.pc \in {"start", "sample"} /\ how = "crashed"
             \/ rssi.pc = "classify" /\ Capturing!Accepted(packet) /\ how = "crashed"
          /\ UNCHANGED <<packet, mem, sock, clock, rate, disturbed>>
  BY DEF OpenFails, CaptureFails, MallocFails, End, Allocates, Accepting
<1>3. rssi'.pc = how /\ rssi'.new = rssi.new /\ rssi'.tv = rssi.tv
  BY <1>2 DEF IInv, Types, RssiState
<1>4. Published' = Published
  BY <1>1, <1>2, <1>3, SameMemory
<1>5. Stage' = how
  BY <1>3 DEF Stage
<1>6. CASE rssi.pc = "start"
  <2>1. Stage = "open"
    BY <1>6 DEF Stage
  <2>2. Capturing!OpenFails \/ Capturing!MallocFails
    BY <1>2, <1>4, <1>5, <1>6, <2>1 DEF Capturing!OpenFails, Capturing!MallocFails
  <2> QED BY <2>2 DEF AbstractStep, Capturing!Next
<1>7. CASE rssi.pc = "capture"
  <2>1. Stage = "capture"
    BY <1>7 DEF Stage
  <2>2. Capturing!CaptureFails
    BY <1>2, <1>4, <1>5, <1>7, <2>1 DEF Capturing!CaptureFails
  <2> QED BY <2>2 DEF AbstractStep, Capturing!Next
<1>8. CASE rssi.pc \in {"classify", "sample"}
  <2>1. Stage = "classify"
    BY <1>8 DEF Stage
  <2>2. Capturing!Accepted(packet)
    BY <1>2, <1>8 DEF IInv, Control
  <2>3. Capturing!MallocFails
    BY <1>2, <1>4, <1>5, <1>8, <2>1, <2>2 DEF Capturing!MallocFails
  <2> QED BY <2>3 DEF AbstractStep, Capturing!Next
<1> QED BY <1>2, <1>6, <1>7, <1>8

(* A frame is captured, or skipped; looking an address up is no step.      *)
LEMMA FrameStep ==
    ASSUME IInv, Capture \/ Skip \/ Known
    PROVE  AbstractStep
<1>1. IInv' /\ Paths' = Paths
  BY FrameInv
<1>2. /\ mem' = mem /\ clock' = clock
      /\ rssi'.new = rssi.new /\ rssi'.tv = rssi.tv
      /\ rssi.pc \in {"capture", "classify"} /\ rssi'.pc \in {"capture", "classify", "sample"}
  BY DEF IInv, Types, RssiState, Capture, Skip, Known, Local, Accepting
<1>3. Published' = Published
  BY <1>1, <1>2, SameMemory
<1>4. CASE Capture
  <2>1. Stage = "capture" /\ Stage' = "classify"
    BY <1>4 DEF IInv, Types, RssiState, Capture, Stage
  <2>2. Capturing!Capture
    BY <1>2, <1>3, <1>4, <2>1 DEF Capture, Capturing!Capture
  <2> QED BY <2>2 DEF AbstractStep, Capturing!Next, Capturing!Loop
<1>5. CASE Skip
  <2>1. Stage = "classify" /\ Stage' = "capture" /\ ~Capturing!Accepted(packet)
    BY <1>5 DEF IInv, Types, RssiState, Skip, Stage
  <2>2. Capturing!Skip
    BY <1>2, <1>3, <1>5, <2>1 DEF Skip, Local, Capturing!Skip
  <2> QED BY <2>2 DEF AbstractStep, Capturing!Next, Capturing!Loop
<1>6. CASE Known
  <2>1. Stage' = Stage
    BY <1>6 DEF IInv, Types, RssiState, Known, Accepting, Stage
  <2> QED BY <1>2, <1>3, <1>6, <2>1 DEF AbstractStep, Capturing!vars, Known, Local
<1> QED BY <1>4, <1>5, <1>6

(* An entry is added: it is not shown before it has its sample.            *)
LEMMA DeviceStep ==
    ASSUME IInv, FirstDevice \/ LinkDevice \/ InitDevice
    PROVE  AbstractStep
<1>0. Len(mem.dev) \in Nat /\ rssi \in RssiState
  BY MemoryTypes DEF IInv, Types
<1>1. /\ packet' = packet /\ clock' = clock /\ rate' = rate
      /\ rssi.pc \in {"classify", "initdev"} /\ rssi'.pc \in {"initdev", "sample"}
      /\ rssi'.tv = rssi.tv
  BY <1>0 DEF RssiState, FirstDevice, LinkDevice, InitDevice, Changes, Accepting
<1>2. Stage' = Stage
  BY <1>1 DEF Stage
<1>3. CASE FirstDevice
  <2>1. IInv'
    BY <1>3, FirstDeviceInv
  <2>2. mem.dev = <<>> /\ mem'.dev = <<NewDevice>> /\ ~rssi.new /\ rssi'.new
    BY <1>0, <1>3 DEF FirstDevice, Accepting, IInv, Types, Control, RssiState, Memory
  <2>3. Shown = 0 /\ Shown' = 0
    BY <2>2 DEF Shown
  <2>4. Published' = Published
    BY <1>1, <2>1, <2>3, SamePublished
  <2> QED BY <1>1, <1>2, <2>4 DEF AbstractStep, Capturing!vars
<1>4. CASE LinkDevice
  <2>1. /\ IInv' /\ Paths' = Paths
        /\ Entries = 1 .. Len(mem.dev) /\ Len(mem'.dev) = Len(mem.dev) + 1
        /\ \A i \in Entries : mem'.dev[i].mac = mem.dev[i].mac
        /\ mem'.smp = mem.smp
    BY <1>4, LinkDeviceInv
  <2>2. ~rssi.new /\ rssi'.new
    BY <1>0, <1>4 DEF LinkDevice, Accepting, IInv, Control, RssiState
  <2>3. Shown' = Shown /\ 1 .. Shown \subseteq Entries
    BY <1>0, <2>1, <2>2, ShownEntries DEF Shown
  <2>4. Published' = Published
    BY <1>1, <2>1, <2>3, SamePublished
  <2> QED BY <1>1, <1>2, <2>4 DEF AbstractStep, Capturing!vars
<1>5. CASE InitDevice
  <2>1. /\ IInv'
        /\ \A d \in Entries : Paths'[d] = Paths[d]
        /\ \A d \in Entries : mem'.dev[d] = mem.dev[d]
        /\ Len(mem'.dev) = Len(mem.dev)
        /\ mem'.smp = mem.smp
    BY <1>5, InitDeviceInv
  <2>2. rssi'.new = rssi.new
    BY <1>0, <1>5 DEF InitDevice, RssiState
  <2>3. Shown' = Shown /\ 1 .. Shown \subseteq Entries
    BY <2>1, <2>2, ShownEntries DEF Shown
  <2>4. Published' = Published
    BY <1>1, <2>1, <2>3, SamePublished
  <2> QED BY <1>1, <1>2, <2>4 DEF AbstractStep, Capturing!vars
<1> QED BY <1>3, <1>4, <1>5

(* A node is linked for a sample.                                          *)
LEMMA LinkSampleStep ==
    ASSUME IInv, LinkSample
    PROVE  AbstractStep
<1>1. /\ IInv' /\ Paths' = Paths /\ mem'.dev = mem.dev
      /\ \A d \in Entries : \A k \in DOMAIN Paths[d] :
            /\ mem'.smp[Paths[d][k]].from = mem.smp[Paths[d][k]].from
            /\ mem'.smp[Paths[d][k]].date = mem.smp[Paths[d][k]].date
  BY LinkSampleInv
<1>2. /\ packet' = packet /\ clock' = clock /\ rate' = rate
      /\ rssi.pc = "sample" /\ rssi'.pc = "initsample"
      /\ rssi'.new = rssi.new /\ rssi'.tv = rssi.tv
  BY DEF IInv, Types, RssiState, LinkSample, Changes
<1>3. Shown' = Shown /\ 1 .. Shown \subseteq Entries
  BY <1>1, <1>2, ShownEntries DEF Shown
<1>4. Published' = Published
  BY <1>1, <1>2, <1>3, SamePublished
<1>5. Stage' = Stage
  BY <1>2 DEF Stage
<1> QED BY <1>2, <1>4, <1>5 DEF AbstractStep, Capturing!vars

(* Expiry takes effect when it reads the time.                             *)
LEMMA ExpireStep ==
    ASSUME IInv, Expire
    PROVE  AbstractStep
<1>1. IInv' /\ Paths' = Paths
  BY ExpireInv
<1>2. /\ packet' = packet /\ clock' = clock /\ rate' = rate /\ mem' = mem
      /\ rssi.pc = "expire" /\ rssi'.pc = "unlink"
      /\ rssi'.new = rssi.new /\ rssi'.tv = clock
  BY DEF IInv, Types, RssiState, Expire, Changes
<1>3. InMemory' = InMemory
  BY <1>1, <1>2 DEF InMemory, Shown
<1>4. Published = InMemory /\ Published' = delete_outdate(InMemory, clock)
  BY <1>1, <1>2, <1>3, PublishedInMemory, PublishedNext
<1>5. Stage = "expire" /\ Stage' = "capture"
  BY <1>2 DEF Stage
<1>6. Capturing!Expire
  BY <1>2, <1>4, <1>5, SameOperators DEF Capturing!Expire
<1> QED BY <1>6 DEF AbstractStep, Capturing!Next, Capturing!Loop

(* All is shown during expiry.                                             *)
LEMMA ShownAtExpiry ==
    ASSUME IInv, rssi.pc = "unlink"
    PROVE  Shown = Len(mem.dev) /\ Shown \in Nat /\ 1 .. Shown = Entries
<1>1. ~rssi.new /\ Len(mem.dev) \in Nat /\ Entries = 1 .. Len(mem.dev)
  BY ExpiryAt
<1>2. Shown = Len(mem.dev) - 0
  BY <1>1 DEF Shown
<1> QED BY <1>1, <1>2

(* At the end of expiry nothing is outdated.                               *)
LEMMA NextEntryStep ==
    ASSUME IInv, NextEntry
    PROVE  AbstractStep
<1>1. /\ IInv' /\ Paths' = Paths
      /\ rssi'.pc = "capture" =>
           \A i \in Entries : LET n == mem.dev[i].rssi
                              IN  n # NULL => ~Outdated(mem.smp[n], rssi.tv)
  BY NextEntryInv
<1>2. /\ packet' = packet /\ clock' = clock /\ rate' = rate /\ mem' = mem
      /\ rssi.pc = "unlink" /\ rssi'.pc \in {"capture", "unlink"}
      /\ rssi'.new = rssi.new /\ rssi'.tv = rssi.tv
  BY DEF IInv, Types, RssiState, NextEntry, Local
<1>3. Stage' = Stage
  BY <1>2 DEF Stage
<1>4. InMemory' = InMemory
  BY <1>1, <1>2 DEF InMemory, Shown
<1>5. Published = delete_outdate(InMemory, rssi.tv)
  BY <1>2, PublishedInMemory
<1>6. Published' = Published
  <2>1. CASE rssi'.pc = "unlink"
    BY <1>1, <1>2, <1>4, <1>5, <2>1, PublishedNext
  <2>2. CASE rssi'.pc = "capture"
    <3>1. Published' = InMemory
      BY <1>1, <1>4, <2>2, PublishedNext
    <3>2. /\ Shown \in Nat /\ 1 .. Shown = Entries /\ rssi.tv \in Nat
          /\ Layout(Paths, Entries, mem, NULL, Owner)
      BY <1>2, ShownAtExpiry, ExpiryAt
    <3>3. /\ InMemory \in Seq(DeviceEntry) /\ DOMAIN InMemory = Entries
          /\ \A i \in Entries : InMemory[i].rssi = Contents(Paths[i], mem.smp)
      BY <3>2, InMemoryTypes
    <3>4. ASSUME NEW i \in Entries, InMemory[i].rssi # <<>>
          PROVE  ~Outdated(InMemory[i].rssi[1], rssi.tv)
      <4>1. InMemory[i].rssi = Contents(Paths[i], mem.smp)
        BY <3>3
      <4>2. Paths[i] \in Seq(Samples)
        BY InMemoryTypes
      <4>3. Paths[i] # <<>>
        BY <3>4, <4>1 DEF Contents
      <4>4. 1 \in DOMAIN Paths[i]
        BY <3>2, <4>3, LayoutTypes
      <4>5. Paths[i][1] = mem.dev[i].rssi /\ Paths[i][1] \in Samples
        BY <3>2, <4>3, <4>4, LayoutTypes DEF Layout, Path
      <4>6. ~Outdated(mem.smp[Paths[i][1]], rssi.tv)
        BY <1>1, <2>2, <4>5, NoNodes
      <4>7. InMemory[i].rssi[1].date = mem.smp[Paths[i][1]].date
        BY <4>1, <4>4 DEF Contents
      <4> QED BY <4>6, <4>7 DEF Outdated
    <3>5. delete_outdate(InMemory, rssi.tv) = InMemory
      BY <3>2, <3>3, <3>4, DeleteOutdateKeeps
    <3> QED BY <1>5, <3>1, <3>5
  <2> QED BY <1>2, <2>1, <2>2
<1> QED BY <1>2, <1>3, <1>6 DEF AbstractStep, Capturing!vars


(* The contents without the first node, and with one more.                 *)
LEMMA ContentsTail ==
    ASSUME NEW s, s \in Seq(Samples), s # <<>>, NEW smp, NEW smp2,
           Contents(s, smp) \in Seq(RssiSample), Contents(Tail(s), smp2) \in Seq(RssiSample),
           \A k \in DOMAIN s : k # 1 => smp2[s[k]] = smp[s[k]]
    PROVE  Contents(Tail(s), smp2) = Tail(Contents(s, smp))
<1> DEFINE N == Len(s)
           c == Contents(s, smp)
           d == Contents(Tail(s), smp2)
<1>1. N \in Nat \ {0} /\ DOMAIN s = 1 .. N
  BY LenProperties, EmptySeq
<1>2. Len(Tail(s)) = N - 1 /\ \A k \in 1 .. N - 1 : Tail(s)[k] = s[k + 1]
  BY HeadTailProperties
<1>3. DOMAIN Tail(s) = 1 .. N - 1
  BY <1>2, HeadTailProperties, LenProperties
<1>4. /\ \A k \in 1 .. N : c[k] = [from |-> smp[s[k]].from, date |-> smp[s[k]].date]
      /\ DOMAIN c = 1 .. N
  BY <1>1 DEF Contents
<1>5. /\ \A k \in 1 .. N - 1 :
            d[k] = [from |-> smp2[Tail(s)[k]].from, date |-> smp2[Tail(s)[k]].date]
      /\ DOMAIN d = 1 .. N - 1
  BY <1>3 DEF Contents
<1> HIDE DEF N, c, d
<1>6. Len(c) = N
  <2>1. DOMAIN c = 1 .. Len(c) /\ Len(c) \in Nat
    BY LenProperties DEF c
  <2> QED BY <1>1, <1>4, <2>1
<1>7. Len(d) = N - 1
  <2>1. DOMAIN d = 1 .. Len(d) /\ Len(d) \in Nat
    BY LenProperties DEF d
  <2>2. N - 1 \in Nat
    BY <1>1
  <2> QED BY <1>5, <2>1, <2>2
<1>8. c # <<>>
  <2>1. c = <<>> => Len(c) = 0
    BY EmptySeq DEF c
  <2> QED BY <1>1, <1>6, <2>1
<1>9. /\ Tail(c) \in Seq(RssiSample) /\ Len(Tail(c)) = N - 1
      /\ \A k \in 1 .. N - 1 : Tail(c)[k] = c[k + 1]
  <2>1. c \in Seq(RssiSample)
    BY DEF c
  <2>2. /\ Tail(c) \in Seq(RssiSample) /\ Len(Tail(c)) = Len(c) - 1
        /\ \A k \in 1 .. Len(Tail(c)) : Tail(c)[k] = c[k + 1]
    BY <1>8, <2>1, HeadTailProperties
  <2> QED BY <1>6, <2>2
<1>10. ASSUME NEW k \in 1 .. N - 1 PROVE d[k] = Tail(c)[k]
  <2>1. k + 1 \in 1 .. N /\ k + 1 # 1
    BY <1>1
  <2>2. Tail(s)[k] = s[k + 1] /\ smp2[s[k + 1]] = smp[s[k + 1]]
    BY <1>1, <1>2, <2>1
  <2>3. d[k] = [from |-> smp[s[k + 1]].from, date |-> smp[s[k + 1]].date]
    BY <1>5, <2>2
  <2>4. c[k + 1] = [from |-> smp[s[k + 1]].from, date |-> smp[s[k + 1]].date]
    BY <1>4, <2>1
  <2> QED BY <1>9, <2>3, <2>4
<1>11. d \in Seq(RssiSample)
  BY DEF d
<1>12. d = Tail(c)
  BY <1>7, <1>9, <1>10, <1>11, SeqEqual
<1> QED BY <1>12 DEF c, d

(* A node goes behind those of an entry, whose contents stay.              *)
NodeAppended(s, n, smp, smp2) ==
    /\ s \in Seq(Samples) /\ n \in Samples
    /\ Contents(s, smp) \in Seq(RssiSample)
    /\ Contents(Append(s, n), smp2) \in Seq(RssiSample)
    /\ smp2[n].from \in MACs /\ smp2[n].date \in Nat
    /\ \A k \in DOMAIN s : smp2[s[k]] = smp[s[k]]

(* The contents grow by that of the node.                                  *)
LEMMA ContentsAppend ==
    ASSUME NEW s, NEW n, NEW smp, NEW smp2, NodeAppended(s, n, smp, smp2)
    PROVE  Contents(Append(s, n), smp2)
           = Append(Contents(s, smp), [from |-> smp2[n].from, date |-> smp2[n].date])
<1> /\ s \in Seq(Samples) /\ n \in Samples /\ Contents(s, smp) \in Seq(RssiSample)
    /\ Contents(Append(s, n), smp2) \in Seq(RssiSample)
    /\ smp2[n].from \in MACs /\ smp2[n].date \in Nat
    /\ \A k \in DOMAIN s : smp2[s[k]] = smp[s[k]]
  BY DEF NodeAppended
<1> DEFINE N == Len(s)
           x == [from |-> smp2[n].from, date |-> smp2[n].date]
           c == Contents(s, smp)
           a == Append(s, n)
           d == Contents(a, smp2)
<1>1. N \in Nat /\ DOMAIN s = 1 .. N
  BY LenProperties
<1>2. /\ a \in Seq(Samples) /\ Len(a) = N + 1
      /\ \A k \in 1 .. N : a[k] = s[k]
      /\ a[N + 1] = n
  BY AppendProperties
<1>3. DOMAIN a = 1 .. N + 1
  BY <1>2, LenProperties
<1>4. x \in RssiSample
  BY DEF RssiSample
<1>5. /\ c \in Seq(RssiSample) /\ DOMAIN c = 1 .. N
      /\ \A k \in 1 .. N : c[k] = [from |-> smp[s[k]].from, date |-> smp[s[k]].date]
  BY <1>1 DEF Contents
<1>6. Len(c) = N
  <2>1. DOMAIN c = 1 .. Len(c) /\ Len(c) \in Nat
    BY <1>5, LenProperties
  <2> HIDE DEF c, N
  <2> QED BY <1>1, <1>5, <2>1
<1>7. \A k \in 1 .. N + 1 : d[k] = [from |-> smp2[a[k]].from, date |-> smp2[a[k]].date]
  BY <1>3 DEF Contents
<1>8. d = [k \in 1 .. N + 1 |-> [from |-> smp2[a[k]].from, date |-> smp2[a[k]].date]]
  BY <1>3 DEF Contents
<1> HIDE DEF N, x, c, a, d
<1>9. /\ Append(c, x) \in Seq(RssiSample) /\ Len(Append(c, x)) = N + 1
      /\ \A k \in 1 .. N : Append(c, x)[k] = c[k]
      /\ Append(c, x)[N + 1] = x
  BY <1>4, <1>5, <1>6, AppendProperties
<1>10. \A k \in 1 .. N + 1 : k \in 1 .. N \/ k = N + 1
  BY <1>1
<1>11. ASSUME NEW k \in 1 .. N + 1 PROVE d[k] = Append(c, x)[k]
  <2>1. CASE k \in 1 .. N
    <3>1. a[k] = s[k] /\ smp2[s[k]] = smp[s[k]]
      BY <1>1, <1>2, <2>1
    <3>2. d[k] = [from |-> smp[s[k]].from, date |-> smp[s[k]].date]
      BY <1>7, <3>1
    <3>3. c[k] = [from |-> smp[s[k]].from, date |-> smp[s[k]].date]
      BY <1>5, <2>1
    <3> QED BY <1>9, <2>1, <3>2, <3>3
  <2>2. CASE k = N + 1
    <3>1. d[k] = x
      BY <1>2, <1>7, <2>2 DEF x
    <3> QED BY <1>9, <2>2, <3>1
  <2> QED BY <1>10, <2>1, <2>2
<1>12. d \in Seq(RssiSample) /\ Len(d) = N + 1
  <2>1. d \in Seq(RssiSample)
    BY DEF d, a
  <2>2. DOMAIN d = 1 .. Len(d) /\ Len(d) \in Nat
    BY <2>1, LenProperties
  <2>3. DOMAIN d = 1 .. N + 1 /\ N + 1 \in Nat
    BY <1>1, <1>8
  <2> QED BY <2>1, <2>2, <2>3
<1>13. d = Append(c, x)
  BY <1>9, <1>11, <1>12, SeqEqual
<1> QED BY <1>13 DEF c, d, a, x

(* Unlinking an outdated sample is no step: it was not shown any more.     *)
LEMMA UnlinkStep ==
    ASSUME IInv, Unlink
    PROVE  AbstractStep
<1> DEFINE e == rssi.dev
<1>1. /\ IInv'
      /\ Paths' = [Paths EXCEPT ![e] = Tail(Paths[e])]
      /\ DOMAIN Paths = Entries /\ Paths[e] # <<>>
      /\ Outdated(mem.smp[Paths[e][1]], rssi.tv)
      /\ Entries' = Entries /\ \A i \in Entries : mem'.dev[i].mac = mem.dev[i].mac
      /\ Len(mem'.dev) = Len(mem.dev)
      /\ \A i \in Samples \ {Paths[e][1]} : mem'.smp[i] = mem.smp[i]
  BY UnlinkInv
<1>2. /\ packet' = packet /\ clock' = clock /\ rate' = rate /\ rssi' = rssi
      /\ rssi.pc = "unlink"
  BY DEF Unlink, Changes
<1>3. /\ Shown \in Nat /\ 1 .. Shown = Entries /\ Shown' = Shown
      /\ rssi.tv \in Nat /\ e \in Entries
      /\ Layout(Paths, Entries, mem, NULL, Owner)
  BY <1>1, <1>2, ShownAtExpiry, ExpiryAt DEF Shown
<1>4. /\ InMemory \in Seq(DeviceEntry) /\ DOMAIN InMemory = Entries
      /\ \A i \in Entries : /\ InMemory[i].mac = mem.dev[i].mac
                            /\ InMemory[i].rssi = Contents(Paths[i], mem.smp)
  BY <1>3, InMemoryTypes
<1>5. /\ InMemory' \in Seq(DeviceEntry) /\ DOMAIN InMemory' = Entries
      /\ \A i \in Entries : /\ InMemory'[i].mac = mem'.dev[i].mac
                            /\ InMemory'[i].rssi = Contents(Paths'[i], mem'.smp)
      /\ \A i \in Entries : Contents(Paths'[i], mem'.smp) \in Seq(RssiSample)
  BY <1>1, <1>3, InMemoryTypesNext
<1> HIDE DEF e
<1>6. Paths'[e] = Tail(Paths[e]) /\ \A i \in Entries \ {e} : Paths'[i] = Paths[i]
  BY <1>1, <1>3
<1>7. \A i \in Entries : \A k \in DOMAIN Paths[i] :
          /\ Paths[i][k] \in Samples
          /\ Paths[i][k] = Paths[e][1] => i = e /\ k = 1
  <2>1. 1 \in DOMAIN Paths[e]
    BY <1>1, <1>3, LayoutTypes
  <2> QED BY <1>3, <2>1, LayoutTypes DEF Layout
<1>8. ASSUME NEW i \in Entries
      PROVE  delete_outdated(InMemory'[i].rssi, rssi.tv)
             = delete_outdated(InMemory[i].rssi, rssi.tv)
  <2>1. CASE i # e
    <3>1. \A k \in DOMAIN Paths[i] : mem'.smp[Paths[i][k]] = mem.smp[Paths[i][k]]
      BY <1>1, <1>7, <2>1 DEF e
    <3>2. Contents(Paths'[i], mem'.smp) = Contents(Paths[i], mem.smp)
      BY <1>6, <2>1, <3>1 DEF Contents
    <3> QED BY <1>4, <1>5, <3>2
  <2>2. CASE i = e
    <3> DEFINE c == Contents(Paths[e], mem.smp)
    <3>1. Paths[e] \in Seq(Samples) /\ c \in Seq(RssiSample) /\ 1 \in DOMAIN Paths[e]
      BY <1>1, <1>3, InMemoryTypes, LayoutTypes
    <3>2. \A k \in DOMAIN Paths[e] : k # 1 => mem'.smp[Paths[e][k]] = mem.smp[Paths[e][k]]
      BY <1>1, <1>3, <1>7 DEF e
    <3>3. Contents(Tail(Paths[e]), mem'.smp) \in Seq(RssiSample)
      BY <1>3, <1>5, <1>6
    <3>4. Contents(Tail(Paths[e]), mem'.smp) = Tail(c)
      <4>1. Paths[e] # <<>>
        BY <1>1 DEF e
      <4> QED BY <3>1, <3>2, <3>3, <4>1, ContentsTail
    <3>5. c # <<>> /\ Outdated(c[1], rssi.tv)
      <4>1. c[1].date = mem.smp[Paths[e][1]].date
        BY <3>1 DEF Contents
      <4>2. DOMAIN c # {}
        BY <3>1 DEF Contents
      <4> HIDE DEF c
      <4>3. Outdated(c[1], rssi.tv)
        BY <1>1, <4>1 DEF Outdated, e
      <4> QED BY <4>2, <4>3
    <3> HIDE DEF c
    <3>6. delete_outdated(Tail(c), rssi.tv) = delete_outdated(c, rssi.tv)
      BY <1>3, <3>1, <3>5, DeleteOutdatedTail
    <3> QED BY <1>3, <1>4, <1>5, <1>6, <2>2, <3>4, <3>6 DEF c
  <2> QED BY <2>1, <2>2
<1>9. delete_outdate(InMemory', rssi.tv) = delete_outdate(InMemory, rssi.tv)
  <2> DEFINE r == delete_outdate(InMemory, rssi.tv)
             q == delete_outdate(InMemory', rssi.tv)
  <2>1. /\ r \in Seq(DeviceEntry) /\ DOMAIN r = Entries
        /\ \A i \in Entries : /\ r[i].mac = mem.dev[i].mac
                              /\ r[i].rssi = delete_outdated(InMemory[i].rssi, rssi.tv)
    BY <1>3, <1>4, DeleteOutdateReturns
  <2>2. /\ q \in Seq(DeviceEntry) /\ DOMAIN q = Entries
        /\ \A i \in Entries : /\ q[i].mac = mem'.dev[i].mac
                              /\ q[i].rssi = delete_outdated(InMemory'[i].rssi, rssi.tv)
    BY <1>3, <1>5, DeleteOutdateReturns
  <2> HIDE DEF r, q
  <2>3. \A i \in Entries : q[i].mac = r[i].mac /\ q[i].rssi = r[i].rssi
    BY <1>1, <1>8, <2>1, <2>2
  <2>4. q = r
    BY <2>1, <2>2, <2>3, ListEqual
  <2> QED BY <2>4 DEF q, r
<1>10. Published' = Published
  BY <1>1, <1>2, <1>9, PublishedInMemory, PublishedNext
<1>11. Stage' = Stage
  BY <1>2 DEF Stage
<1> QED BY <1>2, <1>10, <1>11 DEF AbstractStep, Capturing!vars


(* What the step that completes a sample does to the nodes.                *)
SampleFiled(n) ==
    /\ Paths' = [Paths EXCEPT ![rssi.dev] = Append(Paths[rssi.dev], n)]
    /\ n \in Samples /\ mem'.smp[n] = NewSample
    /\ Entries' = Entries /\ Len(mem'.dev) = Len(mem.dev)
    /\ \A i \in Entries : /\ mem'.dev[i].mac = mem.dev[i].mac
                          /\ \A k \in DOMAIN Paths[i] :
                               mem'.smp[Paths[i][k]] = mem.smp[Paths[i][k]]

(* What it makes of the list: the sample is behind those of the entry.     *)
LEMMA SampleFiledShows ==
    ASSUME IInv, IInv', rssi.pc \in {"sample", "initsample"}, ~rssi'.new,
           NEW n, SampleFiled(n)
    PROVE  /\ Shown' = Len(mem.dev)
           /\ InMemory' \in Seq(DeviceEntry) /\ DOMAIN InMemory' = Entries
           /\ \A i \in Entries :
                /\ InMemory'[i].mac = mem.dev[i].mac
                /\ InMemory'[i].rssi =
                      IF i = rssi.dev
                      THEN Append(Contents(Paths[i], mem.smp), [from |-> Source, date |-> clock])
                      ELSE Contents(Paths[i], mem.smp)
<1> DEFINE e == rssi.dev
<1>1. /\ e \in Entries /\ Entries = 1 .. Len(mem.dev) /\ Len(mem.dev) \in Nat
      /\ NewSample.from \in MACs /\ NewSample.date \in Nat
  BY FilingAt
<1>2. Shown' = Len(mem.dev) /\ 1 .. Shown' = Entries /\ Shown' \in Nat
  <2>1. Shown' = Len(mem.dev) - 0
    BY DEF Shown, SampleFiled
  <2> QED BY <1>1, <2>1
<1>3. /\ InMemory' \in Seq(DeviceEntry) /\ DOMAIN InMemory' = Entries
      /\ \A i \in Entries : /\ InMemory'[i].mac = mem'.dev[i].mac
                            /\ InMemory'[i].rssi = Contents(Paths'[i], mem'.smp)
                            /\ Contents(Paths'[i], mem'.smp) \in Seq(RssiSample)
  BY <1>2, InMemoryTypesNext DEF SampleFiled
<1>4. /\ DOMAIN Paths = Entries /\ n \in Samples /\ mem'.smp[n] = NewSample
      /\ \A i \in Entries : \A k \in DOMAIN Paths[i] :
             mem'.smp[Paths[i][k]] = mem.smp[Paths[i][k]]
      /\ \A i \in Entries : mem'.dev[i].mac = mem.dev[i].mac
  BY DEF SampleFiled, Paths
<1> HIDE DEF e
<1>5. Paths'[e] = Append(Paths[e], n) /\ \A i \in Entries \ {e} : Paths'[i] = Paths[i]
  BY <1>1, <1>4 DEF SampleFiled, e
<1>6. ASSUME NEW i \in Entries, i # e
      PROVE  Contents(Paths'[i], mem'.smp) = Contents(Paths[i], mem.smp)
  BY <1>4, <1>5, <1>6 DEF Contents
<1>7. Contents(Paths'[e], mem'.smp)
      = Append(Contents(Paths[e], mem.smp), [from |-> Source, date |-> clock])
  <2>1. /\ Paths[e] \in Seq(Samples) /\ Contents(Paths[e], mem.smp) \in Seq(RssiSample)
        /\ Contents(Append(Paths[e], n), mem'.smp) \in Seq(RssiSample)
    BY <1>1, <1>3, <1>5, InMemoryTypes
  <2>2. mem'.smp[n].from \in MACs /\ mem'.smp[n].date \in Nat
    BY <1>1, <1>4
  <2>3. \A k \in DOMAIN Paths[e] : mem'.smp[Paths[e][k]] = mem.smp[Paths[e][k]]
    BY <1>1, <1>4
  <2>4. Contents(Append(Paths[e], n), mem'.smp)
        = Append(Contents(Paths[e], mem.smp),
                 [from |-> mem'.smp[n].from, date |-> mem'.smp[n].date])
    <3> DEFINE q == Paths[e]
               m == mem.smp
               m2 == mem'.smp
    <3>1. NodeAppended(q, n, m, m2)
      BY <1>4, <2>1, <2>2, <2>3 DEF NodeAppended
    <3> HIDE DEF q, m, m2
    <3>2. Contents(Append(q, n), m2)
          = Append(Contents(q, m), [from |-> m2[n].from, date |-> m2[n].date])
      BY <3>1, ContentsAppend
    <3> QED BY <3>2 DEF q, m, m2
  <2>5. mem'.smp[n].from = Source /\ mem'.smp[n].date = clock
    BY <1>4 DEF NewSample
  <2> QED BY <1>5, <2>4, <2>5
<1> QED BY <1>2, <1>3, <1>4, <1>6, <1>7 DEF e

(* A sample is complete: the frame is stored, in an entry that is shown or *)
(* together with its own.                                                  *)
LEMMA SampleStep ==
    ASSUME IInv, FirstSample \/ InitSample
    PROVE  AbstractStep
<1> DEFINE e == rssi.dev
           N == Len(mem.dev)
           s == [from |-> Source, date |-> clock]
           L == InMemory
<1>1. /\ packet' = packet /\ clock' = clock /\ rate' = rate
      /\ rssi.pc \in {"sample", "initsample"} /\ rssi'.pc = "expire" /\ ~rssi'.new
  BY DEF IInv, Types, RssiState, FirstSample, InitSample, Changes
<1>2. IInv' /\ \E n : SampleFiled(n)
  <2>1. CASE FirstSample
    <3>1. /\ IInv'
          /\ Paths[e] = <<>> /\ DOMAIN Paths = Entries
          /\ Entries' = Entries /\ \A i \in Entries : mem'.dev[i].mac = mem.dev[i].mac
          /\ Len(mem'.dev) = Len(mem.dev)
      BY <2>1, FirstSampleInv
    <3>2. PICK n \in Samples \ mem.live :
              /\ Paths' = [Paths EXCEPT ![e] = <<n>>]
              /\ mem'.smp[n] = NewSample
              /\ \A i \in Samples \ {n} : mem'.smp[i] = mem.smp[i]
      BY <2>1, FirstSampleInv
    <3>3. \A i \in Entries : \A k \in DOMAIN Paths[i] : Paths[i][k] \in Samples \ {n}
      <4>1. Layout(Paths, Entries, mem, rssi.node, Owner)
        BY DEF IInv
      <4> QED BY <3>2, <4>1, LayoutTypes DEF Layout
    <3>4. Append(Paths[e], n) = <<n>>
      BY <3>1
    <3>5. n \in Samples
      BY <3>2
    <3>6. SampleFiled(n)
      BY <3>1, <3>2, <3>3, <3>4, <3>5 DEF SampleFiled
    <3> QED BY <3>1, <3>6
  <2>2. CASE InitSample
    <3>1. /\ IInv'
          /\ Entries' = Entries /\ mem'.dev = mem.dev
          /\ Paths' = [Paths EXCEPT ![rssi.dev] = Append(Paths[rssi.dev], rssi.node)]
          /\ rssi.node \in Samples /\ mem'.smp[rssi.node] = NewSample
          /\ \A i \in Samples \ {rssi.node} : mem'.smp[i] = mem.smp[i]
          /\ \A d \in Entries : \A k \in DOMAIN Paths[d] : Paths[d][k] \in Samples \ {rssi.node}
      BY <2>2, InitSampleInv
    <3>2. SampleFiled(rssi.node)
      BY <3>1 DEF SampleFiled
    <3> QED BY <3>1, <3>2
  <2> QED BY <2>1, <2>2
<1>3. /\ Shown' = N
      /\ InMemory' \in Seq(DeviceEntry) /\ DOMAIN InMemory' = Entries
      /\ \A i \in Entries :
           /\ InMemory'[i].mac = mem.dev[i].mac
           /\ InMemory'[i].rssi = IF i = e THEN Append(Contents(Paths[i], mem.smp), s)
                                  ELSE Contents(Paths[i], mem.smp)
  BY <1>1, <1>2, SampleFiledShows
<1>4. Published = L /\ Published' = InMemory'
  BY <1>1, <1>2, PublishedInMemory, PublishedNext
<1>5. Stage = "classify" /\ Stage' = "expire"
  BY <1>1 DEF Stage
<1>6. /\ e \in Entries /\ Entries = 1 .. N /\ N \in Nat
      /\ packet \in Frames /\ Capturing!Accepted(packet) /\ rssi.new \in BOOLEAN
  BY <1>1, FilingAt
<1>7. s \in RssiSample /\ Source \in MACs
  <2>1. Source \in MACs /\ clock \in Nat
    BY <1>6, SourceType DEF IInv, Types
  <2> QED BY <2>1 DEF RssiSample
<1> HIDE DEF e, N, s, L
<1>8. CASE ~rssi.new
  <2>1. Shown = N
    <3>1. Shown = N - 0
      BY <1>8 DEF Shown, N
    <3> QED BY <1>6, <3>1
  <2>2. /\ L \in Seq(DeviceEntry) /\ DOMAIN L = 1 .. N
        /\ \A i \in 1 .. N : L[i].mac = mem.dev[i].mac /\ L[i].rssi = Contents(Paths[i], mem.smp)
    BY <1>6, <2>1, InMemoryTypes DEF L
  <2>3. mem.dev[e].mac = Source
    BY <1>1, <1>8 DEF IInv, Filing, e
  <2>4. \A i, j \in 1 .. N : mem.dev[i].mac = mem.dev[j].mac => i = j
    BY <1>6 DEF IInv, Devices
  <2>5. is_known(L, Source) = e /\ e # NULL
    <3>1. is_known(L, Source) # NULL
      BY <1>6, <2>2, <2>3, KnownEntry
    <3>2. is_known(L, Source) \in 1 .. N /\ L[is_known(L, Source)].mac = Source
      BY <1>6, <2>2, <3>1, KnownEntry
    <3> QED BY <1>6, <2>2, <2>3, <2>4, <3>1, <3>2
  <2> DEFINE r == add_rssi_sample(L, e, s)
  <2>6. /\ r \in Seq(DeviceEntry) /\ DOMAIN r = DOMAIN L
        /\ \A i \in DOMAIN L : r[i].mac = L[i].mac
        /\ \A i \in DOMAIN L : i # e => r[i].rssi = L[i].rssi
        /\ r[e].rssi = Append(L[e].rssi, s)
    <3>1. L \in Seq(DeviceEntry) /\ e \in DOMAIN L /\ s \in RssiSample
      BY <1>6, <1>7, <2>2
    <3> QED BY <3>1, AddSampleReturns
  <2> HIDE DEF r
  <2>7. \A i \in 1 .. N : InMemory'[i].mac = r[i].mac /\ InMemory'[i].rssi = r[i].rssi
    BY <1>3, <1>6, <2>2, <2>6
  <2>8. InMemory' = r
    BY <1>3, <1>6, <2>2, <2>6, <2>7, ListEqual
  <2>9. Capturing!StoreKnown
    <3>1. Capturing!is_known(Published, packet.source_addr) = e /\ e # Capturing!NULL
      BY <1>4, <2>5, SameOperators DEF Source
    <3>2. Published' = Capturing!add_rssi_sample(Published, e,
                            [from |-> packet.source_addr, date |-> clock])
      BY <1>4, <2>8, SameOperators DEF r, s, Source
    <3> QED BY <1>1, <1>5, <1>6, <3>1, <3>2 DEF Capturing!StoreKnown
  <2> QED BY <2>9 DEF AbstractStep, Capturing!Next, Capturing!Loop
<1>9. CASE rssi.new
  <2>1. /\ e = IF N = 1 THEN 1 ELSE N - 1
        /\ \A i \in 1 .. N - 1 : mem.dev[i].mac # Source
        /\ mem.dev[N].mac = Source /\ mem.dev[N].rssi = NULL
    BY <1>1, <1>9 DEF IInv, Filing, e, N
  <2>2. N \in Nat \ {0} /\ N - 1 \in Nat /\ N \in Entries
    BY <1>6
  <2>3. Shown = N - 1
    BY <1>9 DEF Shown, N
  <2>4. /\ L \in Seq(DeviceEntry) /\ DOMAIN L = 1 .. N - 1 /\ Len(L) = N - 1
        /\ \A i \in 1 .. N - 1 : /\ L[i].mac = mem.dev[i].mac
                                 /\ L[i].rssi = Contents(Paths[i], mem.smp)
    BY <2>2, <2>3, InMemoryTypes DEF L
  <2>5. is_known(L, Source) = NULL
    BY <2>1, <2>2, <2>4, KnownEntry
  <2>6. Contents(Paths[N], mem.smp) = <<>>
    <3>1. Layout(Paths, Entries, mem, rssi.node, Owner)
      BY DEF IInv
    <3>2. Path(Paths[N], mem.dev[N].rssi, IF N = Owner THEN rssi.node ELSE NULL, mem.smp)
      BY <2>2, <3>1 DEF Layout
    <3>3. Paths[N] \in Seq(Samples) /\ \A k \in DOMAIN Paths[N] : Paths[N][k] \in Samples
      BY <2>2, <3>1, LayoutTypes
    <3>4. Paths[N] # <<>> => 1 \in DOMAIN Paths[N]
      BY <2>2, <3>1, LayoutTypes
    <3>5. Paths[N] = <<>>
      BY <2>1, <3>2, <3>3, <3>4, NoNodes DEF Path
    <3>6. DOMAIN Contents(Paths[N], mem.smp) = {}
      BY <3>5 DEF Contents
    <3>7. Contents(Paths[N], mem.smp) \in Seq(RssiSample)
      BY <2>2, InMemoryTypes
    <3> DEFINE c == Contents(Paths[N], mem.smp)
    <3>8. c \in Seq(RssiSample) /\ DOMAIN c = {}
      BY <3>6, <3>7
    <3> HIDE DEF c
    <3>9. DOMAIN c = 1 .. Len(c) /\ Len(c) \in Nat /\ (c # <<>> => Len(c) # 0)
      BY <3>8, LenProperties, EmptySeq
    <3>10. c = <<>>
      BY <3>8, <3>9
    <3> QED BY <3>10 DEF c
  <2> DEFINE a == add_device(L, Source)
  <2>7. /\ a \in Seq(DeviceEntry) /\ Len(a) = N
        /\ \A i \in 1 .. N - 1 : a[i] = L[i]
        /\ a[N] = [mac |-> Source, rssi |-> <<>>]
    <3>1. /\ a \in Seq(DeviceEntry) /\ Len(a) = Len(L) + 1
          /\ \A i \in DOMAIN L : a[i] = L[i]
          /\ a[Len(L) + 1] = [mac |-> Source, rssi |-> <<>>]
      BY <1>7, <2>4, AddDeviceReturns
    <3>2. Len(L) + 1 = N
      BY <1>6, <2>4
    <3> HIDE DEF a
    <3> QED BY <2>4, <3>1, <3>2
  <2> HIDE DEF a
  <2>8. /\ DOMAIN a = 1 .. N
        /\ \A i \in 1 .. N : /\ a[i].mac = mem.dev[i].mac
                             /\ a[i].rssi = Contents(Paths[i], mem.smp)
    <3>1. DOMAIN a = 1 .. N
      BY <2>7, LenProperties
    <3>2. \A i \in 1 .. N : i \in 1 .. N - 1 \/ i = N
      BY <2>2
    <3>3. a[N].mac = Source /\ a[N].rssi = <<>>
      BY <2>7
    <3> QED BY <2>1, <2>4, <2>6, <2>7, <3>1, <3>2, <3>3
  <2>9. added_device(L) = e
    <3>1. L = <<>> <=> N = 1
      <4>1. L = <<>> <=> Len(L) = 0
        BY <2>4, EmptySeq
      <4> QED BY <1>6, <2>4, <4>1
    <3> QED BY <2>1, <2>4, <3>1 DEF added_device
  <2> DEFINE r == add_rssi_sample(a, e, s)
  <2>10. /\ r \in Seq(DeviceEntry) /\ DOMAIN r = DOMAIN a
         /\ \A i \in DOMAIN a : r[i].mac = a[i].mac
         /\ \A i \in DOMAIN a : i # e => r[i].rssi = a[i].rssi
         /\ r[e].rssi = Append(a[e].rssi, s)
    <3>1. a \in Seq(DeviceEntry) /\ e \in DOMAIN a /\ s \in RssiSample
      BY <1>6, <1>7, <2>7, <2>8
    <3> QED BY <3>1, AddSampleReturns
  <2> HIDE DEF r
  <2>11. \A i \in 1 .. N : InMemory'[i].mac = r[i].mac /\ InMemory'[i].rssi = r[i].rssi
    BY <1>3, <1>6, <2>8, <2>10
  <2>12. InMemory' = r
    BY <1>3, <1>6, <2>8, <2>10, <2>11, ListEqual
  <2>13. Capturing!StoreNew
    <3>1. Capturing!is_known(Published, packet.source_addr) = Capturing!NULL
      BY <1>4, <2>5, SameOperators DEF Source
    <3>2. Published' = Capturing!add_rssi_sample(
                            Capturing!add_device(Published, packet.source_addr),
                            Capturing!added_device(Published),
                            [from |-> packet.source_addr, date |-> clock])
      BY <1>4, <2>9, <2>12, SameOperators DEF a, r, s, Source
    <3> QED BY <1>1, <1>5, <1>6, <3>1, <3>2 DEF Capturing!StoreNew
  <2> QED BY <2>13 DEF AbstractStep, Capturing!Next, Capturing!Loop
<1> QED BY <1>8, <1>9

(* At the start, and at the steps of the others.                           *)
LEMMA InitRefines == Init => Capturing!Init
<1> SUFFICES ASSUME Init PROVE Capturing!Init
  OBVIOUS
<1>1. IInv
  BY InitIInv
<1>2. Stage = "open" /\ Shown = 0 /\ rssi.pc = "start"
  BY DEF Init, Stage, Shown
<1>3. Published = <<>>
  <2>1. InMemory = <<>>
    BY <1>1, <1>2, InMemoryTypes, EmptySeq
  <2> QED BY <1>1, <1>2, <2>1, PublishedInMemory
<1>4. packet = Capturing!NoPacket
  BY DEF Init, NoPacket, Capturing!NoPacket
<1> QED BY <1>2, <1>3, <1>4 DEF Init, Capturing!Init

LEMMA OthersStep ==
    ASSUME IInv, IInv', Paths' = Paths, rssi' = rssi, mem' = mem, packet' = packet
    PROVE  Stage' = Stage /\ Published' = Published
<1>1. Stage' = Stage
  BY DEF Stage
<1>2. Published' = Published
  BY SameMemory
<1> QED BY <1>1, <1>2

LEMMA NextRefines ==
    IInv /\ Cursor /\ [Next]_vars => [Capturing!Next]_(Capturing!vars)
<1> SUFFICES ASSUME IInv, Cursor, [Next]_vars PROVE AbstractStep
  BY DEF AbstractStep
<1>1. CASE Rssi
  BY <1>1, AllocListStep, EndStep, FrameStep, DeviceStep, LinkSampleStep, SampleStep,
     ExpireStep, UnlinkStep, NextEntryStep DEF Rssi
<1>2. CASE Bind \/ Receive \/ SmashStack \/ Walk
  <2>1. /\ rssi' = rssi /\ mem' = mem /\ packet' = packet /\ clock' = clock
        /\ rate' = rate
    BY <1>2 DEF Bind, Receive, SmashStack, Walk, LoadHead, Compare, NextDevice, LoadSamples, AddValue,
                NextSample, Display, Reads
  <2>2. IInv' /\ Paths' = Paths
    BY <1>2, SocketInv
  <2> QED BY <2>1, <2>2, OthersStep DEF AbstractStep, Capturing!vars
<1>3. CASE Tick
  <2>1. IInv' /\ Paths' = Paths
    BY <1>3, TickInv
  <2>2. Stage' = Stage /\ Published' = Published
    BY <1>3, <2>1, OthersStep DEF Tick
  <2>3. Capturing!Tick
    BY <1>3, <2>2 DEF Tick, Capturing!Tick
  <2> QED BY <2>3 DEF AbstractStep, Capturing!Next
<1>4. CASE UNCHANGED vars
  <2>1. Types'
    BY <1>4 DEF IInv, Types, vars
  <2>2. IInv' /\ Paths' = Paths
    BY <1>4, <2>1, OthersInv DEF vars
  <2> QED BY <1>4, <2>2, OthersStep DEF AbstractStep, Capturing!vars, vars
<1> QED BY <1>1, <1>2, <1>3, <1>4 DEF Next

(* Node by node, write by write, and whatever socket_thread does, the      *)
(* list is that of the capture loop: what is proved of RssiThread holds of *)
(* the memory of the process.                                              *)
THEOREM RouterImplementsRssiThread == Spec => ImplementsRssiThread
<1>1. Init => Capturing!Init
  BY InitRefines
<1>2. IInv /\ Cursor /\ [Next]_vars => [Capturing!Next]_(Capturing!vars)
  BY NextRefines
<1> QED BY <1>1, <1>2, Invariance, PTL DEF Spec, ImplementsRssiThread, Capturing!Spec


-----------------------------------------------------------------------------
(* The walk of socket_thread, as long as rssi_thread leaves the list alone *)
(* (head, the entries, average).                                           *)

(* The entry of the address socket_thread asks for.                        *)
Wanted == {d \in Entries : mem.dev[d].mac = mac_addr}

(* rssi_thread has no change of the list under way.                        *)
Settled ==
    /\ rssi.pc \in {"start", "capture", "classify", "expire", "sample", "exited", "crashed"}
    /\ ~rssi.new
    /\ mem.l # "junk"

FirstNodes(d, k) == {Paths[d][j] : j \in 1 .. k}

(* Where the walk s is, and what it has added.                             *)
Progress(s) ==
    /\ s.pc \in {"head", "compare", "nextdev", "samples"} =>
          s.summed = {} /\ s.answer = "default"
    /\ s.pc = "head" => mem.l = "list"
    /\ s.pc \in {"compare", "nextdev"} =>
          s.cur \in Entries /\ \A i \in 1 .. s.cur - 1 : mem.dev[i].mac # mac_addr
    /\ s.pc = "nextdev" => mem.dev[s.cur].mac # mac_addr
    /\ s.pc = "samples" => s.cur \in Wanted
    /\ s.pc = "value" =>
          \E d \in Wanted : \E k \in DOMAIN Paths[d] :
              s.cur = Paths[d][k] /\ s.summed = FirstNodes(d, k - 1)
    /\ s.pc = "nextsample" =>
          \E d \in Wanted : \E k \in DOMAIN Paths[d] :
              s.cur = Paths[d][k] /\ s.summed = FirstNodes(d, k)
    /\ s.pc = "display" =>
          \/ Wanted = {} /\ s.summed = {} /\ s.answer = "default"
          \/ \E d \in Wanted :
                /\ s.summed = FirstNodes(d, Len(Paths[d]))
                /\ s.answer = IF Paths[d] = <<>> THEN "nan" ELSE "mean"

WalkInv ==
    ~disturbed =>
        /\ Walking => Settled /\ Progress(sock)
        /\ proc = "crashed" => rssi.pc = "crashed" \/ sock.pc \in {"recv", "display"}

(* The nodes a walk finds when no change is under way.                     *)
LEMMA SettledNodes ==
    ASSUME IInv, Settled
    PROVE  /\ Entries = 1 .. Len(mem.dev) /\ Len(mem.dev) \in Nat
           /\ \A i \in Entries : /\ mem.dev[i].mac \in MACs
                                 /\ mem.dev[i].next = IF i = Len(mem.dev) THEN NULL ELSE i + 1
           /\ \A i, j \in Entries : mem.dev[i].mac = mem.dev[j].mac => i = j
           /\ \A d \in Entries :
                /\ Len(Paths[d]) \in Nat /\ DOMAIN Paths[d] = 1 .. Len(Paths[d])
                /\ mem.dev[d].rssi = IF Len(Paths[d]) = 0 THEN NULL ELSE Paths[d][1]
                /\ \A k \in DOMAIN Paths[d] :
                     /\ Paths[d][k] \in mem.live /\ Paths[d][k] \in Samples
                     /\ mem.smp[Paths[d][k]].next
                        = IF k = Len(Paths[d]) THEN NULL ELSE Paths[d][k + 1]
<1>1. Layout(Paths, Entries, mem, rssi.node, Owner)
  BY DEF IInv
<1>2. Len(mem.dev) \in Nat
  BY MemoryTypes DEF IInv, Types
<1>3. Entries = 1 .. Len(mem.dev)
  <2>1. Entries = 1 .. Len(mem.dev) - 0
    BY DEF Entries, Settled
  <2> QED BY <1>2, <2>1
<1>4. Owner = NULL /\ \A d \in Entries : d # NULL
  BY <1>3 DEF Owner, Settled, NULL
<1>5. ASSUME NEW d \in Entries
      PROVE  /\ Len(Paths[d]) \in Nat /\ DOMAIN Paths[d] = 1 .. Len(Paths[d])
             /\ mem.dev[d].rssi = IF Len(Paths[d]) = 0 THEN NULL ELSE Paths[d][1]
             /\ \A k \in DOMAIN Paths[d] :
                  /\ Paths[d][k] \in mem.live /\ Paths[d][k] \in Samples
                  /\ mem.smp[Paths[d][k]].next
                     = IF k = Len(Paths[d]) THEN NULL ELSE Paths[d][k + 1]
  <2>1. /\ Paths[d] \in Seq(Samples) /\ Len(Paths[d]) \in Nat
        /\ DOMAIN Paths[d] = 1 .. Len(Paths[d])
        /\ \A k \in DOMAIN Paths[d] : Paths[d][k] \in Samples
    BY <1>1, LayoutTypes
  <2>2. Path(Paths[d], mem.dev[d].rssi, NULL, mem.smp)
    <3>1. Path(Paths[d], mem.dev[d].rssi, IF d = Owner THEN rssi.node ELSE NULL, mem.smp)
      BY <1>1 DEF Layout
    <3> QED BY <1>4, <3>1
  <2>3. \A k \in DOMAIN Paths[d] : Paths[d][k] \in mem.live
    BY <1>1 DEF Layout
  <2>4. Paths[d] = <<>> <=> Len(Paths[d]) = 0
    BY <2>1, EmptySeq
  <2> QED BY <2>1, <2>2, <2>3, <2>4 DEF Path
<1>6. Devices(mem.dev, Entries)
  BY DEF IInv
<1> QED BY <1>2, <1>3, <1>5, <1>6 DEF Devices

(* The walk goes on to the next entry, or comes to the end of the list.    *)
LEMMA GotoDeviceShows ==
    ASSUME IInv, Settled, NEW p, NEW i, i \in 0 .. Len(mem.dev),
           p = IF i = Len(mem.dev) THEN NULL ELSE i + 1,
           \A j \in 1 .. i : mem.dev[j].mac # mac_addr,
           sock.summed = {}, sock.answer = "default", GotoDevice(p)
    PROVE  proc' = proc /\ Progress(sock')
<1> DEFINE N == Len(mem.dev)
<1>1. /\ N \in Nat /\ Entries = 1 .. N /\ DOMAIN mem.dev = 1 .. N
  BY SettledNodes, MemoryTypes DEF IInv, Types
<1>2. sock \in SockState
  BY DEF IInv, Types
<1> HIDE DEF N
<1>3. p # Junk /\ (p = NULL <=> i = N)
  BY <1>1 DEF N, NULL, Junk
<1>4. /\ sock' = [sock EXCEPT !.cur = p, !.pc = IF p = NULL THEN "display" ELSE "compare"]
      /\ proc' = proc
  BY <1>3 DEF GotoDevice, Pointers, WildAccess
<1>5. /\ sock'.cur = p /\ sock'.summed = {} /\ sock'.answer = "default"
      /\ sock'.pc = IF i = N THEN "display" ELSE "compare"
  BY <1>2, <1>3, <1>4 DEF SockState
<1>6. CASE i = N
  <2>1. Wanted = {}
    BY <1>1, <1>6 DEF Wanted
  <2> QED BY <1>4, <1>5, <1>6, <2>1 DEF Progress
<1>7. CASE i # N
  <2>1. p = i + 1
    BY <1>7 DEF N
  <2>2. p \in Entries /\ p - 1 = i
    BY <1>1, <1>7, <2>1 DEF N
  <2> QED BY <1>4, <1>5, <1>7, <2>2 DEF Progress
<1> QED BY <1>6, <1>7

(* The average goes on to the next sample, or has added all.               *)
LEMMA GotoSampleShows ==
    ASSUME IInv, Settled, NEW p, NEW d, d \in Wanted, NEW k, k \in 0 .. Len(Paths[d]),
           p = IF k = Len(Paths[d]) THEN NULL ELSE Paths[d][k + 1],
           sock.summed = FirstNodes(d, k), GotoSample(p)
    PROVE  proc' = proc /\ Progress(sock')
<1> DEFINE q == Paths[d]
           N == Len(q)
<1>1. /\ N \in Nat /\ DOMAIN q = 1 .. N
      /\ \A j \in 1 .. N : q[j] \in Samples
  BY SettledNodes DEF Wanted
<1>2. sock \in SockState
  BY DEF IInv, Types
<1>3. q = <<>> <=> N = 0
  <2>1. d \in Entries /\ Layout(Paths, Entries, mem, rssi.node, Owner)
    BY DEF Wanted, IInv
  <2>2. q \in Seq(Samples)
    BY <2>1, LayoutTypes
  <2> QED BY <2>2, EmptySeq
<1> HIDE DEF N
<1>4. k # N => k + 1 \in 1 .. N
  BY <1>1 DEF N
<1>5. p # Junk /\ (p = NULL <=> k = N)
  BY <1>1, <1>4, NoNodes DEF N
<1> DEFINE ans == IF p # NULL THEN sock.answer
                  ELSE IF sock.summed = {} THEN "nan" ELSE "mean"
<1>6. /\ sock' = [sock EXCEPT !.cur = p, !.pc = IF p = NULL THEN "display" ELSE "value",
                              !.answer = ans]
      /\ proc' = proc
  BY <1>5 DEF GotoSample, Pointers, WildAccess
<1> HIDE DEF ans
<1>7. /\ sock'.cur = p /\ sock'.summed = FirstNodes(d, k) /\ sock'.answer = ans
      /\ sock'.pc = IF k = N THEN "display" ELSE "value"
  BY <1>2, <1>5, <1>6 DEF SockState
<1>8. CASE k = N
  <2>1. FirstNodes(d, N) = {} <=> N = 0
    <3>1. N # 0 => q[1] \in FirstNodes(d, N)
      BY <1>1 DEF FirstNodes
    <3>2. N = 0 => 1 .. N = {}
      OBVIOUS
    <3> QED BY <3>1, <3>2 DEF FirstNodes
  <2>2. ans = IF q = <<>> THEN "nan" ELSE "mean"
    BY <1>3, <1>5, <1>8, <2>1 DEF ans
  <2>3. sock'.summed = FirstNodes(d, Len(Paths[d])) /\ sock'.pc = "display"
    BY <1>7, <1>8 DEF N
  <2> QED BY <1>6, <1>7, <2>2, <2>3 DEF Progress
<1>9. CASE k # N
  <2>1. /\ k + 1 \in DOMAIN Paths[d] /\ sock'.cur = Paths[d][k + 1]
        /\ (k + 1) - 1 = k /\ sock'.pc = "value"
    BY <1>1, <1>4, <1>7, <1>9 DEF N
  <2>2. sock'.summed = FirstNodes(d, (k + 1) - 1)
    BY <1>7, <2>1
  <2>3. \E m \in DOMAIN Paths[d] : sock'.cur = Paths[d][m] /\ sock'.summed = FirstNodes(d, m - 1)
    BY <2>1, <2>2
  <2> QED BY <1>6, <2>1, <2>3 DEF Progress
<1> QED BY <1>8, <1>9

(* Neither depends on anything but what socket_thread reads.               *)
LEMMA ProgressKept ==
    ASSUME mem' = mem, Paths' = Paths, Entries' = Entries, mac_addr' = mac_addr,
           Progress(sock')
    PROVE  Progress(sock)'
<1>1. Wanted' = Wanted
  BY DEF Wanted
<1>2. \A d, k : FirstNodes(d, k)' = FirstNodes(d, k)
  BY DEF FirstNodes
<1>3. \A d \in Wanted : Len(Paths'[d]) = Len(Paths[d])
  OBVIOUS
<1> QED BY <1>1, <1>2, <1>3 DEF Progress

(* Every step of the walk is one of what it adds, and in the order of the  *)
(* list; it does not fault.                                                *)
LEMMA WalkStep ==
    ASSUME IInv, Settled, Progress(sock), Running, Walk
    PROVE  /\ proc' = proc \/ (sock.pc = "display" /\ sock' = sock)
           /\ Progress(sock')
<1>1. sock \in SockState
  BY DEF IInv, Types
<1>2. /\ Entries = 1 .. Len(mem.dev) /\ Len(mem.dev) \in Nat
      /\ DOMAIN mem.dev = 1 .. Len(mem.dev) /\ mem.dev \in Seq(DeviceNode)
  BY SettledNodes, MemoryTypes DEF IInv, Types
<1>3. CASE LoadHead
  <2>1. /\ sock.pc = "head" /\ sock.summed = {} /\ sock.answer = "default"
        /\ mem.l # "junk"
    BY <1>3 DEF LoadHead, Progress, Settled
  <2> DEFINE p == IF mem.dev = <<>> THEN NULL ELSE 1
  <2>2. GotoDevice(p)
    BY <1>3, <2>1 DEF LoadHead
  <2>3. p = IF 0 = Len(mem.dev) THEN NULL ELSE 0 + 1
    BY <1>2, EmptySeq
  <2>4. 0 \in 0 .. Len(mem.dev) /\ \A j \in 1 .. 0 : mem.dev[j].mac # mac_addr
    BY <1>2
  <2> HIDE DEF p
  <2> QED BY <2>1, <2>2, <2>3, <2>4, GotoDeviceShows
<1>4. CASE Compare
  <2>1. /\ sock.pc = "compare" /\ proc' = proc
        /\ sock.summed = {} /\ sock.answer = "default"
        /\ sock.cur \in Entries
        /\ \A i \in 1 .. sock.cur - 1 : mem.dev[i].mac # mac_addr
    BY <1>4 DEF Compare, Progress, Goto
  <2>2. mem.dev[sock.cur].mac # Junk
    BY <2>1, SettledNodes, RouterAssumption
  <2>3. \/ mem.dev[sock.cur].mac = mac_addr /\ sock' = [sock EXCEPT !.pc = "samples"]
        \/ mem.dev[sock.cur].mac # mac_addr /\ sock' = [sock EXCEPT !.pc = "nextdev"]
    BY <1>4, <2>2 DEF Compare, Goto
  <2>4. CASE mem.dev[sock.cur].mac = mac_addr
    <3>1. /\ sock'.pc = "samples" /\ sock'.cur = sock.cur /\ sock'.summed = {}
          /\ sock'.answer = "default"
      BY <1>1, <2>1, <2>3, <2>4 DEF SockState
    <3>2. sock.cur \in Wanted
      BY <2>1, <2>4 DEF Wanted
    <3> QED BY <2>1, <3>1, <3>2 DEF Progress
  <2>5. CASE mem.dev[sock.cur].mac # mac_addr
    <3>1. /\ sock'.pc = "nextdev" /\ sock'.cur = sock.cur /\ sock'.summed = {}
          /\ sock'.answer = "default"
      BY <1>1, <2>1, <2>3, <2>5 DEF SockState
    <3> QED BY <2>1, <2>5, <3>1 DEF Progress
  <2> QED BY <2>4, <2>5
<1>5. CASE NextDevice
  <2>1. /\ sock.pc = "nextdev" /\ sock.summed = {} /\ sock.answer = "default"
        /\ sock.cur \in Entries /\ mem.dev[sock.cur].mac # mac_addr
        /\ \A i \in 1 .. sock.cur - 1 : mem.dev[i].mac # mac_addr
        /\ GotoDevice(mem.dev[sock.cur].next)
    BY <1>5 DEF NextDevice, Progress
  <2> DEFINE i == sock.cur
             p == mem.dev[i].next
  <2>2. i \in 0 .. Len(mem.dev) /\ \A j \in 1 .. i : j \in 1 .. i - 1 \/ j = i
    BY <1>2, <2>1
  <2>3. p = IF i = Len(mem.dev) THEN NULL ELSE i + 1
    BY <2>1, SettledNodes
  <2>4. \A j \in 1 .. i : mem.dev[j].mac # mac_addr
    BY <2>1, <2>2
  <2>5. GotoDevice(p)
    BY <2>1
  <2> HIDE DEF i, p
  <2> QED BY <2>1, <2>2, <2>3, <2>4, <2>5, GotoDeviceShows
<1>6. CASE LoadSamples
  <2>1. /\ sock.pc = "samples" /\ sock.summed = {} /\ sock.cur \in Wanted
        /\ GotoSample(mem.dev[sock.cur].rssi)
    BY <1>6 DEF LoadSamples, Progress
  <2> DEFINE d == sock.cur
             p == mem.dev[d].rssi
  <2>2. Len(Paths[d]) \in Nat /\ p = IF Len(Paths[d]) = 0 THEN NULL ELSE Paths[d][1]
    BY <2>1, SettledNodes DEF Wanted
  <2>3. 0 \in 0 .. Len(Paths[d])
        /\ p = IF 0 = Len(Paths[d]) THEN NULL ELSE Paths[d][0 + 1]
    BY <2>2
  <2>4. sock.summed = FirstNodes(d, 0)
    BY <2>1 DEF FirstNodes
  <2>5. GotoSample(p) /\ d \in Wanted
    BY <2>1
  <2> HIDE DEF d, p
  <2> QED BY <2>3, <2>4, <2>5, GotoSampleShows
<1>7. CASE AddValue
  <2>1. /\ sock.pc = "value" /\ proc' = proc
        /\ sock' = [sock EXCEPT !.pc = "nextsample", !.summed = @ \cup {sock.cur}]
    BY <1>7 DEF AddValue
  <2>2. PICK d \in Wanted : \E k \in DOMAIN Paths[d] :
            sock.cur = Paths[d][k] /\ sock.summed = FirstNodes(d, k - 1)
    BY <2>1 DEF Progress
  <2>3. PICK k \in DOMAIN Paths[d] :
            sock.cur = Paths[d][k] /\ sock.summed = FirstNodes(d, k - 1)
    BY <2>2
  <2>4. /\ sock'.pc = "nextsample" /\ sock'.cur = sock.cur
        /\ sock'.summed = sock.summed \cup {sock.cur}
    BY <1>1, <2>1 DEF SockState
  <2>5. FirstNodes(d, k) = FirstNodes(d, k - 1) \cup {Paths[d][k]}
    <3>1. k \in Nat \ {0}
      BY SettledNodes DEF Wanted
    <3>2. 1 .. k = (1 .. k - 1) \cup {k}
      BY <3>1
    <3> QED BY <3>2 DEF FirstNodes
  <2>6. sock'.cur = Paths[d][k] /\ sock'.summed = FirstNodes(d, k)
    BY <2>3, <2>4, <2>5
  <2> QED BY <2>1, <2>4, <2>6 DEF Progress
<1>8. CASE NextSample
  <2>1. sock.pc = "nextsample" /\ GotoSample(mem.smp[sock.cur].next)
    BY <1>8 DEF NextSample
  <2>2. PICK d \in Wanted : \E k \in DOMAIN Paths[d] :
            sock.cur = Paths[d][k] /\ sock.summed = FirstNodes(d, k)
    BY <2>1 DEF Progress
  <2>3. PICK k \in DOMAIN Paths[d] : sock.cur = Paths[d][k] /\ sock.summed = FirstNodes(d, k)
    BY <2>2
  <2> DEFINE p == mem.smp[sock.cur].next
  <2>4. /\ k \in 0 .. Len(Paths[d])
        /\ p = IF k = Len(Paths[d]) THEN NULL ELSE Paths[d][k + 1]
    BY <2>3, SettledNodes DEF Wanted
  <2>5. GotoSample(p)
    BY <2>1
  <2> HIDE DEF p
  <2> QED BY <2>3, <2>4, <2>5, GotoSampleShows
<1>9. CASE Display
  <2>1. sock.pc = "display"
    BY <1>9 DEF Display
  <2>2. \/ sock' = [sock EXCEPT !.pc = "recv"] /\ proc' = proc
        \/ sock' = sock
    BY <1>9 DEF Display, Goto, Crash
  <2>3. CASE sock' = sock
    BY <2>1, <2>3
  <2>4. CASE sock' = [sock EXCEPT !.pc = "recv"] /\ proc' = proc
    <3>1. sock'.pc = "recv"
      BY <1>1, <2>4 DEF SockState
    <3> QED BY <2>4, <3>1 DEF Progress
  <2> QED BY <2>2, <2>3, <2>4
<1> QED BY <1>3, <1>4, <1>5, <1>6, <1>7, <1>8, <1>9 DEF Walk

(* The steps of rssi_thread that change the list end what is said of the   *)
(* walk; the others leave what it reads alone.                             *)
LEMMA RssiWalk ==
    ASSUME IInv, WalkInv, Rssi
    PROVE  WalkInv'
<1>0. mac_addr' = mac_addr
  BY AddressKept
<1>1. CASE \/ AllocList \/ InitList \/ FirstDevice \/ LinkDevice \/ InitDevice
           \/ FirstSample \/ LinkSample \/ InitSample \/ Expire \/ Unlink
  <2>1. Changes
    BY <1>1 DEF AllocList, InitList, FirstDevice, LinkDevice, InitDevice, FirstSample,
                LinkSample, InitSample, Expire, Unlink
  <2> QED BY <2>1 DEF Changes, Running, Walking, WalkInv
<1>2. CASE OpenFails \/ CaptureFails \/ MallocFails
  <2>1. /\ Paths' = Paths /\ mem' = mem /\ sock' = sock /\ disturbed' = disturbed
        /\ rssi.pc # "initdev" /\ proc' \in {"exited", "crashed"} /\ rssi'.pc = proc'
        /\ rssi'.new = rssi.new
    <3>1. PICK how \in {"exited", "crashed"} :
              /\ proc' = how /\ rssi' = [rssi EXCEPT !.pc = how]
              /\ rssi.pc # "initdev"
              /\ UNCHANGED <<mem, sock, disturbed>>
      BY <1>2 DEF OpenFails, CaptureFails, MallocFails, End, Allocates, Accepting
    <3>2. rssi'.pc = how /\ rssi'.new = rssi.new
      BY <3>1 DEF IInv, Types, RssiState
    <3> QED BY <1>2, <3>1, <3>2, EndInv
  <2>2. Entries' = Entries
    BY <2>1 DEF Entries
  <2>3. Settled => Settled'
    BY <2>1 DEF Settled
  <2>4. Progress(sock) => Progress(sock)'
    BY <1>0, <2>1, <2>2, ProgressKept
  <2> QED BY <2>1, <2>3, <2>4 DEF WalkInv, Walking
<1>3. CASE Capture \/ Skip \/ Known
  <2>1. /\ Paths' = Paths /\ mem' = mem /\ sock' = sock /\ disturbed' = disturbed
        /\ proc' = "running" /\ rssi.pc # "initdev"
        /\ rssi'.pc \in {"capture", "classify", "sample"} /\ rssi'.new = rssi.new
    <3>1. \/ \E loc \in {"capture", "classify"} : rssi' = [rssi EXCEPT !.pc = loc]
          \/ rssi' = [rssi EXCEPT !.pc = "sample", !.dev = is_known(mem.dev, Source)]
      BY <1>3 DEF Capture, Skip, Known
    <3>2. rssi'.pc \in {"capture", "classify", "sample"} /\ rssi'.new = rssi.new
      BY <3>1 DEF IInv, Types, RssiState
    <3> QED BY <1>3, <3>2, FrameInv DEF Capture, Skip, Known, Accepting, Local, Running
  <2>2. Entries' = Entries
    BY <2>1 DEF Entries
  <2>3. Settled => Settled'
    BY <2>1 DEF Settled
  <2>4. Progress(sock) => Progress(sock)'
    BY <1>0, <2>1, <2>2, ProgressKept
  <2> QED BY <2>1, <2>3, <2>4 DEF WalkInv, Walking
<1>4. CASE NextEntry
  <2>1. /\ sock' = sock /\ disturbed' = disturbed /\ proc' = "running"
        /\ rssi.pc = "unlink"
    BY <1>4 DEF NextEntry, Local, Running
  <2>2. ~Settled
    BY <2>1 DEF Settled
  <2> QED BY <2>1, <2>2 DEF WalkInv, Walking
<1> QED BY <1>1, <1>2, <1>3, <1>4 DEF Rssi

(* A walk begins when no change is under way, and goes on as described.    *)
LEMMA SocketWalk ==
    ASSUME IInv, Cursor, WalkInv, Bind \/ Receive \/ SmashStack \/ Walk
    PROVE  WalkInv'
<1>1. rssi' = rssi /\ mem' = mem /\ Paths' = Paths /\ Running
  BY SocketInv
  DEF Bind, Receive, SmashStack, Walk, LoadHead, Compare, NextDevice, LoadSamples, AddValue,
      NextSample, Display, Reads
<1>2. Entries' = Entries /\ (Settled => Settled')
  BY <1>1 DEF Entries, Settled
<1>3. mac_addr' = mac_addr => (Progress(sock') => Progress(sock)')
  BY <1>1, <1>2, ProgressKept
<1>4. sock \in SockState
  BY DEF IInv, Types
<1>5. CASE Bind
  <2>1. PICK loc \in {"ended", "deaf", "recv"} :
            sock' = [sock EXCEPT !.pc = loc] /\ proc' = proc
    BY <1>5 DEF Bind, Goto
  <2>2. sock'.pc = loc
    BY <1>4, <2>1 DEF SockState
  <2> QED BY <1>1, <2>1, <2>2 DEF WalkInv, Walking, Running
<1>6. CASE Receive
  <2>1. /\ proc' = "running" /\ sock'.cur = NULL /\ sock'.summed = {}
        /\ sock'.answer = "default"
        /\ sock'.pc = IF mem.l = "null" THEN "display" ELSE "head"
        /\ ~disturbed' => rssi.pc \in {"start", "capture", "classify", "expire"}
    BY <1>1, <1>6 DEF Receive, Running
  <2>2. ASSUME ~disturbed' PROVE Settled /\ Progress(sock)'
    <3>1. ~rssi.new /\ mem.l \in {"null", "list"} /\ (mem.l = "null" => mem.dev = <<>>)
      BY <2>1, <2>2 DEF IInv, Control
    <3>2. Settled
      BY <2>1, <2>2, <3>1 DEF Settled
    <3>3. mem.l = "null" => Wanted' = {}
      BY <1>2, <3>1, <3>2, SettledNodes DEF Wanted
    <3> QED BY <1>1, <2>1, <3>1, <3>2, <3>3 DEF Progress
  <2> QED BY <1>2, <2>1, <2>2 DEF WalkInv
<1>7. CASE Walk
  <2>1. disturbed' = disturbed /\ Walking
    BY <1>7 DEF Walking, Walk, LoadHead, Compare, NextDevice, LoadSamples, AddValue,
                NextSample, Display, Reads
  <2>2. ASSUME ~disturbed PROVE WalkInv'
    <3>1. Settled /\ Progress(sock)
      BY <2>1, <2>2 DEF WalkInv
    <3>2. proc' = proc \/ (sock.pc = "display" /\ sock' = sock)
      BY <1>1, <1>7, <3>1, WalkStep
    <3>3. Progress(sock')
      BY <1>1, <1>7, <3>1, WalkStep
    <3>4. proc' = "crashed" => sock'.pc = "display"
      BY <1>1, <3>2 DEF Running
    <3>5. mac_addr' = mac_addr
      BY <1>7, AddressKept
    <3> QED BY <1>2, <1>3, <3>1, <3>3, <3>4, <3>5 DEF WalkInv
  <2> QED BY <2>1, <2>2 DEF WalkInv
<1>8. CASE SmashStack
  <2>1. sock' = sock /\ sock.pc = "recv"
    BY <1>8 DEF SmashStack, Crash
  <2> QED BY <2>1 DEF WalkInv, Walking
<1> QED BY <1>5, <1>6, <1>7, <1>8

LEMMA NextWalkInv == IInv /\ Cursor /\ WalkInv /\ [Next]_vars => WalkInv'
<1> SUFFICES ASSUME IInv, Cursor, WalkInv, [Next]_vars PROVE WalkInv'
  OBVIOUS
<1>1. CASE Tick \/ UNCHANGED vars
  <2>0. mac_addr' = mac_addr
    BY <1>1, AddressKept
  <2>1. /\ rssi' = rssi /\ mem' = mem /\ sock' = sock /\ disturbed' = disturbed
        /\ proc' = proc
    BY <1>1 DEF Tick, vars
  <2>2. Entries' = Entries /\ (Settled => Settled')
    BY <2>1 DEF Entries, Settled
  <2>3. Paths' = Paths
    <3>1. CASE Tick
      BY <3>1, TickInv
    <3>2. CASE UNCHANGED vars
      <4>1. Types'
        BY <3>2 DEF IInv, Types, vars
      <4> QED BY <3>2, <4>1, OthersInv DEF vars
    <3> QED BY <1>1, <3>1, <3>2
  <2>4. Progress(sock) => Progress(sock)'
    BY <2>0, <2>1, <2>2, <2>3, ProgressKept
  <2> QED BY <2>1, <2>2, <2>4 DEF WalkInv, Walking
<1> QED BY <1>1, RssiWalk, SocketWalk DEF Next

(* The walk is as described in every state.                                *)
LEMMA WalkAlways == Spec => [](IInv /\ WalkInv)
<1>1. Init => WalkInv
  BY DEF Init, WalkInv, Walking
<1> QED BY <1>1, NextWalkInv, Invariance, PTL DEF Spec

(* The sequence without indices is empty.                                  *)
LEMMA EmptyDomain ==
    ASSUME NEW S, NEW s, s \in Seq(S)
    PROVE  s = <<>> <=> DOMAIN s = {}
<1>1. DOMAIN s = 1 .. Len(s) /\ Len(s) \in Nat /\ (s = <<>> <=> Len(s) = 0)
  BY LenProperties, EmptySeq
<1> DEFINE n == Len(s)
<1>2. n \in Nat /\ (n # 0 => 1 \in 1 .. n) /\ (n = 0 => 1 .. n = {})
  BY <1>1
<1> HIDE DEF n
<1>3. DOMAIN s = 1 .. n /\ (s = <<>> <=> n = 0)
  BY <1>1 DEF n
<1> QED BY <1>2, <1>3

(* The walk faults, or reads what is no node, only if rssi_thread changes  *)
(* the list while it goes on (is_known, average).                          *)
THEOREM FaultsComeOfChanges == Spec => []FaultsNeedChanges
<1>1. IInv /\ WalkInv => FaultsNeedChanges
  <2> SUFFICES ASSUME IInv, WalkInv, ~disturbed
      PROVE  /\ proc = "crashed" => rssi.pc = "crashed" \/ sock.pc \in {"recv", "display"}
             /\ sock.pc \in {"compare", "nextdev", "samples"} =>
                  mem.dev[sock.cur] # JunkDevice
             /\ sock.pc \in {"value", "nextsample"} => sock.cur \in mem.live
    BY DEF FaultsNeedChanges
  <2>1. proc = "crashed" => rssi.pc = "crashed" \/ sock.pc \in {"recv", "display"}
    BY DEF WalkInv
  <2>2. Walking => Settled /\ Progress(sock)
    BY DEF WalkInv
  <2>3. ASSUME sock.pc \in {"compare", "nextdev", "samples"}
        PROVE  mem.dev[sock.cur] # JunkDevice
    <3>1. Settled /\ sock.cur \in Entries
      BY <2>2, <2>3 DEF Walking, Progress, Wanted
    <3>2. mem.dev[sock.cur].mac \in MACs
      BY <3>1, SettledNodes
    <3> QED BY <3>2, RouterAssumption DEF JunkDevice
  <2>4. ASSUME sock.pc \in {"value", "nextsample"} PROVE sock.cur \in mem.live
    <3>1. Settled /\ \E d \in Wanted : \E k \in DOMAIN Paths[d] : sock.cur = Paths[d][k]
      BY <2>2, <2>4 DEF Walking, Progress
    <3> QED BY <3>1, SettledNodes DEF Wanted
  <2> QED BY <2>1, <2>3, <2>4
<1> QED BY <1>1, WalkAlways, PTL

(* No pointer of the entries and of the samples on their lists is without  *)
(* a value.                                                                *)
LEMMA PointersSet ==
    ASSUME IInv
    PROVE  /\ \A d \in Entries : mem.dev[d].next # Junk /\ mem.dev[d].rssi # Junk
           /\ \A n \in mem.live \ {rssi.node} : mem.smp[n].next # Junk
           /\ \A d \in DOMAIN mem.dev \ Entries : rssi.pc = "initdev" /\ d = Len(mem.dev)
<1>1. /\ mem.dev \in Seq(DeviceNode) /\ Len(mem.dev) \in Nat
      /\ DOMAIN mem.dev = 1 .. Len(mem.dev)
  BY MemoryTypes DEF IInv, Types
<1>2. Layout(Paths, Entries, mem, rssi.node, Owner)
  BY DEF IInv
<1>3. rssi.node \in Samples \cup {NULL}
  BY DEF IInv, Types, RssiState
<1>4. ASSUME NEW d \in Entries
      PROVE  /\ mem.dev[d].rssi # Junk
             /\ \A k \in DOMAIN Paths[d] : mem.smp[Paths[d][k]].next # Junk
  <2> DEFINE q == Paths[d]
             last == IF d = Owner THEN rssi.node ELSE NULL
  <2>1. /\ q \in Seq(Samples) /\ Len(q) \in Nat /\ DOMAIN q = 1 .. Len(q)
        /\ \A k \in DOMAIN q : q[k] \in Samples
    BY <1>2, LayoutTypes
  <2>2. Path(q, mem.dev[d].rssi, last, mem.smp)
    BY <1>2 DEF Layout
  <2>3. last # Junk /\ \A n \in Samples : n # Junk
    BY <1>3, NoNodes
  <2> HIDE DEF q, last
  <2>4. q # <<>> => 1 \in DOMAIN q
    BY <2>1, EmptySeq
  <2>5. \A k \in DOMAIN q : k # Len(q) => k + 1 \in DOMAIN q
    BY <2>1
  <2>6. mem.dev[d].rssi # Junk
    BY <2>1, <2>2, <2>3, <2>4 DEF Path
  <2>7. \A k \in DOMAIN q : mem.smp[q[k]].next # Junk
    BY <2>1, <2>2, <2>3, <2>5 DEF Path
  <2> QED BY <2>6, <2>7 DEF q
<1>5. ASSUME NEW d \in Entries PROVE mem.dev[d].next # Junk
  <2>1. d \in Nat /\ mem.dev[d].next = IF d = Len(mem.dev) THEN NULL ELSE d + 1
    <3>1. mem.dev[d].next = IF d = Len(mem.dev) THEN NULL ELSE d + 1
      BY DEF IInv, Devices
    <3>2. d \in Nat
      BY <1>1 DEF Entries
    <3> QED BY <3>1, <3>2
  <2> QED BY <2>1 DEF NULL, Junk
<1>6. ASSUME NEW n \in mem.live \ {rssi.node} PROVE mem.smp[n].next # Junk
  <2>1. PICK d \in Entries : \E k \in DOMAIN Paths[d] : Paths[d][k] = n
    BY <1>2 DEF Layout
  <2> QED BY <1>4, <2>1
<1>7. ASSUME NEW d \in DOMAIN mem.dev \ Entries PROVE rssi.pc = "initdev" /\ d = Len(mem.dev)
  <2>1. rssi.pc # "initdev" => Entries = 1 .. Len(mem.dev) - 0
    BY DEF Entries
  <2>2. rssi.pc = "initdev" => Entries = 1 .. Len(mem.dev) - 1
    BY DEF Entries
  <2> QED BY <1>1, <2>1, <2>2
<1> QED BY <1>4, <1>5, <1>6, <1>7

(* A step of socket_thread that ends the process does so in a window.      *)
LEMMA SocketFaults ==
    ASSUME IInv, Cursor, rssi.pc \notin {"exited", "crashed"},
           Bind \/ Receive \/ SmashStack \/ Walk, proc' = "crashed"
    PROVE  FaultsInWindows'
<1>1. Running /\ rssi' = rssi /\ mem' = mem
  BY DEF Bind, Receive, SmashStack, Walk, LoadHead, Compare, NextDevice, LoadSamples,
         AddValue, NextSample, Display, Reads
<1>2. proc' # proc
  BY <1>1 DEF Running
<1>3. CASE Display \/ SmashStack
  <2>1. sock' = sock /\ sock.pc \in {"recv", "display"}
    BY <1>2, <1>3 DEF Display, SmashStack, Goto, Crash
  <2> QED BY <2>1 DEF FaultsInWindows
<1>4. CASE LoadHead
  <2>1. sock.pc = "head" /\ sock' = sock /\ mem.l = "junk"
    <3>1. (IF mem.dev = <<>> THEN NULL ELSE 1) # Junk
      BY DEF NULL, Junk
    <3> QED BY <1>2, <1>4, <3>1 DEF LoadHead, GotoDevice, WildAccess, Crash
  <2>2. rssi.pc = "alloc"
    BY <2>1 DEF IInv, Control
  <2> QED BY <1>1, <2>1, <2>2 DEF FaultsInWindows
<1>5. CASE NextDevice \/ LoadSamples
  <2>1. /\ sock.pc \in {"nextdev", "samples"} /\ sock' = sock
        /\ mem.dev[sock.cur].next = Junk \/ mem.dev[sock.cur].rssi = Junk
    BY <1>2, <1>5 DEF NextDevice, LoadSamples, GotoDevice, GotoSample, WildAccess, Crash
  <2>2. sock.cur \in DOMAIN mem.dev \ Entries
    BY <2>1, PointersSet DEF Cursor
  <2>3. rssi.pc = "initdev" /\ sock.cur = Len(mem.dev)
    BY <2>2, PointersSet
  <2> QED BY <1>1, <2>1, <2>3 DEF FaultsInWindows
<1>6. CASE NextSample
  <2>1. sock.pc = "nextsample" /\ sock' = sock /\ mem.smp[sock.cur].next = Junk
    BY <1>2, <1>6 DEF NextSample, GotoSample, WildAccess, Crash
  <2>2. sock.cur \in Samples /\ sock.cur \notin mem.live \ {rssi.node}
    BY <2>1, PointersSet DEF Cursor
  <2>3. sock.cur = rssi.node => rssi.pc = "initsample"
    BY <2>2, NoNodes DEF IInv, Control
  <2> QED BY <1>1, <2>1, <2>2, <2>3 DEF FaultsInWindows
<1>7. CASE Bind \/ Receive \/ Compare \/ AddValue
  BY <1>2, <1>7 DEF Bind, Receive, Compare, AddValue, Goto
<1> QED BY <1>3, <1>4, <1>5, <1>6, <1>7 DEF Walk

(* Whatever rssi_thread does to the list during a walk, it takes the walk  *)
(* down in three windows only: before *l has a value, on the last entry    *)
(* until it is initialised, on a sample freed or not initialised           *)
(* (add_device, add_rssi_sample, delete_outdated against is_known and      *)
(* average).                                                               *)
THEOREM FaultsAreInWindows == Spec => []FaultsInWindows
<1> DEFINE Ended == proc = rssi.pc \/ (rssi.pc \notin {"exited", "crashed"} /\ proc # "exited")
           Inv == Ended /\ FaultsInWindows
<1>1. Init => Inv
  BY DEF Init, FaultsInWindows
<1>2. IInv /\ Cursor /\ Inv /\ [Next]_vars => Inv'
  <2> SUFFICES ASSUME IInv, Cursor, Inv, [Next]_vars PROVE Inv'
    OBVIOUS
  <2>1. CASE OpenFails \/ CaptureFails \/ MallocFails
    <3>1. PICK how \in {"exited", "crashed"} : proc' = how /\ rssi' = [rssi EXCEPT !.pc = how]
      BY <2>1 DEF OpenFails, CaptureFails, MallocFails, End
    <3>2. rssi'.pc = proc'
      BY <3>1 DEF IInv, Types, RssiState
    <3> QED BY <3>2 DEF FaultsInWindows
  <2>2. CASE \/ AllocList \/ InitList \/ Capture \/ Skip \/ Known \/ FirstDevice \/ LinkDevice
             \/ InitDevice \/ FirstSample \/ LinkSample \/ InitSample \/ Expire \/ Unlink
             \/ NextEntry
    <3>1. proc = "running" /\ proc' = proc
      BY <2>2 DEF AllocList, InitList, Capture, Skip, Known, FirstDevice, LinkDevice,
                  InitDevice, FirstSample, LinkSample, InitSample, Expire, Unlink,
                  NextEntry, Changes, Local, Running
    <3>2. rssi'.pc \notin {"exited", "crashed"}
      BY <2>2, <3>1 DEF IInv, Types, RssiState, AllocList, InitList, Capture, Skip, Known,
                  FirstDevice, LinkDevice, InitDevice, FirstSample, LinkSample, InitSample,
                  Expire, Unlink, NextEntry
    <3> QED BY <3>1, <3>2 DEF FaultsInWindows
  <2>3. CASE Bind \/ Receive \/ SmashStack \/ Walk
    <3>1. proc = "running" /\ rssi' = rssi
      BY <2>3 DEF Bind, Receive, SmashStack, Walk, LoadHead, Compare, NextDevice,
                  LoadSamples, AddValue, NextSample, Display, Reads, Running
    <3>2. rssi.pc \notin {"exited", "crashed"}
      BY <3>1
    <3>3. proc' \in {"running", "crashed"}
      BY <2>3, <3>1 DEF Bind, Receive, SmashStack, Walk, LoadHead, Compare, NextDevice,
                  LoadSamples, AddValue, NextSample, Display, Goto, Crash, GotoDevice,
                  GotoSample, WildAccess
    <3>4. CASE proc' = "crashed"
      BY <2>3, <3>1, <3>2, <3>4, SocketFaults
    <3>5. CASE proc' = "running"
      BY <3>1, <3>2, <3>5 DEF FaultsInWindows
    <3> QED BY <3>3, <3>4, <3>5
  <2>4. CASE Tick \/ UNCHANGED vars
    BY <2>4 DEF Tick, vars, FaultsInWindows
  <2> QED BY <2>1, <2>2, <2>3, <2>4 DEF Next, Rssi
<1> HIDE DEF Ended
<1>3. Inv => FaultsInWindows
  OBVIOUS
<1> HIDE DEF Inv
<1> QED BY <1>1, <1>2, <1>3, Invariance, PTL DEF Spec

(* What socket_thread answers when it is left alone is the average of the  *)
(* list, over all the samples of the address, whatever rssi_thread did     *)
(* before (is_known, average).                                             *)
THEOREM UndisturbedIsExact == Spec => []UndisturbedAverage
<1>1. IInv /\ WalkInv => UndisturbedAverage
  <2> SUFFICES ASSUME IInv, WalkInv, sock.pc = "display", ~disturbed
      PROVE  LET d == is_known(mem.dev, mac_addr)
             IN  /\ sock.answer = average(Published, mac_addr).value
                 /\ sock.summed = IF d = NULL THEN {} ELSE {e[3] : e \in SamplesOf(d)}
    BY DEF UndisturbedAverage
  <2> DEFINE N == Len(mem.dev)
             L == InMemory
             D == is_known(mem.dev, mac_addr)
  <2>1. Settled /\ Progress(sock)
    BY DEF WalkInv, Walking
  <2>2. /\ N \in Nat /\ Entries = 1 .. N /\ DOMAIN mem.dev = 1 .. N
        /\ \A i, j \in Entries : mem.dev[i].mac = mem.dev[j].mac => i = j
    BY <2>1, SettledNodes, MemoryTypes DEF IInv, Types
  <2>3. Published = L
    BY <2>1, PublishedInMemory DEF Settled
  <2>4. /\ DOMAIN L = 1 .. N
        /\ \A i \in 1 .. N : /\ L[i].mac = mem.dev[i].mac
                             /\ L[i].rssi = Contents(Paths[i], mem.smp)
    <3>1. Shown = N - 0
      BY <2>1 DEF Settled, Shown
    <3>2. Shown = N
      BY <2>2, <3>1
    <3> QED BY <2>2, <3>2, InMemoryTypes
  <2> HIDE DEF N, L
  <2>5. is_known(L, mac_addr) = D
    BY <2>2, <2>4, KnownByAddress
  <2>6. /\ D = NULL <=> \A i \in 1 .. N : mem.dev[i].mac # mac_addr
        /\ D # NULL => D \in 1 .. N /\ mem.dev[D].mac = mac_addr
    BY <2>2, KnownEntry
  <2> HIDE DEF D
  <2>7. \A d \in Wanted : D = d /\ D # NULL
    BY <2>2, <2>6 DEF Wanted
  <2>8. CASE Wanted = {} /\ sock.summed = {} /\ sock.answer = "default"
    <3>1. D = NULL
      BY <2>2, <2>6, <2>8 DEF Wanted
    <3> QED BY <2>3, <2>5, <2>8, <3>1 DEF average, D
  <2>9. ASSUME NEW d \in Wanted, sock.summed = FirstNodes(d, Len(Paths[d])),
               sock.answer = IF Paths[d] = <<>> THEN "nan" ELSE "mean"
        PROVE  /\ sock.answer = average(Published, mac_addr).value
               /\ D # NULL /\ sock.summed = {e[3] : e \in SamplesOf(D)}
    <3>1. D = d /\ D # NULL /\ d \in 1 .. N
      BY <2>2, <2>7 DEF Wanted
    <3>2. DOMAIN Paths[d] = 1 .. Len(Paths[d]) /\ Len(Paths[d]) \in Nat
      BY <2>1, <2>2, <3>1, SettledNodes
    <3>3. L[d].rssi = <<>> <=> Paths[d] = <<>>
      <4> DEFINE q == Paths[d]
                 c == Contents(q, mem.smp)
      <4>1. q \in Seq(Samples) /\ c \in Seq(RssiSample)
        BY <2>2, <3>1, InMemoryTypes
      <4>2. DOMAIN c = DOMAIN q
        BY DEF Contents
      <4>3. c = L[d].rssi
        BY <2>4, <3>1
      <4> HIDE DEF q, c
      <4>4. c = <<>> <=> DOMAIN c = {}
        BY <4>1, EmptyDomain
      <4>5. q = <<>> <=> DOMAIN q = {}
        BY <4>1, EmptyDomain
      <4> QED BY <4>2, <4>3, <4>4, <4>5 DEF q
    <3>4. average(L, mac_addr).value = IF L[d].rssi = <<>> THEN "nan" ELSE "mean"
      BY <2>5, <3>1 DEF average
    <3>5. {e[3] : e \in SamplesOf(d)} = {Paths[d][k] : k \in DOMAIN Paths[d]}
      <4>1. SamplesOf(d) = {<<d, k, Paths[d][k]>> : k \in DOMAIN Paths[d]}
        BY <2>2, <3>1 DEF SamplesOf, Paths
      <4> DEFINE q == Paths[d]
      <4>2. ASSUME NEW e \in SamplesOf(d) PROVE \E k \in DOMAIN q : e[3] = q[k]
        BY <4>1
      <4>3. ASSUME NEW k \in DOMAIN q PROVE \E e \in SamplesOf(d) : e[3] = q[k]
        <5>1. <<d, k, q[k]>> \in SamplesOf(d) /\ <<d, k, q[k]>>[3] = q[k]
          BY <4>1
        <5> QED BY <5>1
      <4> HIDE DEF q
      <4>4. {e[3] : e \in SamplesOf(d)} = {q[k] : k \in DOMAIN q}
        BY <4>2, <4>3
      <4> QED BY <4>4 DEF q
    <3> QED BY <2>3, <2>9, <3>1, <3>2, <3>3, <3>4, <3>5 DEF FirstNodes
  <2>10. \/ Wanted = {} /\ sock.summed = {} /\ sock.answer = "default"
         \/ \E d \in Wanted : /\ sock.summed = FirstNodes(d, Len(Paths[d]))
                              /\ sock.answer = IF Paths[d] = <<>> THEN "nan" ELSE "mean"
    BY <2>1 DEF Progress
  <2> QED BY <2>8, <2>9, <2>10 DEF D
<1> QED BY <1>1, WalkAlways, PTL


-----------------------------------------------------------------------------
(* What is proved of RssiThread.                                           *)
CProofs == INSTANCE RssiThreadProofs WITH l <- Published, pc <- Stage

LEMMA CapturingAssumed ==
    Frames \subseteq CProofs!Packet /\ MaxClock \in Nat /\ MaxRate \in Nat
<1>1. CProofs!u_short = Capturing!u_short
  BY DEF CProofs!u_short, Capturing!u_short
<1>2. CProofs!Packet = Capturing!Packet
  BY <1>1 DEF CProofs!Packet, Capturing!Packet
<1> QED BY <1>2, RouterFramesAssumption, RouterBoundsAssumption

(* Both instances are of the same modules with the same variables.         *)
LEMMA SameListOperators ==
    /\ \A d, mac : CProofs!is_known(d, mac) = Capturing!is_known(d, mac)
    /\ \A d, mac : CProofs!add_device(d, mac) = Capturing!add_device(d, mac)
    /\ \A d : CProofs!added_device(d) = Capturing!added_device(d)
    /\ \A d, i, s : CProofs!add_rssi_sample(d, i, s) = Capturing!add_rssi_sample(d, i, s)
    /\ \A d, now : CProofs!delete_outdate(d, now) = Capturing!delete_outdate(d, now)
<1>1. \A d, mac : CProofs!is_known(d, mac) = Capturing!is_known(d, mac)
  BY DEF CProofs!is_known, Capturing!is_known, CProofs!Matches, Capturing!Matches,
         CProofs!NULL, Capturing!NULL
<1>2. \A c, now : CProofs!delete_outdated(c, now) = Capturing!delete_outdated(c, now)
  BY DEF CProofs!delete_outdated, Capturing!delete_outdated, CProofs!FirstKept,
         Capturing!FirstKept, CProofs!Outdated, Capturing!Outdated
<1>3. \A d, now : CProofs!delete_outdate(d, now) = Capturing!delete_outdate(d, now)
  BY <1>2 DEF CProofs!delete_outdate, Capturing!delete_outdate
<1> QED BY <1>1, <1>3
        DEF CProofs!add_device, Capturing!add_device, CProofs!added_device,
            Capturing!added_device, CProofs!add_rssi_sample, Capturing!add_rssi_sample

LEMMA SameCapturing == Capturing!Spec => CProofs!Spec
<1>1. Capturing!Init => CProofs!Init
  BY DEF Capturing!Init, CProofs!Init, Capturing!NoPacket, CProofs!NoPacket
<1>2. Capturing!Next => CProofs!Next
  BY SameListOperators DEF
    Capturing!Open, CProofs!Open, Capturing!OpenFails, CProofs!OpenFails,
    Capturing!Capture, CProofs!Capture, Capturing!CaptureFails,
    CProofs!CaptureFails, Capturing!MallocFails, CProofs!MallocFails,
    Capturing!Skip, CProofs!Skip, Capturing!StoreKnown, CProofs!StoreKnown,
    Capturing!StoreNew, CProofs!StoreNew, Capturing!Expire, CProofs!Expire,
    Capturing!Tick, CProofs!Tick, Capturing!Loop, CProofs!Loop,
    Capturing!Next, CProofs!Next, Capturing!Accepted, CProofs!Accepted,
    Capturing!NULL, CProofs!NULL
<1>3. UNCHANGED Capturing!vars => UNCHANGED CProofs!vars
  BY DEF Capturing!vars, CProofs!vars
<1> QED BY <1>1, <1>2, <1>3, PTL DEF Capturing!Spec, CProofs!Spec

(* The capture loop keeps its promises in memory too: one entry per        *)
(* station, one stray of the next station at most, samples in the order of *)
(* their dates, expiry exact and entries that stay, whatever order nodes   *)
(* are linked, initialised and freed in (rssi_thread, RSSI_list.c).        *)
THEOREM MemoryKeepsThePromises ==
    Spec => /\ [](/\ Capturing!DevicesDistinct /\ Capturing!StraysBounded
                  /\ Capturing!SamplesInDateOrder)
            /\ Capturing!ExpiryIsExact /\ Capturing!DevicesPersist
<1>1. Spec => CProofs!Spec
  BY RouterImplementsRssiThread, SameCapturing, PTL DEF ImplementsRssiThread
<1>2. CProofs!Spec => []Capturing!DevicesDistinct
  <2>1. CProofs!Spec => []CProofs!DevicesDistinct
    BY CapturingAssumed, CProofs!NoDuplicateDevice, PTL DEF CProofs!NoDuplicateDevice
  <2>2. CProofs!DevicesDistinct => Capturing!DevicesDistinct
    BY DEF CProofs!DevicesDistinct, Capturing!DevicesDistinct, CProofs!OneEntryEach,
           Capturing!OneEntryEach
  <2> QED BY <2>1, <2>2, PTL
<1>3. CProofs!Spec => []Capturing!StraysBounded
  <2>1. CProofs!Spec => []CProofs!StraysBounded
    BY CapturingAssumed, CProofs!MisfilingBounded, PTL DEF CProofs!MisfilingBounded
  <2>2. CProofs!StraysBounded => Capturing!StraysBounded
    BY DEF CProofs!StraysBounded, Capturing!StraysBounded, CProofs!OneStrayOfNext,
           Capturing!OneStrayOfNext, CProofs!Stray, Capturing!Stray
  <2> QED BY <2>1, <2>2, PTL
<1>4. CProofs!Spec => []Capturing!SamplesInDateOrder
  <2>1. CProofs!Spec => []CProofs!SamplesInDateOrder
    BY CapturingAssumed, CProofs!DateOrder, PTL DEF CProofs!DateOrder
  <2>2. CProofs!SamplesInDateOrder => Capturing!SamplesInDateOrder
    BY DEF CProofs!SamplesInDateOrder, Capturing!SamplesInDateOrder, CProofs!InDateOrder,
           Capturing!InDateOrder
  <2> QED BY <2>1, <2>2, PTL
<1>5. CProofs!Spec => Capturing!ExpiryIsExact
  <2>1. CProofs!Spec => CProofs!ExpiryIsExact
    BY CapturingAssumed, CProofs!ExactExpiry, PTL DEF CProofs!ExactExpiry
  <2> DEFINE Exact(fresh(_, _)) ==
               Stage = "expire" /\ Stage' = "capture" =>
                 \A i \in DOMAIN Published :
                   {Published'[i].rssi[k] : k \in DOMAIN Published'[i].rssi}
                     = fresh(Published[i].rssi, clock)
  <2>2. \A c, now : CProofs!Fresh(c, now) = Capturing!Fresh(c, now)
    BY DEF CProofs!Fresh, Capturing!Fresh, CProofs!Outdated, Capturing!Outdated
  <2>3. [Exact(CProofs!Fresh)]_(CProofs!vars) => [Exact(Capturing!Fresh)]_(Capturing!vars)
    BY <2>2 DEF CProofs!vars, Capturing!vars
  <2> QED BY <2>1, <2>3, PTL DEF CProofs!ExpiryIsExact, Capturing!ExpiryIsExact
<1>6. CProofs!Spec => Capturing!DevicesPersist
  <2>1. CProofs!Spec => CProofs!DevicesPersist
    BY CapturingAssumed, CProofs!EntriesStay, PTL DEF CProofs!EntriesStay
  <2>2. UNCHANGED CProofs!vars <=> UNCHANGED Capturing!vars
    BY DEF CProofs!vars, Capturing!vars
  <2> QED BY <2>1, <2>2, PTL DEF CProofs!DevicesPersist, Capturing!DevicesPersist
<1> QED BY <1>1, <1>2, <1>3, <1>4, <1>5, <1>6, PTL
=============================================================================
