--------------------------- MODULE RssiListProofs ---------------------------
(***************************************************************************)
(* What the operators of RssiList return, for every list.                  *)
(***************************************************************************)
EXTENDS RssiList, LeastNumber, SequenceTheorems, TLAPS

(* is_known returns an entry of the address if the list has one, and NULL  *)
(* otherwise, whatever else its entries hold.                              *)
LEMMA KnownEntry ==
    ASSUME NEW l, NEW n \in Nat, DOMAIN l = 1 .. n, NEW mac
    PROVE  /\ is_known(l, mac) = NULL <=> \A i \in 1 .. n : l[i].mac # mac
           /\ is_known(l, mac) # NULL =>
                /\ is_known(l, mac) \in 1 .. n
                /\ l[is_known(l, mac)].mac = mac
<1> DEFINE M == Matches(l, mac)
<1>1. M \subseteq Nat \ {0}
  BY DEF Matches
<1>2. CASE M = {}
  BY <1>2 DEF is_known, Matches, NULL
<1>3. CASE M # {}
  <2>1. \E i \in M : \A j \in M : i <= j
    BY <1>1, <1>3, LeastNatural
  <2>2. is_known(l, mac) \in M
    BY <1>3, <2>1 DEF is_known
  <2> QED BY <1>1, <2>2 DEF Matches, NULL
<1> QED BY <1>2, <1>3

(* It depends on the addresses of the entries only.                        *)
LEMMA KnownByAddress ==
    ASSUME NEW l, NEW k, DOMAIN k = DOMAIN l, \A i \in DOMAIN l : k[i].mac = l[i].mac,
           NEW mac
    PROVE  is_known(k, mac) = is_known(l, mac)
<1>1. Matches(k, mac) = Matches(l, mac)
  BY DEF Matches
<1> QED BY <1>1 DEF is_known

(* In particular for a list of devices.                                    *)
LEMMA IsKnownReturns ==
    ASSUME NEW l \in Seq(DeviceEntry), NEW mac
    PROVE  /\ is_known(l, mac) = NULL <=> \A i \in DOMAIN l : l[i].mac # mac
           /\ is_known(l, mac) # NULL =>
                /\ is_known(l, mac) \in DOMAIN l
                /\ l[is_known(l, mac)].mac = mac
<1>1. Len(l) \in Nat /\ DOMAIN l = 1 .. Len(l)
  BY LenProperties
<1> QED BY <1>1, KnownEntry

(* The deletion loop stops somewhere: behind a prefix of outdated samples, *)
(* at the end or at a sample that is not outdated.                         *)
LEMMA FirstKeptExists ==
    ASSUME NEW rssi \in Seq(RssiSample), NEW now \in Nat
    PROVE  /\ FirstKept(rssi, now) \in 1 .. Len(rssi) + 1
           /\ \A j \in 1 .. FirstKept(rssi, now) - 1 : Outdated(rssi[j], now)
           /\ FirstKept(rssi, now) <= Len(rssi) =>
                ~Outdated(rssi[FirstKept(rssi, now)], now)
<1> DEFINE Stops == {k \in 1 .. Len(rssi) + 1 :
                        k <= Len(rssi) => ~Outdated(rssi[k], now)}
<1>1. Len(rssi) \in Nat
  BY LenProperties
<1>2. Stops \subseteq Nat /\ Len(rssi) + 1 \in Stops
  BY <1>1
<1>3. PICK k \in Stops : \A j \in Stops : k <= j
  BY <1>2, LeastNatural
<1>4. \A j \in 1 .. k - 1 : Outdated(rssi[j], now)
  BY <1>1, <1>3
<1>5. \E n \in 1 .. Len(rssi) + 1 :
          /\ \A j \in 1 .. n - 1 : Outdated(rssi[j], now)
          /\ n <= Len(rssi) => ~Outdated(rssi[n], now)
  BY <1>3, <1>4
<1> QED BY <1>5 DEF FirstKept

(* It is determined: nothing in front of it is kept, nothing there goes.   *)
LEMMA FirstKeptUnique ==
    ASSUME NEW rssi \in Seq(RssiSample), NEW now \in Nat,
           NEW k \in 1 .. Len(rssi) + 1,
           \A j \in 1 .. k - 1 : Outdated(rssi[j], now),
           k <= Len(rssi) => ~Outdated(rssi[k], now)
    PROVE  FirstKept(rssi, now) = k
<1> DEFINE m == FirstKept(rssi, now)
<1>1. Len(rssi) \in Nat
  BY LenProperties
<1>2. /\ m \in 1 .. Len(rssi) + 1
      /\ \A j \in 1 .. m - 1 : Outdated(rssi[j], now)
      /\ m <= Len(rssi) => ~Outdated(rssi[m], now)
  BY FirstKeptExists
<1> HIDE DEF m
<1>3. ~(m < k)
  <2> SUFFICES ASSUME m < k PROVE FALSE
    OBVIOUS
  <2>1. m \in 1 .. k - 1 /\ m <= Len(rssi)
    BY <1>1, <1>2
  <2> QED BY <1>2, <2>1
<1>4. ~(k < m)
  <2> SUFFICES ASSUME k < m PROVE FALSE
    OBVIOUS
  <2>1. k \in 1 .. m - 1 /\ k <= Len(rssi)
    BY <1>1, <1>2
  <2> QED BY <1>2, <2>1
<1>5. m \in Int /\ k \in Int
  BY <1>1, <1>2
<1>6. m = k
  BY <1>3, <1>4, <1>5
<1> QED BY <1>6 DEF m

(* A list that begins with a sample to keep is left alone.                 *)
LEMMA DeleteOutdatedKeeps ==
    ASSUME NEW rssi \in Seq(RssiSample), NEW now \in Nat,
           rssi # <<>> => ~Outdated(rssi[1], now)
    PROVE  delete_outdated(rssi, now) = rssi
<1>1. Len(rssi) \in Nat /\ (rssi = <<>> => Len(rssi) = 0)
  BY LenProperties, EmptySeq
<1>2. 1 \in 1 .. Len(rssi) + 1 /\ (1 <= Len(rssi) => rssi # <<>>)
  BY <1>1
<1>3. \A j \in 1 .. 1 - 1 : Outdated(rssi[j], now)
  OBVIOUS
<1>4. FirstKept(rssi, now) = 1
  BY <1>2, <1>3, FirstKeptUnique
<1> QED BY <1>4, SubSeqFull DEF delete_outdated

(* Removing an outdated sample first makes no difference.                  *)
LEMMA DeleteOutdatedTail ==
    ASSUME NEW rssi \in Seq(RssiSample), NEW now \in Nat,
           rssi # <<>>, Outdated(rssi[1], now)
    PROVE  delete_outdated(Tail(rssi), now) = delete_outdated(rssi, now)
<1> DEFINE t == Tail(rssi)
           N == Len(rssi)
           k == FirstKept(t, now)
<1>1. N \in Nat \ {0} /\ t \in Seq(RssiSample) /\ Len(t) = N - 1
  BY HeadTailProperties, EmptySeq, LenProperties
<1>2. \A i \in 1 .. N - 1 : t[i] = rssi[i + 1]
  BY <1>1, HeadTailProperties
<1>3. /\ k \in 1 .. (N - 1) + 1
      /\ \A j \in 1 .. k - 1 : Outdated(t[j], now)
      /\ k <= N - 1 => ~Outdated(t[k], now)
  BY <1>1, FirstKeptExists
<1> HIDE DEF t, N, k
<1>4. \A j \in 1 .. (k + 1) - 1 : Outdated(rssi[j], now)
  <2> TAKE j \in 1 .. (k + 1) - 1
  <2>1. CASE j = 1
    BY <2>1
  <2>2. CASE j # 1
    <3>1. j - 1 \in 1 .. k - 1 /\ j - 1 \in 1 .. N - 1 /\ (j - 1) + 1 = j
      BY <1>1, <1>3, <2>2
    <3> QED BY <1>2, <1>3, <3>1
  <2> QED BY <2>1, <2>2
<1>5. k + 1 <= N => ~Outdated(rssi[k + 1], now)
  <2> SUFFICES ASSUME k + 1 <= N PROVE ~Outdated(rssi[k + 1], now)
    OBVIOUS
  <2>1. k \in 1 .. N - 1 /\ k <= N - 1
    BY <1>1, <1>3
  <2> QED BY <1>2, <1>3, <2>1
<1>6. FirstKept(rssi, now) = k + 1
  <2>1. k + 1 \in 1 .. N + 1
    BY <1>1, <1>3
  <2> QED BY <1>4, <1>5, <2>1, FirstKeptUnique DEF N
<1>7. /\ \A i \in k .. N - 1 : t[i] \in RssiSample
      /\ \A i \in k + 1 .. N : rssi[i] \in RssiSample
  <2>1. \A i \in 1 .. N : rssi[i] \in RssiSample
    BY ElementOfSeq DEF N
  <2>2. \A i \in 1 .. N - 1 : t[i] \in RssiSample
    BY <1>1, ElementOfSeq
  <2> QED BY <1>1, <1>3, <2>1, <2>2
<1> DEFINE u == SubSeq(t, k, N - 1)
           v == SubSeq(rssi, k + 1, N)
<1>8. /\ u \in Seq(RssiSample) /\ v \in Seq(RssiSample)
      /\ Len(u) = N - k /\ Len(v) = N - k
      /\ \A i \in 1 .. N - k : u[i] = v[i]
  <2>1. k \in Int /\ N \in Int /\ N - 1 \in Int /\ k + 1 \in Int
    BY <1>1, <1>3
  <2> DEFINE M == N - 1
  <2>2. /\ u \in Seq(RssiSample)
        /\ Len(u) = IF k <= M THEN M - k + 1 ELSE 0
        /\ \A i \in 1 .. M - k + 1 : u[i] = t[k + i - 1]
    <3>1. M \in Int /\ \A i \in k .. M : t[i] \in RssiSample
      BY <1>7, <2>1
    <3>2. u = SubSeq(t, k, M)
      OBVIOUS
    <3> HIDE DEF M, u, v
    <3>3. /\ SubSeq(t, k, M) \in Seq(RssiSample)
          /\ Len(SubSeq(t, k, M)) = IF k <= M THEN M - k + 1 ELSE 0
          /\ \A i \in 1 .. M - k + 1 : SubSeq(t, k, M)[i] = t[k + i - 1]
      <4>1. k \in Int
        BY <2>1
      <4> QED BY <3>1, <4>1, SubSeqProperties
    <3> QED BY <3>2, <3>3
  <2>3. /\ v \in Seq(RssiSample)
        /\ Len(v) = IF k + 1 <= N THEN N - (k + 1) + 1 ELSE 0
        /\ \A i \in 1 .. N - (k + 1) + 1 : v[i] = rssi[(k + 1) + i - 1]
    <3> DEFINE m == k + 1
    <3>1. m \in Int /\ \A i \in m .. N : rssi[i] \in RssiSample
      BY <1>7, <2>1
    <3>2. v = SubSeq(rssi, m, N)
      OBVIOUS
    <3> HIDE DEF m, u, v
    <3>3. /\ SubSeq(rssi, m, N) \in Seq(RssiSample)
          /\ Len(SubSeq(rssi, m, N)) = IF m <= N THEN N - m + 1 ELSE 0
          /\ \A i \in 1 .. N - m + 1 : SubSeq(rssi, m, N)[i] = rssi[m + i - 1]
      <4>1. N \in Int
        BY <2>1
      <4> QED BY <3>1, <4>1, SubSeqProperties
    <3> QED BY <3>2, <3>3 DEF m
  <2> HIDE DEF u, v
  <2>4. Len(u) = N - k /\ Len(v) = N - k
    BY <1>1, <1>3, <2>1, <2>2, <2>3
  <2>5. ASSUME NEW i \in 1 .. N - k PROVE u[i] = v[i]
    <3>1. /\ i \in 1 .. (N - 1) - k + 1 /\ i \in 1 .. N - (k + 1) + 1
          /\ k + i - 1 \in 1 .. N - 1 /\ (k + i - 1) + 1 = (k + 1) + i - 1
      BY <1>1, <1>3, <2>1
    <3> QED BY <1>2, <2>2, <2>3, <3>1
  <2> QED BY <2>2, <2>3, <2>4, <2>5
<1>9. u = v
  <2> HIDE DEF u, v
  <2>1. \A i \in 1 .. Len(u) : u[i] = v[i]
    BY <1>8
  <2> QED BY <1>8, <2>1, SeqEqual
<1>10. delete_outdated(t, now) = u /\ delete_outdated(rssi, now) = v
  BY <1>1, <1>6 DEF delete_outdated, k, N
<1> QED BY <1>9, <1>10 DEF t

(* What is left of a list of samples is a suffix of it, cut at FirstKept.  *)
LEMMA DeleteOutdatedReturns ==
    ASSUME NEW rssi \in Seq(RssiSample), NEW now \in Nat
    PROVE  LET left == delete_outdated(rssi, now)
               cut  == FirstKept(rssi, now) - 1
           IN  /\ left \in Seq(RssiSample)
               /\ cut \in 0 .. Len(rssi)
               /\ Len(left) = Len(rssi) - cut
               /\ \A i \in 1 .. Len(left) : left[i] = rssi[i + cut]
<1> DEFINE left == delete_outdated(rssi, now)
           first == FirstKept(rssi, now)
<1>1. Len(rssi) \in Nat /\ first \in 1 .. Len(rssi) + 1
  BY LenProperties, FirstKeptExists
<1>2. \A i \in first .. Len(rssi) : rssi[i] \in RssiSample
  BY <1>1, ElementOfSeq
<1> HIDE DEF first
<1>3. /\ SubSeq(rssi, first, Len(rssi)) \in Seq(RssiSample)
      /\ Len(SubSeq(rssi, first, Len(rssi))) =
            IF first <= Len(rssi) THEN Len(rssi) - first + 1 ELSE 0
      /\ \A i \in 1 .. Len(rssi) - first + 1 :
            SubSeq(rssi, first, Len(rssi))[i] = rssi[first + i - 1]
  BY <1>1, <1>2, SubSeqProperties
<1>4. left = SubSeq(rssi, first, Len(rssi))
  BY DEF delete_outdated, first
<1> HIDE DEF left
<1> QED BY <1>1, <1>3, <1>4 DEF left, first
(* The parts of a list of devices have their types.                        *)
LEMMA EntryTypes ==
    ASSUME NEW d \in Seq(DeviceEntry)
    PROVE  /\ Len(d) \in Nat /\ DOMAIN d = 1 .. Len(d)
           /\ \A i \in DOMAIN d :
                /\ d[i].mac \in MACs
                /\ d[i].rssi \in Seq(RssiSample)
                /\ Len(d[i].rssi) \in Nat
                /\ DOMAIN d[i].rssi = 1 .. Len(d[i].rssi)
                /\ \A k \in DOMAIN d[i].rssi : d[i].rssi[k].date \in Nat
<1>1. Len(d) \in Nat /\ DOMAIN d = 1 .. Len(d)
  BY LenProperties
<1>2. ASSUME NEW i \in DOMAIN d
      PROVE  /\ d[i].mac \in MACs
             /\ d[i].rssi \in Seq(RssiSample)
             /\ Len(d[i].rssi) \in Nat
             /\ DOMAIN d[i].rssi = 1 .. Len(d[i].rssi)
             /\ \A k \in DOMAIN d[i].rssi : d[i].rssi[k].date \in Nat
  <2>1. d[i] \in DeviceEntry
    BY <1>1, ElementOfSeq
  <2>2. d[i].mac \in MACs /\ d[i].rssi \in Seq(RssiSample)
    BY <2>1 DEF DeviceEntry
  <2>3. Len(d[i].rssi) \in Nat /\ DOMAIN d[i].rssi = 1 .. Len(d[i].rssi)
    BY <2>2, LenProperties
  <2>4. \A k \in DOMAIN d[i].rssi : d[i].rssi[k] \in RssiSample
    BY <2>2, <2>3, ElementOfSeq
  <2> QED BY <2>2, <2>3, <2>4 DEF RssiSample
<1> QED BY <1>1, <1>2

(* Appending a sample changes one entry, at its end.                       *)
LEMMA AddSampleReturns ==
    ASSUME NEW d \in Seq(DeviceEntry), NEW dev \in DOMAIN d,
           NEW s \in RssiSample
    PROVE  LET r == add_rssi_sample(d, dev, s)
           IN  /\ r \in Seq(DeviceEntry)
               /\ DOMAIN r = DOMAIN d
               /\ \A i \in DOMAIN d : r[i].mac = d[i].mac
               /\ \A i \in DOMAIN d : i # dev => r[i].rssi = d[i].rssi
               /\ DOMAIN r[dev].rssi = 1 .. Len(d[dev].rssi) + 1
               /\ \A k \in DOMAIN d[dev].rssi : r[dev].rssi[k] = d[dev].rssi[k]
               /\ r[dev].rssi[Len(d[dev].rssi) + 1] = s
               /\ r[dev].rssi = Append(d[dev].rssi, s)
<1> DEFINE e == [d[dev] EXCEPT !.rssi = Append(@, s)]
           r == add_rssi_sample(d, dev, s)
<1>1. d[dev] \in DeviceEntry
  BY ElementOfSeq, LenProperties
<1>2. d[dev].rssi \in Seq(RssiSample)
  BY <1>1 DEF DeviceEntry
<1>3. /\ Append(d[dev].rssi, s) \in Seq(RssiSample)
      /\ DOMAIN Append(d[dev].rssi, s) = 1 .. Len(d[dev].rssi) + 1
      /\ \A k \in 1 .. Len(d[dev].rssi) : Append(d[dev].rssi, s)[k] = d[dev].rssi[k]
      /\ Append(d[dev].rssi, s)[Len(d[dev].rssi) + 1] = s
  BY <1>2, AppendProperties, LenProperties
<1>4. e \in DeviceEntry /\ e.mac = d[dev].mac /\ e.rssi = Append(d[dev].rssi, s)
  BY <1>1, <1>3 DEF DeviceEntry
<1>5. r = [d EXCEPT ![dev] = e]
  BY DEF add_rssi_sample
<1>6. r \in Seq(DeviceEntry) /\ DOMAIN r = DOMAIN d
  BY <1>4, <1>5, ExceptSeq
<1>7. r[dev] = e /\ \A i \in DOMAIN d : i # dev => r[i] = d[i]
  BY <1>5
<1>8. DOMAIN d[dev].rssi = 1 .. Len(d[dev].rssi)
  BY <1>2, LenProperties
<1> HIDE DEF e, r
<1>9. /\ \A i \in DOMAIN d : r[i].mac = d[i].mac
      /\ \A i \in DOMAIN d : i # dev => r[i].rssi = d[i].rssi
      /\ r[dev].rssi = Append(d[dev].rssi, s)
  BY <1>4, <1>7
<1> QED BY <1>3, <1>6, <1>8, <1>9 DEF r

(* A new entry goes behind the others and holds nothing.                   *)
LEMMA AddDeviceReturns ==
    ASSUME NEW d \in Seq(DeviceEntry), NEW m \in MACs
    PROVE  LET r == add_device(d, m)
           IN  /\ r \in Seq(DeviceEntry)
               /\ Len(r) = Len(d) + 1
               /\ \A i \in DOMAIN d : r[i] = d[i]
               /\ r[Len(d) + 1] = [mac |-> m, rssi |-> <<>>]
               /\ added_device(d) \in DOMAIN r
<1>1. [mac |-> m, rssi |-> <<>>] \in DeviceEntry
  BY EmptySeq DEF DeviceEntry
<1>2. Len(d) \in Nat /\ DOMAIN d = 1 .. Len(d) /\ (d # <<>> => Len(d) >= 1)
  BY LenProperties, EmptySeq
<1> DEFINE new == [mac |-> m, rssi |-> <<>>]
<1> HIDE DEF new
<1>3. /\ Append(d, new) \in Seq(DeviceEntry)
      /\ Len(Append(d, new)) = Len(d) + 1
      /\ \A i \in 1 .. Len(d) : Append(d, new)[i] = d[i]
      /\ Append(d, new)[Len(d) + 1] = new
      /\ DOMAIN Append(d, new) = 1 .. Len(d) + 1
  BY <1>1, AppendProperties, LenProperties DEF new
<1>4. added_device(d) \in 1 .. Len(d) + 1
  BY <1>2 DEF added_device
<1> QED BY <1>2, <1>3, <1>4 DEF add_device, new

(* Expiry keeps the entries and cuts a prefix of outdated samples off each.*)
LEMMA DeleteOutdateReturns ==
    ASSUME NEW d \in Seq(DeviceEntry), NEW now \in Nat
    PROVE  LET r == delete_outdate(d, now)
           IN  /\ r \in Seq(DeviceEntry)
               /\ DOMAIN r = DOMAIN d
               /\ \A i \in DOMAIN d :
                    /\ r[i].mac = d[i].mac
                    /\ r[i].rssi = delete_outdated(d[i].rssi, now)
                    /\ d[i].rssi \in Seq(RssiSample)
<1> DEFINE e(i) == [d[i] EXCEPT !.rssi = delete_outdated(@, now)]
<1>1. ASSUME NEW i \in DOMAIN d
      PROVE  /\ d[i].rssi \in Seq(RssiSample)
             /\ e(i) \in DeviceEntry
             /\ e(i).mac = d[i].mac
             /\ e(i).rssi = delete_outdated(d[i].rssi, now)
  <2>1. d[i] \in DeviceEntry
    BY ElementOfSeq, LenProperties
  <2>2. d[i].rssi \in Seq(RssiSample)
    BY <2>1 DEF DeviceEntry
  <2>3. delete_outdated(d[i].rssi, now) \in Seq(RssiSample)
    BY <2>2, DeleteOutdatedReturns
  <2> QED BY <2>1, <2>2, <2>3 DEF DeviceEntry
<1>2. delete_outdate(d, now) = [i \in DOMAIN d |-> e(i)]
  BY DEF delete_outdate
<1> HIDE DEF e
<1>3. DOMAIN d = 1 .. Len(d) /\ Len(d) \in Nat
  BY LenProperties
<1>4. [i \in DOMAIN d |-> e(i)] \in Seq(DeviceEntry)
  BY <1>1, <1>3, IsASeq
<1> QED BY <1>1, <1>2, <1>4
-----------------------------------------------------------------------------
(* What the capture loop keeps of its list.                                *)
Consistent(d, now) ==
    /\ d \in Seq(DeviceEntry)
    /\ OneEntryEach(d)
    /\ OneStrayOfNext(d)
    /\ InDateOrder(d, now)

(* Two lists with the same addresses and samples are the same.             *)
LEMMA ListEqual ==
    ASSUME NEW d \in Seq(DeviceEntry), NEW e \in Seq(DeviceEntry), DOMAIN d = DOMAIN e,
           \A i \in DOMAIN d : d[i].mac = e[i].mac /\ d[i].rssi = e[i].rssi
    PROVE  d = e
<1>1. /\ DOMAIN d = 1 .. Len(d) /\ Len(d) \in Nat
      /\ DOMAIN e = 1 .. Len(e) /\ Len(e) \in Nat
  BY LenProperties
<1>2. Len(d) = Len(e)
  <2> DEFINE m == Len(d)
             n == Len(e)
  <2>1. m \in Nat /\ n \in Nat /\ \A i : i \in 1 .. m <=> i \in 1 .. n
    BY <1>1
  <2> HIDE DEF m, n
  <2>2. m >= 1 => m <= n
    BY <2>1
  <2>3. n >= 1 => n <= m
    BY <2>1
  <2>4. m = n
    BY <2>1, <2>2, <2>3
  <2> QED BY <2>4 DEF m, n
<1>3. ASSUME NEW i \in 1 .. Len(d) PROVE d[i] = e[i]
  <2>1. d[i] \in DeviceEntry /\ e[i] \in DeviceEntry
    BY <1>1, ElementOfSeq
  <2>2. /\ d[i] = [mac |-> d[i].mac, rssi |-> d[i].rssi]
        /\ e[i] = [mac |-> e[i].mac, rssi |-> e[i].rssi]
    BY <2>1 DEF DeviceEntry
  <2>3. d[i].mac = e[i].mac /\ d[i].rssi = e[i].rssi
    BY <1>1
  <2> QED BY <2>2, <2>3
<1> QED BY <1>2, <1>3, SeqEqual

(* A list without a sample that is outdated at the head of an entry is     *)
(* left alone.                                                             *)
LEMMA DeleteOutdateKeeps ==
    ASSUME NEW d \in Seq(DeviceEntry), NEW now \in Nat,
           \A i \in DOMAIN d : d[i].rssi # <<>> => ~Outdated(d[i].rssi[1], now)
    PROVE  delete_outdate(d, now) = d
<1> DEFINE r == delete_outdate(d, now)
<1>1. /\ r \in Seq(DeviceEntry) /\ DOMAIN r = DOMAIN d
      /\ \A i \in DOMAIN d : /\ r[i].mac = d[i].mac
                            /\ r[i].rssi = delete_outdated(d[i].rssi, now)
                            /\ d[i].rssi \in Seq(RssiSample)
  BY DeleteOutdateReturns
<1> HIDE DEF r
<1>2. \A i \in DOMAIN d : r[i].rssi = d[i].rssi
  BY <1>1, DeleteOutdatedKeeps
<1>3. r = d
  BY <1>1, <1>2, ListEqual
<1> QED BY <1>3 DEF r

(* A list stays consistent as time passes.                                 *)
LEMMA LaterIsConsistent ==
    ASSUME NEW d, NEW now \in Nat, NEW later \in Nat, now <= later,
           Consistent(d, now)
    PROVE  Consistent(d, later)
<1>1. InDateOrder(d, later)
  BY EntryTypes DEF Consistent, InDateOrder
<1> QED BY <1>1 DEF Consistent

(* A sample dated now is the last by date wherever it is appended.         *)
LEMMA AddSampleInDateOrder ==
    ASSUME NEW d \in Seq(DeviceEntry), NEW now \in Nat, InDateOrder(d, now),
           NEW dev \in DOMAIN d, NEW s \in RssiSample, s.date = now
    PROVE  InDateOrder(add_rssi_sample(d, dev, s), now)
<1> DEFINE r == add_rssi_sample(d, dev, s)
<1>1. /\ DOMAIN r = DOMAIN d
      /\ \A i \in DOMAIN d : i # dev => r[i].rssi = d[i].rssi
      /\ DOMAIN r[dev].rssi = 1 .. Len(d[dev].rssi) + 1
      /\ \A k \in DOMAIN d[dev].rssi : r[dev].rssi[k] = d[dev].rssi[k]
      /\ r[dev].rssi[Len(d[dev].rssi) + 1] = s
  BY AddSampleReturns
<1>2. /\ Len(d[dev].rssi) \in Nat
      /\ DOMAIN d[dev].rssi = 1 .. Len(d[dev].rssi)
      /\ \A k \in DOMAIN d[dev].rssi : d[dev].rssi[k].date \in Nat
  BY EntryTypes
<1>3. \A k \in DOMAIN d[dev].rssi :
          /\ d[dev].rssi[k].date <= now
          /\ \A j \in 1 .. k : d[dev].rssi[j].date <= d[dev].rssi[k].date
  BY DEF InDateOrder
<1> HIDE DEF r
<1>4. ASSUME NEW k \in DOMAIN r[dev].rssi
      PROVE  /\ r[dev].rssi[k].date <= now
             /\ \A j \in 1 .. k : r[dev].rssi[j].date <= r[dev].rssi[k].date
  <2> DEFINE n == Len(d[dev].rssi)
  <2>1. \A j \in 1 .. n : r[dev].rssi[j] = d[dev].rssi[j]
    BY <1>1, <1>2
  <2>2. CASE k \in 1 .. n
    <3>1. k \in DOMAIN d[dev].rssi /\ r[dev].rssi[k] = d[dev].rssi[k]
      BY <2>1, <2>2, <1>2
    <3>2. \A j \in 1 .. k : j \in 1 .. n
      BY <2>2, <1>2
    <3>3. \A j \in 1 .. k : r[dev].rssi[j] = d[dev].rssi[j]
      BY <2>1, <3>2
    <3> QED BY <3>1, <3>3, <1>3
  <2>3. CASE k = n + 1
    <3>1. r[dev].rssi[k].date = now
      BY <2>3, <1>1
    <3>2. \A j \in 1 .. n : r[dev].rssi[j].date <= now
      BY <2>1, <1>2, <1>3
    <3> QED BY <2>3, <3>1, <3>2, <1>2
  <2> QED BY <2>2, <2>3, <1>1, <1>2
<1>5. \A i \in DOMAIN d : i # dev => r[i].rssi = d[i].rssi
  BY <1>1
<1>6. InDateOrder(r, now)
  BY <1>1, <1>4, <1>5 DEF InDateOrder
<1> QED BY <1>6 DEF r

(* A sample filed under its own station is not a stray and makes none.     *)
LEMMA AddOwnSampleIsConsistent ==
    ASSUME NEW d, NEW now \in Nat, Consistent(d, now), NEW dev \in DOMAIN d,
           NEW s \in RssiSample, s.date = now, s.from = d[dev].mac
    PROVE  Consistent(add_rssi_sample(d, dev, s), now)
<1> DEFINE r == add_rssi_sample(d, dev, s)
<1>0. d \in Seq(DeviceEntry)
  BY DEF Consistent
<1>1. /\ r \in Seq(DeviceEntry)
      /\ DOMAIN r = DOMAIN d
      /\ \A i \in DOMAIN d : r[i].mac = d[i].mac
      /\ \A i \in DOMAIN d : i # dev => r[i].rssi = d[i].rssi
      /\ DOMAIN r[dev].rssi = 1 .. Len(d[dev].rssi) + 1
      /\ \A k \in DOMAIN d[dev].rssi : r[dev].rssi[k] = d[dev].rssi[k]
      /\ r[dev].rssi[Len(d[dev].rssi) + 1] = s
  BY <1>0, AddSampleReturns
<1>2. InDateOrder(r, now)
  BY <1>0, AddSampleInDateOrder DEF Consistent
<1>3. Len(d[dev].rssi) \in Nat /\ DOMAIN d[dev].rssi = 1 .. Len(d[dev].rssi)
  BY <1>0, EntryTypes
<1> HIDE DEF r
<1>4. OneEntryEach(r)
  BY <1>1 DEF Consistent, OneEntryEach
<1>5. \A k \in DOMAIN r[dev].rssi :
          Stray(r, dev, k) => k \in DOMAIN d[dev].rssi
  BY <1>1, <1>3 DEF Stray
<1>6. \A i \in DOMAIN d : \A k \in DOMAIN r[i].rssi :
          Stray(r, i, k) => /\ k \in DOMAIN d[i].rssi
                            /\ r[i].rssi[k] = d[i].rssi[k]
                            /\ Stray(d, i, k)
  BY <1>1, <1>5 DEF Stray
<1>7. OneStrayOfNext(r)
  BY <1>1, <1>6 DEF Consistent, OneStrayOfNext
<1> QED BY <1>1, <1>2, <1>4, <1>7 DEF Consistent, r
(* An entry for a new station keeps a list consistent.                     *)
LEMMA AddDeviceIsConsistent ==
    ASSUME NEW d, NEW now \in Nat, Consistent(d, now), NEW m \in MACs,
           \A i \in DOMAIN d : d[i].mac # m
    PROVE  Consistent(add_device(d, m), now)
<1> DEFINE e == add_device(d, m)
<1>0. d \in Seq(DeviceEntry)
  BY DEF Consistent
<1>1. /\ e \in Seq(DeviceEntry)
      /\ Len(e) = Len(d) + 1
      /\ \A i \in DOMAIN d : e[i] = d[i]
      /\ e[Len(d) + 1] = [mac |-> m, rssi |-> <<>>]
  BY <1>0, AddDeviceReturns
<1> HIDE DEF e
<1>2. Len(d) \in Nat /\ DOMAIN d = 1 .. Len(d) /\ DOMAIN e = 1 .. Len(d) + 1
  BY <1>0, <1>1, EntryTypes
<1>3. e[Len(d) + 1].mac = m /\ DOMAIN e[Len(d) + 1].rssi = {}
  BY <1>1
<1>4. OneEntryEach(e)
  BY <1>1, <1>2, <1>3 DEF Consistent, OneEntryEach
<1>5. OneStrayOfNext(e)
  BY <1>1, <1>2, <1>3 DEF Consistent, OneStrayOfNext, Stray
<1>6. InDateOrder(e, now)
  BY <1>1, <1>2, <1>3 DEF Consistent, InDateOrder
<1> QED BY <1>1, <1>4, <1>5, <1>6 DEF Consistent, e

(* The first sample of a new station: its own entry's when the list was    *)
(* empty, else the only stray of what was the last entry.                  *)
LEMMA AddNewIsConsistent ==
    ASSUME NEW d, NEW now \in Nat, Consistent(d, now),
           NEW s \in RssiSample, s.date = now, s.from \in MACs,
           \A i \in DOMAIN d : d[i].mac # s.from
    PROVE  Consistent(add_rssi_sample(add_device(d, s.from),
                                      added_device(d), s), now)
<1> DEFINE e == add_device(d, s.from)
           n == Len(d)
           r == add_rssi_sample(e, n, s)
<1>0. d \in Seq(DeviceEntry)
  BY DEF Consistent
<1>1. /\ e \in Seq(DeviceEntry)
      /\ Len(e) = n + 1
      /\ \A i \in DOMAIN d : e[i] = d[i]
      /\ e[n + 1] = [mac |-> s.from, rssi |-> <<>>]
  BY <1>0, AddDeviceReturns
<1>2. Consistent(e, now)
  BY AddDeviceIsConsistent
<1>3. n \in Nat /\ DOMAIN d = 1 .. n /\ DOMAIN e = 1 .. n + 1
  BY <1>0, <1>1, EntryTypes
<1> HIDE DEF e
<1>4. CASE d = <<>>
  <2>1. n = 0 /\ added_device(d) = 1
    BY <1>4 DEF added_device
  <2>2. 1 \in DOMAIN e /\ e[1].mac = s.from
    BY <2>1, <1>1, <1>3
  <2>3. Consistent(add_rssi_sample(e, 1, s), now)
    BY <2>2, <1>2, AddOwnSampleIsConsistent
  <2> QED BY <2>1, <2>3 DEF e
<1>5. CASE d # <<>>
  <2>1. n \in 1 .. n /\ n \in DOMAIN e /\ added_device(d) = n
    BY <1>0, <1>3, <1>5, EmptySeq DEF added_device
  <2>2. /\ r \in Seq(DeviceEntry)
        /\ DOMAIN r = DOMAIN e
        /\ \A i \in DOMAIN e : r[i].mac = e[i].mac
        /\ \A i \in DOMAIN e : i # n => r[i].rssi = e[i].rssi
        /\ DOMAIN r[n].rssi = 1 .. Len(e[n].rssi) + 1
        /\ \A k \in DOMAIN e[n].rssi : r[n].rssi[k] = e[n].rssi[k]
        /\ r[n].rssi[Len(e[n].rssi) + 1] = s
    BY <1>1, <2>1, AddSampleReturns
  <2>3. InDateOrder(r, now)
    BY <1>1, <1>2, <2>1, AddSampleInDateOrder DEF Consistent
  <2> HIDE DEF r
  <2>4. OneEntryEach(r)
    BY <1>2, <2>2 DEF Consistent, OneEntryEach
  <2>5. OneStrayOfNext(r)
    <3>1. /\ Len(e[n].rssi) \in Nat
          /\ DOMAIN e[n].rssi = 1 .. Len(e[n].rssi)
      BY <1>1, <2>1, EntryTypes
    <3>2. \A k \in DOMAIN e[n].rssi : ~Stray(e, n, k)
      \* d[n] is the last entry of d, and e[n] is d[n].
      BY <1>1, <1>3, <2>1 DEF Consistent, OneStrayOfNext, Stray
    <3>3. \A k \in DOMAIN r[n].rssi :
              Stray(r, n, k) => k = Len(e[n].rssi) + 1
      BY <2>1, <2>2, <3>1, <3>2 DEF Stray
    <3>4. /\ n + 1 \in DOMAIN r /\ r[n + 1].mac = s.from
          /\ r[n].rssi[Len(e[n].rssi) + 1].from = s.from
      BY <1>1, <1>3, <2>2
    <3>5. \A k \in DOMAIN r[n].rssi : Stray(r, n, k) =>
              /\ n + 1 \in DOMAIN r
              /\ r[n].rssi[k].from = r[n + 1].mac
              /\ \A j \in DOMAIN r[n].rssi : Stray(r, n, j) => j = k
      BY <3>3, <3>4
    <3>6. ASSUME NEW i \in DOMAIN r, i # n, NEW k \in DOMAIN r[i].rssi,
                 Stray(r, i, k)
          PROVE  /\ i + 1 \in DOMAIN r
                 /\ r[i].rssi[k].from = r[i + 1].mac
                 /\ \A j \in DOMAIN r[i].rssi : Stray(r, i, j) => j = k
      <4>1. i \in DOMAIN e /\ r[i].rssi = e[i].rssi /\ r[i].mac = e[i].mac
        BY <2>2, <3>6
      <4>2. \A j \in DOMAIN r[i].rssi : Stray(r, i, j) <=> Stray(e, i, j)
        BY <4>1 DEF Stray
      <4>3. /\ i + 1 \in DOMAIN e
            /\ e[i].rssi[k].from = e[i + 1].mac
            /\ \A j \in DOMAIN e[i].rssi : Stray(e, i, j) => j = k
        BY <1>2, <3>6, <4>1, <4>2 DEF Consistent, OneStrayOfNext
      <4> QED BY <2>2, <4>1, <4>2, <4>3
    <3> QED BY <3>5, <3>6 DEF OneStrayOfNext
  <2> QED BY <2>1, <2>2, <2>3, <2>4, <2>5 DEF Consistent, r, e
<1> QED BY <1>4, <1>5

(* Expiry cuts a prefix off every entry.                                   *)
LEMMA DeleteOutdateIsConsistent ==
    ASSUME NEW d, NEW now \in Nat, Consistent(d, now)
    PROVE  Consistent(delete_outdate(d, now), now)
<1> DEFINE r == delete_outdate(d, now)
           cut(i) == FirstKept(d[i].rssi, now) - 1
<1>0. d \in Seq(DeviceEntry)
  BY DEF Consistent
<1>1. /\ r \in Seq(DeviceEntry)
      /\ DOMAIN r = DOMAIN d
      /\ \A i \in DOMAIN d : r[i].mac = d[i].mac
  BY <1>0, DeleteOutdateReturns
<1>2. ASSUME NEW i \in DOMAIN d
      PROVE  /\ cut(i) \in Nat
             /\ DOMAIN r[i].rssi \subseteq Nat \ {0}
             /\ \A k \in DOMAIN r[i].rssi :
                  /\ k + cut(i) \in DOMAIN d[i].rssi
                  /\ r[i].rssi[k] = d[i].rssi[k + cut(i)]
  <2>1. d[i].rssi \in Seq(RssiSample) /\ r[i].rssi = delete_outdated(d[i].rssi, now)
    BY <1>0, DeleteOutdateReturns
  <2> HIDE DEF r
  <2>2. /\ r[i].rssi \in Seq(RssiSample)
        /\ cut(i) \in 0 .. Len(d[i].rssi)
        /\ Len(r[i].rssi) = Len(d[i].rssi) - cut(i)
        /\ \A k \in 1 .. Len(r[i].rssi) : r[i].rssi[k] = d[i].rssi[k + cut(i)]
    BY <2>1, DeleteOutdatedReturns
  <2>3. /\ Len(d[i].rssi) \in Nat /\ DOMAIN d[i].rssi = 1 .. Len(d[i].rssi)
        /\ DOMAIN r[i].rssi = 1 .. Len(r[i].rssi)
    BY <2>1, <2>2, LenProperties
  <2> HIDE DEF cut
  <2> QED BY <2>2, <2>3
<1> HIDE DEF r, cut
<1>3. OneEntryEach(r)
  BY <1>1 DEF Consistent, OneEntryEach
<1>4. OneStrayOfNext(r)
  <2>1. ASSUME NEW i \in DOMAIN r, NEW k \in DOMAIN r[i].rssi, Stray(r, i, k)
        PROVE  /\ i + 1 \in DOMAIN r
               /\ r[i].rssi[k].from = r[i + 1].mac
               /\ \A j \in DOMAIN r[i].rssi : Stray(r, i, j) => j = k
    <3>1. \A j \in DOMAIN r[i].rssi : Stray(r, i, j) <=> Stray(d, i, j + cut(i))
      BY <1>1, <1>2 DEF Stray
    <3>2. \A j \in DOMAIN r[i].rssi : Stray(r, i, j) => j + cut(i) = k + cut(i)
      BY <1>1, <1>2, <2>1, <3>1 DEF Consistent, OneStrayOfNext
    <3>3. \A j \in DOMAIN r[i].rssi : Stray(r, i, j) => j = k
      BY <1>1, <1>2, <3>2
    <3> QED BY <1>1, <1>2, <2>1, <3>1, <3>3 DEF Consistent, OneStrayOfNext
  <2> QED BY <2>1 DEF OneStrayOfNext
<1>5. InDateOrder(r, now)
  <2>1. ASSUME NEW i \in DOMAIN r, NEW k \in DOMAIN r[i].rssi
        PROVE  /\ r[i].rssi[k].date <= now
               /\ \A j \in 1 .. k : r[i].rssi[j].date <= r[i].rssi[k].date
    <3>1. \A j \in 1 .. k : j \in DOMAIN r[i].rssi
      BY <1>1, EntryTypes
    <3>2. \A j \in 1 .. k : j + cut(i) \in 1 .. k + cut(i)
      BY <1>1, <1>2
    <3>3. /\ k + cut(i) \in DOMAIN d[i].rssi
          /\ \A j \in 1 .. k : r[i].rssi[j] = d[i].rssi[j + cut(i)]
          /\ r[i].rssi[k] = d[i].rssi[k + cut(i)]
      BY <1>1, <1>2, <3>1
    <3>4. /\ d[i].rssi[k + cut(i)].date <= now
          /\ \A j \in 1 .. k + cut(i) :
                d[i].rssi[j].date <= d[i].rssi[k + cut(i)].date
      BY <1>1, <3>3 DEF Consistent, InDateOrder
    <3> QED BY <3>2, <3>3, <3>4
  <2> QED BY <2>1 DEF InDateOrder
<1> QED BY <1>1, <1>3, <1>4, <1>5 DEF Consistent, r

(* What expiry leaves are the samples that are not outdated: behind the    *)
(* first one that is kept, none is older.                                  *)
LEMMA DeleteOutdateIsExact ==
    ASSUME NEW d, NEW now \in Nat, Consistent(d, now), NEW i \in DOMAIN d
    PROVE  LET r == delete_outdate(d, now)
           IN  {r[i].rssi[k] : k \in DOMAIN r[i].rssi} = Fresh(d[i].rssi, now)
<1> DEFINE left == delete_outdated(d[i].rssi, now)
           first == FirstKept(d[i].rssi, now)
           n == Len(d[i].rssi)
<1>0. d \in Seq(DeviceEntry)
  BY DEF Consistent
<1>1. delete_outdate(d, now)[i].rssi = left /\ d[i].rssi \in Seq(RssiSample)
  BY <1>0, DeleteOutdateReturns
<1>2. /\ n \in Nat
      /\ DOMAIN d[i].rssi = 1 .. n
      /\ \A k \in 1 .. n : d[i].rssi[k].date \in Nat
  BY <1>0, EntryTypes
<1>3. /\ first \in 1 .. n + 1
      /\ \A j \in 1 .. first - 1 : Outdated(d[i].rssi[j], now)
      /\ first <= n => ~Outdated(d[i].rssi[first], now)
  BY <1>1, FirstKeptExists
<1>4. /\ left \in Seq(RssiSample)
      /\ Len(left) = n - (first - 1)
      /\ \A k \in 1 .. Len(left) : left[k] = d[i].rssi[k + (first - 1)]
  BY <1>1, DeleteOutdatedReturns
<1>5. DOMAIN left = 1 .. Len(left)
  BY <1>4, LenProperties
<1> HIDE DEF left, first
<1>6. \A k \in first .. n : ~Outdated(d[i].rssi[k], now)
  <2>1. \A k \in first .. n : d[i].rssi[first].date <= d[i].rssi[k].date
    BY <1>2, <1>3 DEF Consistent, InDateOrder
  <2> QED BY <1>2, <1>3, <2>1 DEF Outdated
<1>7. \A k \in DOMAIN d[i].rssi : ~Outdated(d[i].rssi[k], now) <=> k \in first .. n
  BY <1>2, <1>3, <1>6
<1>8. Fresh(d[i].rssi, now) = {d[i].rssi[k] : k \in first .. n}
  BY <1>2, <1>3, <1>7 DEF Fresh
<1>9. {left[k] : k \in DOMAIN left} = {d[i].rssi[k] : k \in first .. n}
  <2> HIDE DEF n
  <2>1. \A k \in DOMAIN left : left[k] = d[i].rssi[k + (first - 1)]
    BY <1>4, <1>5
  <2>2. \A k \in DOMAIN left : k + (first - 1) \in first .. n
    BY <1>2, <1>3, <1>4, <1>5
  <2>3. \A k \in first .. n : k - (first - 1) \in DOMAIN left
    BY <1>2, <1>3, <1>4, <1>5
  <2>4. \A k \in first .. n : (k - (first - 1)) + (first - 1) = k
    BY <1>2, <1>3
  <2> QED BY <2>1, <2>2, <2>3, <2>4
<1> QED BY <1>1, <1>8, <1>9
=============================================================================
