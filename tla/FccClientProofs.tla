-------------------------- MODULE FccClientProofs --------------------------
(***************************************************************************)
(* Proofs about FccClient, for every width of the sequence number, every    *)
(* queue length, wait and length of the stream.                             *)
(***************************************************************************)
EXTENDS FccClient, SequenceTheorems, TLAPS

\* The client between and within calls of fcc_client_read.
Clients == [done : BOOLEAN, rejected : BOOLEAN, terminating : BOOLEAN, firstMc : Int,
            lastOsn : Int \cup {None}, queue : Seq(Packets), pending : Packets \cup {None}]
MaybePacket == Packets \cup {None}

\* The last packet handed to the caller once the pending one is.
Current(x, la) == IF x.pending # None THEN x.pending ELSE la

\* Client x within a read, with lv and bu the last packets received from the
\* channel and from the server and la the last one handed to the caller.
Types(x, lv, bu, la) ==
  /\ x \in Clients
  /\ lv \in MaybePacket /\ bu \in MaybePacket /\ la \in MaybePacket

\* The buffer is in the channel's order and starts where RAMS-T said.
Buffer(x, lv) ==
  /\ x.terminating <=> lv # None
  /\ ~x.terminating => x.queue = <<>>
  /\ x.terminating /\ ~x.done => x.queue # <<>> /\ x.firstMc = Osn(x.queue[1])
  /\ \A i \in 1..Len(x.queue) : First + i <= x.queue[i] /\ x.queue[i] <= lv
  /\ \A i, j \in 1..Len(x.queue) : i < j => x.queue[i] < x.queue[j]

\* What the client remembers of the burst.
Burst(x, bu, la) ==
  ~x.done => /\ Current(x, la) # None => x.lastOsn = Osn(Current(x, la))
             /\ Current(x, la) = None => x.lastOsn = None
             /\ ~x.terminating => Current(x, la) = bu
             /\ Current(x, la) # None => bu # None /\ Current(x, la) <= bu

\* The burst stays before the buffer, and the packet ct that found no room
\* comes after it.
Ahead(x, la, ct) ==
  /\ x.queue # <<>> /\ la # None => la < x.queue[1]
  /\ x.queue # <<>> /\ x.pending # None /\ x.pending # ct => x.pending < x.queue[1]
  /\ x.pending # None /\ la # None => la < x.pending
  /\ ct # None => x.done /\ \A i \in 1..Len(x.queue) : x.queue[i] < ct

\* Nothing lost so far: burst and buffer are without holes and, once the
\* client has cut over, the buffer continues the burst.
Whole(x, lv, bu, la) ==
  /\ x.pending # None => x.pending = IF la = None THEN First ELSE la + 1
  /\ \A i \in 1..Len(x.queue) : x.queue[i] = x.queue[1] + (i - 1)
  /\ x.terminating /\ ~x.done => lv = x.queue[Len(x.queue)]
  /\ x.done /\ x.queue # <<>> => Current(x, la) # None /\ x.queue[1] = Current(x, la) + 1
  /\ ~x.done => Current(x, la) = bu

\* All of it, with ls if something was lost.
Client(x, lv, bu, la, ls, ct) ==
  /\ Types(x, lv, bu, la) /\ Buffer(x, lv) /\ Burst(x, bu, la) /\ Ahead(x, la, ct)
  /\ ~ls => Whole(x, lv, bu, la) /\ ct = None

\* The splice has been checked.
Checked(x) == x.terminating /\ ~x.done => ~BurstReached(x)

\* Between two reads.
ReadInv ==
  ~closed => /\ r.pending = None
             /\ r.done => r.queue # <<>>
             /\ Client(r, live, burst, last, lost, cut) /\ Checked(r)

IInv ==
  /\ {closed, back, hole, lost} \subseteq BOOLEAN /\ clock \in Nat
  /\ last \in MaybePacket /\ cut \in MaybePacket
  /\ ReadInv
  /\ ~back
  /\ ~lost => ~hole

(***************************************************************************)
(* Sequence numbers.                                                        *)
(***************************************************************************)

\* The bounds are natural numbers and NULL is no packet.
LEMMA ConstFacts ==
  /\ SeqSpace \in Nat /\ QueueSlots \in Nat /\ Wait \in Nat /\ First \in Nat /\ MaxNum \in Nat
  /\ MaxNum - First < SeqSpace \div 2
  /\ None \notin Packets /\ None \notin Int
  /\ \A n \in Packets : n \in Int /\ First <= n /\ n <= MaxNum
BY BoundAssumption, NoneAssumption DEF Packets

\* Half of the sequence space.
LEMMA HalfFacts ==
  ASSUME NEW n \in Packets
  PROVE  /\ SeqSpace \in Nat \ {0}
         /\ SeqSpace \div 2 \in Nat /\ 2 * (SeqSpace \div 2) <= SeqSpace
BY ConstFacts

\* The residue a multiple of the modulus away.
LEMMA ModShift ==
  ASSUME NEW S \in Nat \ {0}, NEW q \in Int, NEW m \in 0..(S - 1)
  PROVE  (S * q + m) % S = m
OBVIOUS

\* A number and its residue.
LEMMA DivMod ==
  ASSUME NEW S \in Nat \ {0}, NEW a \in Int
  PROVE  a = S * (a \div S) + (a % S) /\ a % S \in 0..(S - 1) /\ a \div S \in Int
OBVIOUS

\* The signed 16 bit difference is the difference of the packets' numbers as
\* long as they are less than half of the space apart.
LEMMA DiffExact ==
  ASSUME SeqSpace \in Nat \ {0}, NEW a \in Int, NEW b \in Int, NEW d \in Int, NEW k \in Int,
         a - b = SeqSpace * k + d,
         d < SeqSpace \div 2, 0 - d < SeqSpace \div 2
  PROVE  Diff(a, b) = d
<1> DEFINE H == SeqSpace \div 2
<1>1. H \in Nat /\ 2 * H <= SeqSpace
  OBVIOUS
<1> HIDE DEF H
<1>2. CASE d >= 0
  <2>1. d \in 0..(SeqSpace - 1)
    BY <1>1, <1>2 DEF H
  <2>2. (a - b) % SeqSpace = d
    BY <2>1, ModShift
  <2>3. ~(d >= SeqSpace \div 2)
    BY <1>1 DEF H
  <2>4. QED BY <2>2, <2>3 DEF Diff
<1>3. CASE d < 0
  <2>1. d + SeqSpace \in 0..(SeqSpace - 1)
    BY <1>1, <1>3 DEF H
  <2>2. a - b = SeqSpace * (k - 1) + (d + SeqSpace)
    <3>1. SeqSpace * (k - 1) = SeqSpace * k - SeqSpace
      OBVIOUS
    <3>2. SeqSpace * k \in Int
      OBVIOUS
    <3>3. QED BY <3>1, <3>2
  <2>3. (a - b) % SeqSpace = d + SeqSpace
    <3>1. k - 1 \in Int
      OBVIOUS
    <3>2. (SeqSpace * (k - 1) + (d + SeqSpace)) % SeqSpace = d + SeqSpace
      BY <2>1, <3>1, ModShift
    <3>3. QED BY <2>2, <3>2
  <2>4. d + SeqSpace >= SeqSpace \div 2
    BY <1>1, <1>3 DEF H
  <2>5. QED BY <2>3, <2>4 DEF Diff
<1>4. QED BY <1>2, <1>3

\* fcc_on_uni's test tells packets before the first multicast one from the rest,
\* and fcc_check_splice's test finds the packet right before it.
LEMMA SpliceTests ==
  ASSUME NEW n \in Packets, NEW f \in Packets
  PROVE  /\ Osn(n) \in Int
         /\ Diff(Osn(n), Osn(f)) >= 0 <=> n >= f
         /\ n < f => (Diff(Osn(n) + 1, Osn(f)) >= 0 <=> n + 1 = f)
<1>1. /\ SeqSpace \in Nat \ {0} /\ n \in Int /\ f \in Int
      /\ n - f < SeqSpace \div 2 /\ f - n < SeqSpace \div 2
  BY ConstFacts, HalfFacts
<1>2. PICK p \in Int : Osn(n) = n - SeqSpace * p /\ Osn(n) \in Int
  <2>1. /\ n = SeqSpace * (n \div SeqSpace) + (n % SeqSpace)
        /\ n % SeqSpace \in Int /\ n \div SeqSpace \in Int
    BY <1>1, DivMod
  <2>2. PICK p \in Int : p = n \div SeqSpace
    BY <2>1
  <2>3. SeqSpace * p \in Int
    BY <1>1
  <2>4. n % SeqSpace = n - SeqSpace * p
    BY <1>1, <2>1, <2>2, <2>3
  <2>5. QED BY <2>1, <2>4 DEF Osn
<1>3. PICK q \in Int : Osn(f) = f - SeqSpace * q /\ Osn(f) \in Int
  <2>1. /\ f = SeqSpace * (f \div SeqSpace) + (f % SeqSpace)
        /\ f % SeqSpace \in Int /\ f \div SeqSpace \in Int
    BY <1>1, DivMod
  <2>2. PICK q \in Int : q = f \div SeqSpace
    BY <2>1
  <2>3. SeqSpace * q \in Int
    BY <1>1
  <2>4. f % SeqSpace = f - SeqSpace * q
    BY <1>1, <2>1, <2>2, <2>3
  <2>5. QED BY <2>1, <2>4 DEF Osn
<1>4. Osn(n) - Osn(f) = SeqSpace * (q - p) + (n - f)
  <2>1. SeqSpace * (q - p) = SeqSpace * q - SeqSpace * p /\ SeqSpace * q \in Int /\ SeqSpace * p \in Int
    BY <1>1
  <2>2. PICK y \in Int : y = SeqSpace * p
    BY <2>1
  <2>3. PICK z \in Int : z = SeqSpace * q
    BY <2>1
  <2>4. Osn(n) = n - y /\ Osn(f) = f - z /\ SeqSpace * (q - p) = z - y
    BY <1>2, <1>3, <2>1, <2>2, <2>3
  <2>5. QED BY <1>1, <2>4
<1>5. Diff(Osn(n), Osn(f)) = n - f
  <2>1. n - f \in Int /\ q - p \in Int /\ 0 - (n - f) < SeqSpace \div 2
    BY <1>1, HalfFacts
  <2>2. PICK a \in Int, b \in Int, d \in Int, k \in Int :
          a = Osn(n) /\ b = Osn(f) /\ d = n - f /\ k = q - p
    BY <1>2, <1>3, <2>1
  <2>3. a - b = SeqSpace * k + d /\ d < SeqSpace \div 2 /\ 0 - d < SeqSpace \div 2
    BY <1>1, <1>4, <2>1, <2>2
  <2>4. Diff(a, b) = d
    BY <1>1, <2>3, DiffExact
  <2>5. QED BY <2>2, <2>4
<1>6. ASSUME n < f PROVE Diff(Osn(n) + 1, Osn(f)) = (n + 1) - f
  <2>1. (Osn(n) + 1) - Osn(f) = SeqSpace * (q - p) + ((n + 1) - f)
    <3>1. SeqSpace * (q - p) \in Int
      BY <1>1
    <3>2. PICK y \in Int : y = SeqSpace * (q - p)
      BY <3>1
    <3>3. PICK u \in Int, v \in Int : u = Osn(n) /\ v = Osn(f)
      BY <1>2, <1>3
    <3>4. u - v = y + (n - f)
      BY <1>4, <3>2, <3>3
    <3>5. (u + 1) - v = y + ((n + 1) - f)
      BY <1>1, <3>4
    <3>6. QED BY <3>2, <3>3, <3>5
  <2>2. /\ (n + 1) - f \in Int /\ Osn(n) + 1 \in Int /\ q - p \in Int
        /\ (n + 1) - f < SeqSpace \div 2 /\ 0 - ((n + 1) - f) < SeqSpace \div 2
    BY <1>1, <1>2, <1>6, HalfFacts
  <2>3. PICK a \in Int, b \in Int, d \in Int, k \in Int :
          a = Osn(n) + 1 /\ b = Osn(f) /\ d = (n + 1) - f /\ k = q - p
    BY <1>2, <1>3, <2>2
  <2>4. a - b = SeqSpace * k + d /\ d < SeqSpace \div 2 /\ 0 - d < SeqSpace \div 2
    BY <2>1, <2>2, <2>3
  <2>5. Diff(a, b) = d
    BY <1>1, <2>4, DiffExact
  <2>6. QED BY <2>3, <2>5
<1>7. QED BY <1>1, <1>2, <1>5, <1>6


(***************************************************************************)
(* The steps of one fcc_client_read.                                        *)
(***************************************************************************)

\* The fields of a client.
LEMMA Fields ==
  ASSUME NEW x \in Clients
  PROVE  /\ x.done \in BOOLEAN /\ x.rejected \in BOOLEAN /\ x.terminating \in BOOLEAN
         /\ x.firstMc \in Int /\ x.lastOsn \in Int \cup {None}
         /\ x.queue \in Seq(Packets) /\ x.pending \in Packets \cup {None}
         /\ Len(x.queue) \in Nat /\ (x.queue # <<>> => 1 \in 1..Len(x.queue))
         /\ \A i \in 1..Len(x.queue) : x.queue[i] \in Packets
<1>1. x.queue \in Seq(Packets)
  BY DEF Clients
<1>2. Len(x.queue) \in Nat /\ (x.queue # <<>> => Len(x.queue) # 0)
  BY <1>1, EmptySeq
<1>3. \A i \in 1..Len(x.queue) : x.queue[i] \in Packets
  BY <1>1, ElementOfSeq
<1>4. QED BY <1>1, <1>2, <1>3 DEF Clients

\* fcc_check_splice cuts over where the burst meets the buffer, or gives up.
LEMMA CheckSpliceKeeps ==
  ASSUME NEW x, NEW lv, NEW bu, NEW la, NEW ls \in BOOLEAN, NEW t \in Nat, NEW ct,
         Client(x, lv, bu, la, ls, ct), x.terminating /\ Waited(t) => ls
  PROVE  /\ Client(CheckSplice(x, t), lv, bu, la, ls, ct)
         /\ Checked(CheckSplice(x, t))
         /\ CheckSplice(x, t).terminating = x.terminating
<1>1. CASE ~(x.terminating /\ ~x.done /\ (BurstReached(x) \/ Waited(t)))
  <2>1. CheckSplice(x, t) = x
    BY <1>1 DEF CheckSplice
  <2>2. QED BY <1>1, <2>1 DEF Checked
<1>2. CASE x.terminating /\ ~x.done /\ (BurstReached(x) \/ Waited(t))
  <2> DEFINE y == CheckSplice(x, t)
  <2>1. y = [x EXCEPT !.done = TRUE]
    BY <1>2 DEF CheckSplice
  <2>2. x \in Clients /\ Types(x, lv, bu, la) /\ Buffer(x, lv)
    BY DEF Client, Types
  <2>3. /\ y \in Clients /\ y.done /\ y.terminating = x.terminating /\ y.queue = x.queue
        /\ y.pending = x.pending /\ y.firstMc = x.firstMc /\ y.lastOsn = x.lastOsn
    BY <2>1, <2>2 DEF Clients
  <2> HIDE DEF y
  <2>4. Current(y, la) = Current(x, la)
    BY <2>3 DEF Current
  <2>5. Types(y, lv, bu, la) /\ Buffer(y, lv) /\ Burst(y, bu, la) /\ Checked(y)
    BY <2>2, <2>3, <1>2 DEF Types, Buffer, Burst, Checked
  <2>6. Ahead(y, la, ct)
    BY <2>3 DEF Ahead, Client
  <2>7. ASSUME ~ls PROVE Whole(y, lv, bu, la)
    <3>1. Whole(x, lv, bu, la) /\ Ahead(x, la, ct) /\ Burst(x, bu, la) /\ ct = None
      BY <2>7 DEF Client
    <3>2. BurstReached(x)
      BY <1>2, <2>7
    <3>3. Current(x, la) # None /\ x.queue # <<>> /\ x.firstMc = Osn(x.queue[1])
          /\ x.lastOsn = Osn(Current(x, la))
      BY <1>2, <2>2, <3>1, <3>2 DEF Burst, Buffer, BurstReached
    <3>4. Current(x, la) \in Packets /\ x.queue[1] \in Packets
      BY <2>2, <3>3, Fields DEF Types, Current, MaybePacket
    <3>5. Current(x, la) < x.queue[1]
      BY <3>1, <3>3 DEF Ahead, Current
    <3>6. Current(x, la) + 1 = x.queue[1]
      BY <3>2, <3>3, <3>4, <3>5, SpliceTests DEF BurstReached
    <3>7. QED BY <2>3, <2>4, <3>1, <3>3, <3>6 DEF Whole
  <2>8. QED BY <2>3, <2>5, <2>6, <2>7 DEF Client, y
<1>3. QED BY <1>1, <1>2

\* fcc_on_multicast keeps the buffer in order; without room it cuts over.
LEMMA OnMulticastKeeps ==
  ASSUME NEW x, NEW lv, NEW bu, NEW la, NEW ls \in BOOLEAN, NEW ls2 \in BOOLEAN, NEW t \in Nat,
         NEW m \in Packets,
         Client(x, lv, bu, la, ls, None), ~x.done, x.pending = None,
         lv # None => m > lv,
         lv = None /\ bu # None => m > bu,
         lv = None => m > First,
         ls => ls2, lv # None /\ m # lv + 1 => ls2, ~Room(x, m) => ls2, Waited(t) => ls2
  PROVE  /\ Client(OnMulticast(x, m, t), m, bu, la, ls2, IF Room(x, m) THEN None ELSE m)
         /\ Checked(OnMulticast(x, m, t))
         /\ OnMulticast(x, m, t).terminating
         /\ ~OnMulticast(x, m, t).done => OnMulticast(x, m, t).pending = None
<1> DEFINE y == IF x.terminating THEN x ELSE [x EXCEPT !.terminating = TRUE, !.firstMc = Osn(m)]
<1>1. x \in Clients /\ Types(x, lv, bu, la) /\ Buffer(x, lv) /\ Burst(x, bu, la)
  BY DEF Client, Types
<1>2. Osn(m) \in Int
  BY SpliceTests
<1>3. /\ y \in Clients /\ y.terminating /\ ~y.done /\ y.queue = x.queue /\ y.pending = None
      /\ y.lastOsn = x.lastOsn
      /\ y.firstMc = IF x.terminating THEN x.firstMc ELSE Osn(m)
  BY <1>1, <1>2 DEF Clients
<1>4. Room(y, m) <=> Room(x, m)
  BY <1>3 DEF Room
<1>5. OnMulticast(x, m, t) =
        IF ~Room(y, m) THEN [y EXCEPT !.done = TRUE, !.pending = IF @ = None THEN m ELSE @]
        ELSE CheckSplice([y EXCEPT !.queue = Append(@, m)], t)
  BY DEF OnMulticast
<1> HIDE DEF y
<1>6. x.queue \in Seq(Packets) /\ Len(x.queue) \in Nat
  BY <1>1, Fields
<1>7. /\ \A i \in 1..Len(x.queue) : x.queue[i] \in Packets
      /\ \A i \in 1..Len(x.queue) : First + i <= x.queue[i] /\ x.queue[i] <= lv /\ x.queue[i] < m
  <2>1. \A i \in 1..Len(x.queue) : x.queue[i] \in Packets
    BY <1>1, Fields
  <2>2. \A i \in 1..Len(x.queue) : First + i <= x.queue[i] /\ x.queue[i] <= lv
    BY <1>1 DEF Buffer
  <2>3. x.queue # <<>> => lv # None
    BY <1>1 DEF Buffer
  <2>4. lv # None => lv \in Int /\ lv < m
    BY <1>1, ConstFacts DEF Types, MaybePacket
  <2>5. Len(x.queue) > 0 => x.queue # <<>>
    BY <1>6
  <2>6. QED
    <3>1. SUFFICES ASSUME NEW i \in 1..Len(x.queue) PROVE x.queue[i] < m
      BY <2>1, <2>2
    <3>2. lv \in Int /\ lv < m
      BY <1>6, <2>3, <2>4, <2>5
    <3>3. x.queue[i] \in Int /\ x.queue[i] <= lv /\ m \in Int
      BY <2>1, <2>2, ConstFacts
    <3>4. QED BY <3>2, <3>3
<1>8. CASE ~Room(x, m)
  <2> DEFINE z == [y EXCEPT !.done = TRUE, !.pending = IF @ = None THEN m ELSE @]
  <2>1. OnMulticast(x, m, t) = z
    BY <1>4, <1>5, <1>8
  <2>2. /\ z \in Clients /\ z.done /\ z.terminating /\ z.queue = x.queue /\ z.pending = m
    BY <1>3 DEF Clients
  <2> HIDE DEF z
  <2>3. Types(z, m, bu, la) /\ Burst(z, bu, la) /\ Checked(z)
    BY <1>1, <2>2 DEF Types, Burst, Checked, MaybePacket
  <2>4. Buffer(z, m)
    <3>1. \A i \in 1..Len(x.queue) : x.queue[i] <= m
      BY <1>7, ConstFacts
    <3>2. QED BY <1>1, <1>7, <2>2, <3>1, ConstFacts DEF Buffer
  <2>5. Ahead(z, la, m)
    <3>1. Ahead(x, la, None) /\ Current(x, la) = la
      BY DEF Client, Current
    <3>2. la # None => la < m
      <4>1. SUFFICES ASSUME la # None PROVE la < m
        OBVIOUS
      <4>2. CASE x.terminating
        <5>1. x.queue # <<>> /\ 1 \in 1..Len(x.queue)
          BY <4>2, <1>1, Fields DEF Buffer
        <5>2. la < x.queue[1] /\ x.queue[1] < m
          BY <4>1, <5>1, <3>1, <1>7 DEF Ahead
        <5>3. la \in Int /\ x.queue[1] \in Int /\ m \in Int
          BY <4>1, <5>1, <1>1, <1>7, ConstFacts DEF Types, MaybePacket
        <5>4. QED BY <5>2, <5>3
      <4>3. CASE ~x.terminating
        <5>1. bu = la /\ lv = None
          BY <4>3, <3>1, <1>1 DEF Burst, Buffer
        <5>2. QED BY <4>1, <5>1, <1>1, ConstFacts DEF Types, MaybePacket
      <4>4. QED BY <4>2, <4>3, <1>1, Fields
    <3>3. \A i \in 1..Len(x.queue) : x.queue[i] < m
      BY <1>7
    <3>4. QED BY <2>2, <3>1, <3>2, <3>3 DEF Ahead
  <2>6. QED BY <1>8, <2>1, <2>2, <2>3, <2>4, <2>5 DEF Client
<1>9. CASE Room(x, m)
  <2> DEFINE z == [y EXCEPT !.queue = Append(@, m)]
  <2>1. OnMulticast(x, m, t) = CheckSplice(z, t)
    BY <1>4, <1>5, <1>9
  <2>2. /\ Append(x.queue, m) \in Seq(Packets) /\ Append(x.queue, m) # <<>>
        /\ Len(Append(x.queue, m)) = Len(x.queue) + 1
        /\ \A i \in 1..Len(x.queue) : Append(x.queue, m)[i] = x.queue[i]
        /\ Append(x.queue, m)[Len(x.queue) + 1] = m
    BY <1>6, AppendProperties
  <2>3. /\ z \in Clients /\ ~z.done /\ z.terminating /\ z.queue = Append(x.queue, m)
        /\ z.pending = None /\ z.lastOsn = x.lastOsn
        /\ z.firstMc = IF x.terminating THEN x.firstMc ELSE Osn(m)
    BY <1>3, <2>2 DEF Clients
  <2> HIDE DEF z
  <2>4. \A i \in 1..Len(z.queue) : i \in 1..Len(x.queue) \/ (i = Len(x.queue) + 1 /\ z.queue[i] = m)
    BY <1>6, <2>2, <2>3
  <2>4a. \A i \in 1..Len(x.queue) : z.queue[i] = x.queue[i]
    BY <2>2, <2>3
  <2>5. z.queue[1] = IF x.terminating THEN x.queue[1] ELSE m
    <3>1. CASE x.terminating
      <4>1. 1 \in 1..Len(x.queue)
        BY <1>1, <3>1, Fields DEF Buffer
      <4>2. QED BY <3>1, <4>1, <2>4a
    <3>2. CASE ~x.terminating
      <4>1. Len(x.queue) = 0
        BY <1>1, <3>2, <1>6 DEF Buffer
      <4>2. QED BY <3>2, <4>1, <2>2, <2>3
    <3>3. QED BY <3>1, <3>2
  <2>6. Current(z, la) = la /\ Current(x, la) = la
    BY <2>3 DEF Current
  <2>7. Types(z, m, bu, la) /\ Burst(z, bu, la)
    <3>1. Burst(z, bu, la)
      BY <1>1, <2>3, <2>6 DEF Burst
    <3>2. QED BY <1>1, <2>3, <3>1 DEF Types, MaybePacket
  <2>8. Buffer(z, m)
    <3>1. z.terminating /\ m # None /\ z.queue # <<>>
      BY <2>2, <2>3, ConstFacts
    <3>2. z.firstMc = Osn(z.queue[1])
      BY <1>1, <2>3, <2>5 DEF Buffer
    <3>3. First + (Len(x.queue) + 1) <= m
      <4>1. CASE Len(x.queue) = 0
        <5>1. lv # None => lv >= First
          BY <1>1, ConstFacts DEF Types, MaybePacket
        <5>2. QED BY <4>1, <5>1, <1>1, ConstFacts DEF Types, MaybePacket
      <4>2. CASE Len(x.queue) # 0
        <5>1. Len(x.queue) \in 1..Len(x.queue)
          BY <1>6, <4>2
        <5>2. PICK e \in Int : e = x.queue[Len(x.queue)] /\ First + Len(x.queue) <= e /\ e < m
          BY <5>1, <1>7, ConstFacts
        <5>3. PICK l \in Nat : l = Len(x.queue)
          BY <1>6
        <5>4. First \in Int /\ m \in Int
          BY ConstFacts
        <5>5. First + l <= e /\ e < m
          BY <5>2, <5>3
        <5>6. First + (l + 1) <= m
          BY <5>4, <5>5
        <5>7. QED BY <5>3, <5>6
      <4>3. QED BY <4>1, <4>2
    <3>4. \A i \in 1..Len(z.queue) : First + i <= z.queue[i] /\ z.queue[i] <= m
      <4>1. SUFFICES ASSUME NEW i \in 1..Len(z.queue)
                     PROVE  First + i <= z.queue[i] /\ z.queue[i] <= m
        OBVIOUS
      <4>2. CASE i \in 1..Len(x.queue)
        BY <4>2, <2>4a, <1>7, ConstFacts, SMTT(60)
      <4>3. CASE i = Len(x.queue) + 1 /\ z.queue[i] = m
        BY <4>3, <3>3, ConstFacts
      <4>4. QED BY <4>2, <4>3, <2>4
    <3>5. \A i, j \in 1..Len(z.queue) : i < j => z.queue[i] < z.queue[j]
      <4>1. SUFFICES ASSUME NEW i \in 1..Len(z.queue), NEW j \in 1..Len(z.queue), i < j
                     PROVE  z.queue[i] < z.queue[j]
        OBVIOUS
      <4>2. i \in 1..Len(x.queue)
        BY <4>1, <2>2, <2>3, <1>6
      <4>3. CASE j \in 1..Len(x.queue)
        BY <4>1, <4>2, <4>3, <2>4a, <1>1 DEF Buffer
      <4>4. CASE j = Len(x.queue) + 1 /\ z.queue[j] = m
        BY <4>2, <4>4, <2>4a, <1>7
      <4>5. QED BY <4>3, <4>4, <2>4
    <3>6. QED BY <3>1, <3>2, <3>4, <3>5 DEF Buffer
  <2>9. Ahead(z, la, None)
    <3>1. SUFFICES ASSUME la # None PROVE la < z.queue[1]
      BY <2>3, <2>6 DEF Ahead
    <3>2. CASE x.terminating
      BY <3>1, <3>2, <2>5, <2>6, <1>1 DEF Ahead, Buffer, Client
    <3>3. CASE ~x.terminating
      <4>1. bu = la /\ lv = None
        BY <3>3, <2>6, <1>1 DEF Burst, Buffer
      <4>2. QED BY <3>1, <3>3, <4>1, <2>5, <1>1, ConstFacts DEF Types, MaybePacket
    <3>4. QED BY <3>2, <3>3
  <2>10. ASSUME ~ls2 PROVE Whole(z, m, bu, la)
    <3>1. Whole(x, lv, bu, la)
      BY <2>10 DEF Client
    <3>2. lv # None => m = lv + 1
      BY <2>10
    <3>3. z.queue[Len(z.queue)] = m
      BY <2>2, <2>3
    <3>4. \A i \in 1..Len(z.queue) : z.queue[i] = z.queue[1] + (i - 1)
      <4>1. SUFFICES ASSUME NEW i \in 1..Len(z.queue) PROVE z.queue[i] = z.queue[1] + (i - 1)
        OBVIOUS
      <4>2. CASE ~x.terminating
        <5>1. Len(x.queue) = 0
          BY <1>1, <4>2, <1>6 DEF Buffer
        <5>2. i = 1
          BY <5>1, <2>2, <2>3
        <5>3. QED BY <5>2, <4>2, <2>5, ConstFacts
      <4>3. CASE x.terminating
        <5>1. 1 \in 1..Len(x.queue) /\ Len(x.queue) \in 1..Len(x.queue)
          BY <1>1, <4>3, <1>6, Fields DEF Buffer
        <5>2. /\ z.queue[1] = x.queue[1] /\ x.queue[1] \in Int
              /\ lv = x.queue[Len(x.queue)] /\ lv # None
          BY <5>1, <4>3, <2>5, <3>1, <1>1, <1>7, ConstFacts DEF Whole, Buffer
        <5>3. x.queue[Len(x.queue)] = x.queue[1] + (Len(x.queue) - 1)
          BY <5>1, <3>1 DEF Whole
        <5>4. CASE i \in 1..Len(x.queue)
          BY <5>2, <5>4, <2>4a, <3>1 DEF Whole
        <5>5. CASE i = Len(x.queue) + 1 /\ z.queue[i] = m
          BY <5>2, <5>3, <5>5, <3>2, <1>6
        <5>6. QED BY <5>4, <5>5, <2>4
      <4>4. QED BY <4>2, <4>3
    <3>5. Current(z, la) = bu
      BY <2>6, <3>1 DEF Whole
    <3>6. QED BY <2>3, <3>1, <3>3, <3>4, <3>5 DEF Whole
  <2>11. Client(z, m, bu, la, ls2, None)
    BY <2>7, <2>8, <2>9, <2>10 DEF Client
  <2>12. Client(CheckSplice(z, t), m, bu, la, ls2, None) /\ Checked(CheckSplice(z, t))
         /\ CheckSplice(z, t).terminating = z.terminating
    BY <2>11, CheckSpliceKeeps
  <2>13. CheckSplice(z, t).pending = z.pending
    BY <2>3 DEF CheckSplice, Clients
  <2>14. QED BY <1>9, <2>1, <2>3, <2>12, <2>13
<1>10. QED BY <1>8, <1>9


\* fcc_on_uni takes a burst packet only before the first multicast one.
LEMMA OnBurstKeeps ==
  ASSUME NEW x, NEW lv, NEW bu, NEW la, NEW ls \in BOOLEAN, NEW ls2 \in BOOLEAN, NEW t \in Nat,
         NEW u \in Packets, NEW ct,
         Client(x, lv, bu, la, ls, ct), Checked(x), ~x.done => x.pending = None,
         bu # None => u > bu,
         ls => ls2, ~After(u, bu, First) => ls2, x.terminating /\ Waited(t) => ls2
  PROVE  /\ Client(OnBurst(x, u, t), lv, u, la, ls2, ct)
         /\ OnBurst(x, u, t).terminating = x.terminating
<1>1. x \in Clients /\ Types(x, lv, bu, la) /\ Buffer(x, lv) /\ Burst(x, bu, la)
  BY DEF Client, Types
<1>1a. Ahead(x, la, ct) /\ (~x.done => ct = None)
  BY DEF Client, Ahead
<1>2. u # None /\ u \in Int
  BY ConstFacts
<1>3. CASE x.done
  <2>1. OnBurst(x, u, t) = x
    BY <1>3 DEF OnBurst
  <2>2. Types(x, lv, u, la) /\ Burst(x, u, la)
    BY <1>1, <1>3 DEF Types, Burst, MaybePacket
  <2>3. Whole(x, lv, bu, la) => Whole(x, lv, u, la)
    BY <1>3 DEF Whole
  <2>4. QED BY <2>1, <2>2, <2>3 DEF Client
<1>4. CASE ~x.done /\ AfterFirstMc(x, u)
  <2>1. OnBurst(x, u, t) = x
    BY <1>4 DEF OnBurst
  <2>2. x.terminating /\ x.queue # <<>> /\ x.queue[1] \in Packets /\ u >= x.queue[1]
    <3>1. x.terminating /\ x.queue # <<>> /\ x.firstMc = Osn(x.queue[1])
      BY <1>1, <1>4 DEF AfterFirstMc, Buffer
    <3>2. x.queue[1] \in Packets
      BY <1>1, <3>1, Fields
    <3>3. QED BY <1>4, <3>1, <3>2, SpliceTests DEF AfterFirstMc
  <2>2a. Current(x, la) # None => bu # None /\ Current(x, la) <= u
    <3>1. Current(x, la) # None => Current(x, la) \in Int /\ bu # None /\ bu \in Int /\ Current(x, la) <= bu
      BY <1>1, <1>4, ConstFacts, Fields DEF Burst, Types, MaybePacket, Current
    <3>2. QED BY <3>1, <1>2
  <2>3. Types(x, lv, u, la) /\ Burst(x, u, la)
    BY <1>1, <1>2, <1>4, <2>2, <2>2a DEF Types, Burst, MaybePacket
  <2>4. ASSUME ~ls2 PROVE FALSE
    <3>1. Whole(x, lv, bu, la)
      BY <2>4 DEF Client
    <3>2. Current(x, la) = bu /\ bu \in Packets \cup {None}
      BY <1>1, <1>4, <3>1 DEF Whole, Types, MaybePacket
    <3>3. u = IF bu = None THEN First ELSE bu + 1
      BY <2>4 DEF After
    <3>4. x.queue[1] >= First + 1
      BY <1>1, <2>2, Fields DEF Buffer
    <3>5. bu # None
      BY <3>3, <3>4, <2>2, ConstFacts
    <3>6. bu < x.queue[1] /\ bu + 1 = x.queue[1]
      BY <1>1a, <1>4, <3>2, <3>3, <3>5, <2>2, ConstFacts DEF Ahead, Current
    <3>7. Diff(Osn(bu) + 1, Osn(x.queue[1])) >= 0
      BY <3>2, <3>5, <3>6, <2>2, SpliceTests
    <3>8. x.lastOsn = Osn(bu) /\ x.firstMc = Osn(x.queue[1]) /\ Osn(bu) \in Int
      BY <1>1, <1>4, <2>2, <3>2, <3>5, SpliceTests DEF Burst, Buffer
    <3>9. BurstReached(x)
      BY <3>7, <3>8, ConstFacts DEF BurstReached
    <3>10. QED BY <3>9, <2>2, <1>4 DEF Checked
  <2>5. QED BY <1>1, <2>1, <2>3, <2>4 DEF Client
<1>5. CASE ~x.done /\ ~AfterFirstMc(x, u)
  <2> DEFINE z == [x EXCEPT !.pending = u, !.lastOsn = Osn(u)]
  <2>1. OnBurst(x, u, t) = CheckSplice(z, t)
    BY <1>5 DEF OnBurst
  <2>2. Osn(u) \in Int /\ x.pending = None
    BY <1>5, SpliceTests
  <2>3. /\ z \in Clients /\ z.done = x.done /\ z.terminating = x.terminating
        /\ z.firstMc = x.firstMc /\ z.queue = x.queue /\ z.pending = u /\ z.lastOsn = Osn(u)
    BY <1>1, <2>2 DEF Clients
  <2> HIDE DEF z
  <2>4. Current(z, la) = u /\ Current(x, la) = la
    BY <1>2, <2>2, <2>3 DEF Current
  <2>5. Types(z, lv, u, la) /\ Buffer(z, lv) /\ Burst(z, u, la)
    BY <1>1, <1>2, <2>3, <2>4 DEF Types, Buffer, Burst, MaybePacket
  <2>6. x.queue # <<>> => u < x.queue[1]
    <3>1. SUFFICES ASSUME x.queue # <<>> PROVE u < x.queue[1]
      OBVIOUS
    <3>2. x.terminating /\ x.firstMc = Osn(x.queue[1]) /\ x.queue[1] \in Packets
      BY <1>1, <1>5, <3>1, Fields DEF Buffer
    <3>3. ~(Diff(Osn(u), Osn(x.queue[1])) >= 0)
      BY <1>5, <3>2 DEF AfterFirstMc
    <3>4. QED BY <3>2, <3>3, SpliceTests, ConstFacts
  <2>7. la # None => bu # None
    BY <1>1, <1>5, <2>4 DEF Burst
  <2>8. ASSUME ~ls2 PROVE Whole(z, lv, u, la) /\ ct = None
    <3>1. Whole(x, lv, bu, la)
      BY <2>8 DEF Client
    <3>2. la = bu
      BY <1>5, <2>4, <3>1 DEF Whole
    <3>3. u = IF la = None THEN First ELSE la + 1
      BY <2>8, <3>2 DEF After
    <3>4. Whole(z, lv, u, la)
      BY <1>5, <2>3, <2>4, <3>1, <3>3 DEF Whole
    <3>5. QED BY <1>1a, <1>5, <3>4
  <2>9. Ahead(z, la, ct)
    <3>1. la # None => la < u
      <4>1. SUFFICES ASSUME la # None PROVE la < u
        OBVIOUS
      <4>2. bu # None /\ bu \in Packets /\ la \in Packets
        BY <4>1, <2>7, <1>1 DEF Types, MaybePacket
      <4>3. la <= bu
        BY <4>1, <4>2, <1>1, <1>5, <2>4, ConstFacts DEF Burst
      <4>4. QED BY <4>2, <4>3, ConstFacts
    <3>2. QED BY <1>1a, <1>5, <2>3, <2>6, <3>1 DEF Ahead
  <2>10. Client(z, lv, u, la, ls2, ct)
    BY <2>5, <2>8, <2>9 DEF Client
  <2>11. QED BY <2>1, <2>3, <2>10, CheckSpliceKeeps
<1>6. QED BY <1>3, <1>4, <1>5


\* The end of fcc_client_read hands out one packet, in order and without a hole.
LEMMA ReturnKeeps ==
  ASSUME IInv, NEW z, Client(z, live', burst', last, lost', cut'), Checked(z),
         cut' \in MaybePacket, cut # None => cut' = cut /\ z.pending = None,
         Return(z), lost' \in BOOLEAN, lost => lost', clock' \in Nat
  PROVE  IInv'
<1>1. z \in Clients /\ Types(z, live', burst', last) /\ Buffer(z, live') /\ Burst(z, burst', last)
  BY DEF Client, Types
<1>2. last \in Packets \cup {None} /\ back \in BOOLEAN /\ hole \in BOOLEAN
  BY DEF IInv, MaybePacket
<1>3. /\ ~back /\ Ahead(z, last, cut')
      /\ ~lost' => ~hole /\ cut' = None /\ Whole(z, live', burst', last)
  BY DEF IInv, Client
<1> DEFINE n == Out(z)
<1>4. /\ r' = Without(z) /\ closed' = ClientDone(Without(z))
      /\ last' = (IF n \in {None, cut'} THEN last ELSE n)
      /\ back' = (back \/ (n # None /\ (n = cut \/ (last # None /\ n <= last))))
      /\ hole' = (hole \/ (n # None /\ n # IF last = None THEN First ELSE last + 1))
  BY DEF Return
<1>5. n \in Packets \cup {None}
  <2>1. z.queue # <<>> => Head(z.queue) \in Packets
    BY <1>1, Fields, HeadTailProperties
  <2>2. QED BY <1>1, <2>1, Fields DEF Out
<1>6. closed' \in BOOLEAN /\ back' \in BOOLEAN /\ hole' \in BOOLEAN /\ last' \in MaybePacket
  BY <1>2, <1>4, <1>5 DEF ClientDone, MaybePacket
<1> HIDE DEF n
<1>7. CASE z.pending # None
  <2>1. n = z.pending /\ Without(z) = [z EXCEPT !.pending = None]
    BY <1>7 DEF n, Out, Without
  <2>2. /\ r' \in Clients /\ r'.pending = None /\ r'.done = z.done /\ r'.queue = z.queue
        /\ r'.terminating = z.terminating /\ r'.firstMc = z.firstMc /\ r'.lastOsn = z.lastOsn
    BY <1>1, <1>4, <2>1 DEF Clients
  <2>3. z.pending \in Packets /\ z.pending # cut /\ last' = IF z.pending = cut' THEN last ELSE z.pending
    BY <1>1, <1>4, <1>7, <2>1, Fields
  <2>4. z.pending # cut' => Current(r', last') = Current(z, last)
    BY <1>7, <2>2, <2>3 DEF Current
  <2>4a. z.pending = cut' => z.done /\ lost' /\ last' = last
    BY <1>3, <1>7, <2>3 DEF Ahead
  <2>5. Types(r', live', burst', last') /\ Buffer(r', live') /\ Burst(r', burst', last') /\ Checked(r')
    <3>1. Burst(r', burst', last')
      BY <1>1, <2>2, <2>4, <2>4a DEF Burst
    <3>2. Buffer(r', live')
      BY <1>1, <2>2 DEF Buffer
    <3>3. Checked(r')
      BY <2>2 DEF Checked, BurstReached
    <3>4. QED BY <1>1, <1>6, <2>2, <3>1, <3>2, <3>3 DEF Types
  <2>6. Ahead(r', last', cut') /\ (last # None => ~(z.pending <= last))
    <3>1. r'.queue # <<>> /\ last' # None => last' < r'.queue[1]
      BY <1>3, <1>7, <2>2, <2>3 DEF Ahead
    <3>2. Ahead(r', last', cut')
      BY <1>3, <2>2, <3>1 DEF Ahead
    <3>3. last # None => last < z.pending /\ last \in Int /\ z.pending \in Int
      BY <1>2, <1>3, <1>7, <2>3, ConstFacts DEF Ahead
    <3>4. QED BY <3>2, <3>3
  <2>7. ~lost' => Whole(r', live', burst', last') /\ cut' = None
    <3>1. SUFFICES ASSUME ~lost' PROVE Whole(r', live', burst', last') /\ cut' = None
      OBVIOUS
    <3>2. z.pending # cut' /\ Whole(z, live', burst', last)
      BY <3>1, <1>3, <2>4a
    <3>3. QED BY <3>1, <3>2, <1>3, <2>2, <2>4 DEF Whole
  <2>8. Whole(z, live', burst', last) => z.pending = IF last = None THEN First ELSE last + 1
    BY <1>7 DEF Whole
  <2>9. r'.done /\ r'.queue = <<>> => closed'
    BY <1>4, <2>2 DEF ClientDone
  <2>10. ~back'
    BY <1>3, <1>4, <2>1, <2>3, <2>6
  <2>11. ~lost' => ~hole'
    BY <1>3, <1>4, <2>1, <2>8
  <2>12. ReadInv'
    BY <2>2, <2>5, <2>6, <2>7, <2>9 DEF ReadInv, Client
  <2>13. QED BY <1>6, <2>10, <2>11, <2>12 DEF IInv
<1>8. CASE z.pending = None /\ z.done /\ z.queue # <<>>
  <2>1. n = Head(z.queue) /\ Without(z) = [z EXCEPT !.queue = Tail(@)]
    BY <1>8 DEF n, Out, Without
  <2>2. /\ z.queue \in Seq(Packets) /\ Len(z.queue) \in Nat \ {0}
        /\ Head(z.queue) = z.queue[1] /\ z.queue[1] \in Packets
        /\ Tail(z.queue) \in Seq(Packets) /\ Len(Tail(z.queue)) = Len(z.queue) - 1
        /\ \A i \in 1..Len(Tail(z.queue)) : Tail(z.queue)[i] = z.queue[i + 1]
    BY <1>1, <1>8, Fields, HeadTailProperties, EmptySeq
  <2>3. /\ r' \in Clients /\ r'.pending = None /\ r'.done /\ r'.queue = Tail(z.queue)
        /\ r'.terminating = z.terminating
    BY <1>1, <1>4, <1>8, <2>1, <2>2 DEF Clients
  <2>3a. z.queue[1] # cut' /\ z.queue[1] # cut
    <3>1. cut' # None => z.queue[1] < cut' /\ cut' \in Int
      BY <1>3, <2>2, ConstFacts DEF Ahead, MaybePacket
    <3>2. z.queue[1] \in Int /\ z.queue[1] # None
      BY <2>2, ConstFacts
    <3>3. z.queue[1] # cut'
      BY <3>1, <3>2
    <3>4. QED BY <3>2, <3>3
  <2>4. last' = z.queue[1] /\ z.queue[1] # None /\ z.queue[1] \in Int
    BY <1>4, <2>1, <2>2, <2>3a, ConstFacts
  <2>5. Current(z, last) = last /\ Current(r', last') = z.queue[1]
    BY <1>8, <2>3, <2>4 DEF Current
  <2>6. \A i \in 1..Len(r'.queue) : i + 1 \in 1..Len(z.queue) /\ r'.queue[i] = z.queue[i + 1]
    BY <2>2, <2>3
  <2>6a. \A i \in 1..Len(z.queue) : z.queue[i] \in Int
    BY <1>1, Fields, ConstFacts
  <2>7. Buffer(r', live')
    <3>1. (r'.terminating <=> live' # None) /\ r'.terminating
      BY <1>1, <1>8, <2>3 DEF Buffer
    <3>2. \A i \in 1..Len(r'.queue) : First + i <= r'.queue[i] /\ r'.queue[i] <= live'
      <4>1. SUFFICES ASSUME NEW i \in 1..Len(r'.queue)
                     PROVE  First + i <= r'.queue[i] /\ r'.queue[i] <= live'
        OBVIOUS
      <4>2. First + (i + 1) <= z.queue[i + 1] /\ z.queue[i + 1] <= live'
        BY <1>1, <2>6 DEF Buffer
      <4>3. z.queue[i + 1] \in Int
        BY <2>6, <2>6a
      <4>4. i \in Int
        OBVIOUS
      <4>5. QED BY <2>6, <4>2, <4>3, <4>4, ConstFacts
    <3>3. \A i, j \in 1..Len(r'.queue) : i < j => r'.queue[i] < r'.queue[j]
      <4>1. SUFFICES ASSUME NEW i \in 1..Len(r'.queue), NEW j \in 1..Len(r'.queue), i < j
                     PROVE  r'.queue[i] < r'.queue[j]
        OBVIOUS
      <4>2. i + 1 < j + 1
        BY <4>1
      <4>3. z.queue[i + 1] < z.queue[j + 1]
        BY <1>1, <2>6, <4>2 DEF Buffer
      <4>4. QED BY <2>6, <4>3
    <3>4. QED BY <2>3, <3>1, <3>2, <3>3 DEF Buffer
  <2>8. Types(r', live', burst', last') /\ Burst(r', burst', last') /\ Checked(r')
    BY <1>1, <2>2, <2>3, <2>4 DEF Types, Burst, Checked, MaybePacket
  <2>9. r'.queue # <<>> => r'.queue[1] = z.queue[2] /\ z.queue[1] < z.queue[2] /\ 2 \in 1..Len(z.queue)
    <3>1. SUFFICES ASSUME r'.queue # <<>>
                   PROVE  r'.queue[1] = z.queue[2] /\ z.queue[1] < z.queue[2] /\ 2 \in 1..Len(z.queue)
      OBVIOUS
    <3>2. 1 \in 1..Len(r'.queue)
      BY <2>3, <3>1, Fields
    <3>3. 2 \in 1..Len(z.queue) /\ r'.queue[1] = z.queue[2] /\ 1 \in 1..Len(z.queue)
      BY <3>2, <2>2, <2>6
    <3>4. QED BY <3>3, <1>1 DEF Buffer
  <2>10. Ahead(r', last', cut')
    <3>1. cut' # None => \A i \in 1..Len(r'.queue) : r'.queue[i] < cut'
      BY <1>3, <2>6 DEF Ahead
    <3>2. QED BY <2>3, <2>4, <2>9, <3>1 DEF Ahead
  <2>11. n # cut /\ (last # None => ~(n <= last))
    BY <1>2, <1>3, <1>8, <2>1, <2>2, <2>3a, <2>4, ConstFacts DEF Ahead
  <2>12. ASSUME Whole(z, live', burst', last)
         PROVE  n = (IF last = None THEN First ELSE last + 1) /\ Whole(r', live', burst', last')
    <3>1. last # None /\ z.queue[1] = last + 1
      BY <2>12, <1>8, <2>5 DEF Whole
    <3>2. \A i \in 1..Len(z.queue) : z.queue[i] = z.queue[1] + (i - 1)
      BY <2>12 DEF Whole
    <3>3. r'.queue # <<>> => r'.queue[1] = z.queue[1] + 1
      BY <3>2, <2>9, <2>4
    <3>4. \A i \in 1..Len(r'.queue) : r'.queue[i] = r'.queue[1] + (i - 1)
      <4>1. SUFFICES ASSUME NEW i \in 1..Len(r'.queue) PROVE r'.queue[i] = r'.queue[1] + (i - 1)
        OBVIOUS
      <4>2. r'.queue[i] = z.queue[1] + ((i + 1) - 1) /\ i \in Int
        BY <2>6, <3>2
      <4>3. r'.queue # <<>>
        <5>1. Len(r'.queue) \in Nat /\ 1 <= Len(r'.queue)
          BY <2>2, <2>3
        <5>2. QED BY <5>1
      <4>4. PICK e \in Int : e = z.queue[1] /\ r'.queue[1] = e + 1 /\ r'.queue[i] = e + ((i + 1) - 1)
        BY <4>2, <4>3, <3>3, <2>4
      <4>5. QED BY <4>2, <4>4
    <3>5. n = IF last = None THEN First ELSE last + 1
      BY <2>1, <2>2, <3>1
    <3>6. Current(r', last') # None /\ (r'.queue # <<>> => r'.queue[1] = Current(r', last') + 1)
      BY <2>4, <2>5, <3>3
    <3>7. Whole(r', live', burst', last')
      BY <2>3, <3>4, <3>6 DEF Whole
    <3>8. QED BY <3>5, <3>7
  <2>13. r'.queue = <<>> => closed'
    BY <1>4, <2>3 DEF ClientDone
  <2>14. ~back'
    BY <1>3, <1>4, <2>11
  <2>15. ~lost' => ~hole'
    BY <1>3, <1>4, <2>12
  <2>16. ReadInv'
    BY <1>3, <2>3, <2>7, <2>8, <2>10, <2>12, <2>13 DEF ReadInv, Client
  <2>17. QED BY <1>6, <2>14, <2>15, <2>16 DEF IInv
<1>9. CASE z.pending = None /\ ~(z.done /\ z.queue # <<>>)
  <2>1. n = None /\ Without(z) = z
    BY <1>9 DEF n, Out, Without
  <2>2. r' = z /\ last' = last /\ back' = back /\ hole' = hole
    BY <1>2, <1>4, <2>1
  <2>3. z.done => closed'
    BY <1>4, <1>9, <2>1 DEF ClientDone
  <2>4. ReadInv'
    BY <1>9, <2>2, <2>3 DEF ReadInv
  <2>5. QED BY <1>3, <1>6, <2>2, <2>4 DEF IInv
<1>10. QED BY <1>7, <1>8, <1>9

\* A new client.
LEMMA InitIInv == Init => IInv
<1> SUFFICES ASSUME Init PROVE IInv
  OBVIOUS
<1>1. r \in Clients /\ r.queue = <<>> /\ r.pending = None /\ ~r.done /\ ~r.terminating /\ r.lastOsn = None
  <2>1. <<>> \in Seq(Packets)
    OBVIOUS
  <2>2. QED BY <2>1 DEF Init, Clients
<1>2. Types(r, live, burst, last) /\ Current(r, last) = None
  BY <1>1 DEF Init, Types, MaybePacket, Current
<1>3. Buffer(r, live) /\ Burst(r, burst, last) /\ Ahead(r, last, cut) /\ Whole(r, live, burst, last) /\ Checked(r)
  BY <1>1, <1>2 DEF Init, Buffer, Burst, Ahead, Whole, Checked
<1>4. QED BY <1>1, <1>2, <1>3 DEF Init, IInv, ReadInv, Client, MaybePacket

\* Which handlers leave terminating alone, and that a multicast packet sets it.
LEMMA Terminating ==
  ASSUME NEW x \in Clients, NEW t, NEW n \in Packets
  PROVE  /\ CheckSplice(x, t) \in Clients /\ CheckSplice(x, t).terminating = x.terminating
         /\ OnBurst(x, n, t) \in Clients /\ OnBurst(x, n, t).terminating = x.terminating
         /\ OnReject(x) \in Clients /\ OnReject(x).terminating = x.terminating
         /\ ~x.done => OnMulticast(x, n, t) \in Clients /\ OnMulticast(x, n, t).terminating
<1>1. \A y \in Clients : CheckSplice(y, t) \in Clients /\ CheckSplice(y, t).terminating = y.terminating
  BY DEF CheckSplice, Clients
<1>2. Osn(n) \in Int /\ x.queue \in Seq(Packets) /\ Append(x.queue, n) \in Seq(Packets)
  BY SpliceTests, AppendProperties, Fields
<1>3. OnBurst(x, n, t) \in Clients /\ OnBurst(x, n, t).terminating = x.terminating
  <2> DEFINE z == [x EXCEPT !.pending = n, !.lastOsn = Osn(n)]
  <2>1. z \in Clients /\ z.terminating = x.terminating
    BY <1>2 DEF Clients
  <2>2. OnBurst(x, n, t) = x \/ OnBurst(x, n, t) = CheckSplice(z, t)
    BY DEF OnBurst
  <2> HIDE DEF z
  <2>3. QED BY <1>1, <2>1, <2>2
<1>4. ASSUME ~x.done PROVE OnMulticast(x, n, t) \in Clients /\ OnMulticast(x, n, t).terminating
  <2> DEFINE y == IF x.terminating THEN x ELSE [x EXCEPT !.terminating = TRUE, !.firstMc = Osn(n)]
             full == [y EXCEPT !.done = TRUE, !.pending = IF @ = None THEN n ELSE @]
             more == [y EXCEPT !.queue = Append(@, n)]
  <2>1. OnMulticast(x, n, t) = full \/ OnMulticast(x, n, t) = CheckSplice(more, t)
    BY <1>4 DEF OnMulticast
  <2>2. y \in Clients /\ y.terminating /\ y.queue = x.queue
    BY <1>2 DEF Clients
  <2> HIDE DEF y
  <2>3. full \in Clients /\ full.terminating
    BY <2>2 DEF Clients
  <2>4. more \in Clients /\ more.terminating
    BY <1>2, <2>2 DEF Clients
  <2> HIDE DEF full, more
  <2>5. QED BY <1>1, <2>1, <2>3, <2>4
<1>5. OnReject(x) \in Clients /\ OnReject(x).terminating = x.terminating
  BY DEF OnReject, Clients
<1>6. QED BY <1>1, <1>3, <1>4, <1>5

\* A rejection ends the burst where it is.
LEMMA OnRejectKeeps ==
  ASSUME NEW x, NEW lv, NEW bu, NEW la, NEW ls \in BOOLEAN, NEW ct,
         Client(x, lv, bu, la, ls, ct)
  PROVE  Client(OnReject(x), lv, bu, la, TRUE, ct) /\ OnReject(x).rejected
<1> DEFINE y == OnReject(x)
<1>1. x \in Clients
  BY DEF Client, Types
<1>2. /\ y \in Clients /\ y.done /\ y.rejected /\ y.terminating = x.terminating /\ y.queue = x.queue
      /\ y.pending = x.pending /\ y.firstMc = x.firstMc /\ y.lastOsn = x.lastOsn
  BY <1>1 DEF OnReject, Clients
<1> HIDE DEF y
<1>3. Types(y, lv, bu, la) /\ Buffer(y, lv) /\ Burst(y, bu, la)
  BY <1>2 DEF Client, Types, Buffer, Burst
<1>4. Ahead(y, la, ct)
  BY <1>2 DEF Ahead, Client
<1>5. QED BY <1>2, <1>3, <1>4 DEF Client, y

\* More may count as lost.
LEMMA LostMore ==
  ASSUME NEW x, NEW lv, NEW bu, NEW la, NEW ls, NEW ls2, NEW ct, Client(x, lv, bu, la, ls, ct), ls => ls2
  PROVE  Client(x, lv, bu, la, ls2, ct)
BY DEF Client

\* fcc_client_read with its poll.
LEMMA PollKeeps ==
  ASSUME IInv, NEW m \in Multicasts \cup {None}, NEW u \in Bursts \cup {None}, NEW reject \in BOOLEAN,
         reject => u = None, ReadPoll(m, u, reject)
  PROVE  IInv'
<1> DEFINE t == IF m # None /\ ~r.terminating THEN 0 ELSE clock
           x == IF m = None THEN r ELSE OnMulticast(r, m, t)
           y == IF reject THEN OnReject(x) ELSE IF u = None THEN x ELSE OnBurst(x, u, t)
           z == CheckSplice(y, t)
           lv == IF m = None THEN live ELSE m
           bu == IF u = None THEN burst ELSE u
           ct == IF m # None /\ ~r.done /\ ~Room(r, m) THEN m ELSE cut
<1>1. /\ ~closed /\ Out(r) = None /\ cut' = ct /\ Return(z) /\ clock' = t /\ live' = lv /\ burst' = bu
      /\ lost' = (\/ lost \/ z.rejected
                  \/ (m # None /\ live # None /\ m # live + 1)
                  \/ (u # None /\ ~After(u, burst, First))
                  \/ (m # None /\ ~Room(r, m))
                  \/ (z.terminating /\ Waited(t)))
  BY DEF ReadPoll
<1>2. /\ r.pending = None /\ Client(r, live, burst, last, lost, cut) /\ Checked(r) /\ r \in Clients
      /\ lost \in BOOLEAN /\ clock \in Nat /\ (r.done => r.queue # <<>>)
  BY <1>1 DEF IInv, ReadInv, Client, Types
<1>3. ~r.done
  <2>1. SUFFICES ASSUME r.done PROVE FALSE
    OBVIOUS
  <2>2. r.queue # <<>> /\ Out(r) = Head(r.queue)
    BY <1>2, <2>1 DEF Out
  <2>3. Head(r.queue) \in Packets
    BY <1>2, <2>2, Fields, HeadTailProperties
  <2>4. QED BY <1>1, <2>2, <2>3, ConstFacts
<1>3a. cut = None
  BY <1>2, <1>3 DEF Client, Ahead
<1>4. t \in Nat
  BY <1>2
<1>5. m # None => m \in Packets /\ m \in Multicasts
  BY DEF Multicasts
<1>6. u # None => u \in Packets /\ (burst # None => u > burst)
  BY DEF Bursts
<1> HIDE DEF t
<1>7. x \in Clients /\ x.terminating = (r.terminating \/ m # None)
  <2>1. r.terminating \in BOOLEAN
    BY <1>2, Fields
  <2>2. m # None => OnMulticast(r, m, t) \in Clients /\ OnMulticast(r, m, t).terminating
    BY <1>2, <1>3, <1>5, Terminating
  <2>3. m # None => x.terminating \in BOOLEAN
    BY <2>2, Fields
  <2>4. QED BY <1>2, <2>1, <2>2, <2>3
<1> HIDE DEF x
<1>9. y \in Clients /\ y.terminating = x.terminating
  <2>1. OnReject(x) \in Clients /\ OnReject(x).terminating = x.terminating
    BY <1>7 DEF OnReject, Clients
  <2>2. u # None => OnBurst(x, u, t) \in Clients /\ OnBurst(x, u, t).terminating = x.terminating
    BY <1>6, <1>7, Terminating
  <2>3. QED BY <1>7, <2>1, <2>2
<1> DEFINE ls == lost'
<1>10. z.terminating = x.terminating
  <2>1. CheckSplice(y, t).terminating = y.terminating
    BY <1>9 DEF CheckSplice, Clients
  <2>2. QED BY <1>9, <2>1
<1> HIDE DEF y
<1>11. ls \in BOOLEAN /\ (lost => ls) /\ (x.terminating /\ Waited(t) => ls)
       /\ (m # None /\ live # None /\ m # live + 1 => ls) /\ (m # None /\ ~Room(r, m) => ls)
       /\ (u # None /\ ~After(u, burst, First) => ls) /\ (z.rejected => ls)
  BY <1>1, <1>10
<1>12. Client(x, lv, burst, last, ls, ct) /\ Checked(x) /\ (~x.done => x.pending = None)
  <2>1. CASE m = None
    BY <2>1, <1>2, <1>11, LostMore DEF x
  <2>2. CASE m # None
    <3>1. /\ live # None => m > live
          /\ live = None /\ burst # None => m > burst
          /\ live = None => m > First
      <4>1. m \in Multicasts
        BY <2>2, <1>5
      <4>2. burst # None => burst \in Int /\ burst >= First
        BY <1>2, ConstFacts DEF Client, Types, MaybePacket
      <4>3. QED BY <4>1, <4>2, ConstFacts DEF Multicasts
    <3>2. x = OnMulticast(r, m, t) /\ x.terminating
      BY <2>2, <1>7 DEF x
    <3>3. Waited(t) => ls
      BY <3>2, <1>11
    <3>3a. Client(r, live, burst, last, lost, None) /\ ct = IF Room(r, m) THEN None ELSE m
      BY <2>2, <1>2, <1>3, <1>3a
    <3>4. /\ Client(OnMulticast(r, m, t), m, burst, last, ls, IF Room(r, m) THEN None ELSE m)
          /\ Checked(OnMulticast(r, m, t))
          /\ ~OnMulticast(r, m, t).done => OnMulticast(r, m, t).pending = None
      BY <2>2, <1>2, <1>3, <1>4, <1>5, <1>11, <3>1, <3>3, <3>3a, OnMulticastKeeps
    <3>5. QED BY <2>2, <3>2, <3>3a, <3>4
  <2>3. QED BY <2>1, <2>2
<1>13. Client(y, lv, bu, last, ls, ct)
  <2>1. CASE reject
    <3>1. u = None /\ y = OnReject(x)
      BY <2>1 DEF y
    <3>2. Client(y, lv, burst, last, TRUE, ct) /\ y.rejected
      BY <1>11, <1>12, <3>1, OnRejectKeeps
    <3>3. z.rejected
      BY <1>9, <3>2 DEF CheckSplice, Clients
    <3>4. ls
      BY <1>11, <3>3
    <3>5. QED BY <3>1, <3>2, <3>4, LostMore
  <2>2. CASE ~reject /\ u = None
    BY <2>2, <1>12 DEF y
  <2>3. CASE ~reject /\ u # None
    <3>1. y = OnBurst(x, u, t)
      BY <2>3 DEF y
    <3>2. Client(OnBurst(x, u, t), lv, u, last, ls, ct)
      BY <2>3, <1>4, <1>6, <1>11, <1>12, OnBurstKeeps
    <3>3. QED BY <2>3, <3>1, <3>2
  <2>4. QED BY <2>1, <2>2, <2>3
<1>14. Client(z, lv, bu, last, ls, ct) /\ Checked(z)
  BY <1>4, <1>9, <1>11, <1>13, CheckSpliceKeeps
<1>14a. ct \in MaybePacket
  BY <1>3a, <1>5 DEF MaybePacket
<1> HIDE DEF z, lv, bu, ct
<1>15. QED BY <1>1, <1>3a, <1>4, <1>11, <1>14, <1>14a, ReturnKeeps

\* Every step keeps the invariant.
LEMMA StepIInv == IInv /\ [Next]_vars => IInv'
<1> SUFFICES ASSUME IInv, [Next]_vars PROVE IInv'
  OBVIOUS
<1>1. CASE UNCHANGED vars
  BY <1>1 DEF vars, IInv, ReadInv, MaybePacket, Client, Types, Buffer, Burst, Ahead, Whole, Current,
      Checked, BurstReached
<1>2. CASE ReadReady
  <2>1. /\ ~closed /\ cut' = cut /\ Return(r) /\ live' = live /\ burst' = burst /\ lost' = lost /\ clock' = clock
    BY <1>2 DEF ReadReady
  <2>2. /\ Client(r, live', burst', last, lost', cut') /\ Checked(r) /\ r.pending = None
        /\ lost' \in BOOLEAN /\ clock' \in Nat /\ cut' \in MaybePacket
    BY <2>1 DEF IInv, ReadInv
  <2>3. QED BY <2>1, <2>2, ReturnKeeps
<1>3. CASE ReadSome
  BY <1>3, PollKeeps DEF ReadSome
<1>4. CASE Tick
  BY <1>4 DEF Tick, IInv, ReadInv, MaybePacket, Client, Types, Buffer, Burst, Ahead, Whole, Current,
      Checked, BurstReached
<1>5. QED BY <1>1, <1>2, <1>3, <1>4 DEF Next

\* Whatever the network loses, the server rejects, the clock cuts short or the
\* buffer has no room for, the caller gets the packets in their order and none
\* of them twice, but for the one packet that found no room.
THEOREM InOrderCorrect == Spec => []InOrder
<1>1. IInv => InOrder
  BY DEF IInv, InOrder
<1>2. QED BY <1>1, InitIInv, StepIInv, PTL DEF Spec

\* The cutover loses nothing the network has not lost, for any queue length:
\* the caller misses a packet only after a loss, a rejection, a silent burst or
\* a buffer without room.
THEOREM CleanSpliceCorrect == Spec => []CleanSplice
<1>1. IInv => CleanSplice
  BY DEF IInv, CleanSplice
<1>2. QED BY <1>1, InitIInv, StepIInv, PTL DEF Spec

=============================================================================
