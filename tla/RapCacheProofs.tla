--------------------------- MODULE RapCacheProofs ---------------------------
(***************************************************************************)
(* The seqlock of lib/helper/seqlock.h, as the FCC cache uses it, for any   *)
(* capacity, any number of retries and any number of packets and recycles.  *)
(***************************************************************************)
EXTENDS RapCache, TLAPS

USE DEF cacheVars, ringVars, capVars, readVars, burstVars

\* The writer is inside its critical section on the entry it will publish.
Writing == wpc \in {"meta", "body", "commit"}

\* Generations are odd exactly where the writer is at work.
OddOK == \A i \in Slots : gen[i] % 2 = 1 <=> (Writing /\ i = Entry)

\* A stable entry holds one packet; the writer's own entry holds what it wrote.
EntryOK ==
  /\ \A i \in Slots : gen[i] % 2 = 0 => meta[i] = body[i]
  /\ wpc \in {"body", "commit"} => meta[Entry] = Packet
  /\ wpc = "commit" => body[Entry] = Packet

\* The packet in hand fits the bound.
WriterOK == wpc \in {"have", "begin", "meta", "body", "commit", "publish"} => writeCount < MaxWrites

\* What a reader has copied is still in the entry unless the generation moved.
ReaderOK ==
  /\ bpc \in {"rmeta", "rbody", "check"} => g % 2 = 0 /\ g <= gen[slot]
  /\ bpc \in {"rbody", "check"} /\ gen[slot] = g => rmeta = meta[slot]
  /\ bpc = "check" /\ gen[slot] = g => rbody = body[slot]

\* The send loop stays below the end it loaded and within its tries.
LoopOK ==
  /\ bpc \in {"get", "slot", "seq", "rmeta", "rbody", "check"} => cursor < end
  /\ bpc \in {"seq", "rmeta", "rbody", "check"} => tries < Tries

IInv == TypeOK /\ OddOK /\ EntryOK /\ WriterOK /\ ReaderOK /\ LoopOK /\ NoTornPacket

\* Positions wrap into the ring.
LEMMA EntryType == ASSUME TypeOK PROVE Entry \in Slots
BY CapAssumption DEF TypeOK, Entry, Slots

\* Unsigned subtraction stays in the word.
LEMMA MinusType == \A a, b \in Int : Minus(a, b) \in 0..(Word - 1)
BY WordAssumption, BoundAssumption, CapAssumption DEF Minus

\* calloc and burst_new establish the invariant.
LEMMA InitIInv == Init => IInv
<1> SUFFICES ASSUME Init PROVE IInv
  OBVIOUS
<1> USE CapAssumption, BoundAssumption, WordAssumption
<1>1. TypeOK
  <2>1. 0 \in Slots /\ 0 \in 0..MaxWrites /\ 0 \in 0..MaxInc /\ 1 \in 1..MaxInc
        /\ 1 \in 0..MaxInc /\ 0 \in 0..(Word - 1) /\ 0 \in 0..Tries /\ 0 \in Nat
    BY DEF Slots
  <2>2. /\ gen \in [Slots -> Nat]
        /\ meta \in [Slots -> Packets \cup {NoPkt}]
        /\ body \in [Slots -> Packets \cup {NoPkt}]
    BY DEF Init
  <2>3. last \in [meta : Packets \cup {NoPkt}, body : Packets \cup {NoPkt}, at : 0..(Word - 1)]
    BY <2>1 DEF Init, NoSend
  <2>4. haveRap \in BOOLEAN /\ wpc \in WriterPc /\ bpc \in BurstPc /\ raps \subseteq 0..MaxWrites
    BY DEF Init, WriterPc, BurstPc
  <2>5. QED BY <2>1, <2>2, <2>3, <2>4 DEF Init, TypeOK
<1>2. OddOK /\ EntryOK /\ WriterOK /\ ReaderOK /\ LoopOK /\ NoTornPacket
  BY DEF Init, OddOK, Writing, EntryOK, WriterOK, ReaderOK, LoopOK, NoTornPacket, NoSend
<1>3. QED BY <1>1, <1>2 DEF IInv

\* Every step keeps the types.
LEMMA StepType == ASSUME IInv, Next PROVE TypeOK'
<1> USE CapAssumption, BoundAssumption, WordAssumption DEF WriterPc, BurstPc
<1>1. TypeOK /\ Entry \in Slots
  BY EntryType DEF IInv
<1>2. CASE Capture
  <2> USE <1>1 DEF TypeOK
  <2>1. CASE CaptureRap
    BY <2>1 DEF CaptureRap
  <2>2. CASE CaptureHave \/ CaptureOther
    BY <2>2 DEF CaptureHave, CaptureOther
  <2>3. CASE WriteBegin \/ WriteCommit
    <3>1. gen' \in [Slots -> Nat]
      BY <2>3 DEF WriteBegin, WriteCommit, BeginGen, CommitGen
    <3>2. QED BY <2>3, <3>1, ZenonT(40) DEF WriteBegin, WriteCommit
  <2>4. CASE WriteMeta \/ WriteBody
    <3>1. Packet \in Packets
      BY DEF Packet, Packets
    <3>2. meta' \in [Slots -> Packets \cup {NoPkt}] /\ body' \in [Slots -> Packets \cup {NoPkt}]
      BY <2>4, <3>1 DEF WriteMeta, WriteBody
    <3>3. wpc' \in WriterPc
      BY <2>4 DEF WriteMeta, WriteBody
    <3>4. QED BY <2>4, <3>2, <3>3, ZenonT(40) DEF WriteMeta, WriteBody
  <2>5. CASE WritePublish
    BY <2>5 DEF WritePublish, IInv, WriterOK
  <2>6. CASE Recycle \/ RestoreCap \/ RestoreGeneration
    <3>1. inc' \in 1..MaxInc /\ generation' \in 0..MaxInc
      BY <2>6 DEF Recycle, RestoreCap, RestoreGeneration
    <3>2. writeCount' \in 0..MaxWrites /\ rapWriteCount' \in 0..MaxWrites
      BY <2>6 DEF Recycle, RestoreCap, RestoreGeneration
    <3>3. QED BY <2>6, <3>1, <3>2, ZenonT(40) DEF Recycle, RestoreCap, RestoreGeneration
  <2>7. QED BY <1>2, <2>1, <2>2, <2>3, <2>4, <2>5, <2>6 DEF Capture
<1>3. CASE Burst
  <2> USE <1>1 DEF TypeOK
  <2>1. CASE BurstNew \/ PinWriteCount \/ PinHaveRap
    <3>1. cursor' \in 0..(Word - 1)
      BY <2>1 DEF BurstNew, PinWriteCount, PinHaveRap
    <3>2. QED BY <2>1, <3>1, ZenonT(40) DEF BurstNew, PinWriteCount, PinHaveRap
  <2>2. CASE PinRap
    <3>0. pinWc \in Int /\ cap \in Int
      OBVIOUS
    <3>1. Minus(pinWc, cap) \in 0..(Word - 1)
      BY <3>0, MinusType
    <3>2. rapWriteCount \in 0..(Word - 1)
      OBVIOUS
    <3>3. cursor' \in 0..(Word - 1)
      BY <2>2, <3>1, <3>2 DEF PinRap
    <3>4. QED BY <2>2, <3>3 DEF PinRap
  <2>3. CASE TickGeneration \/ TickEnd \/ LoopOver \/ LoopBudget \/ LoopGeneration \/ TickOver \/ GetAbs
    <3>1. bpc' \in BurstPc
      BY <2>3 DEF TickGeneration, TickEnd, LoopOver, LoopBudget, LoopGeneration, TickOver, GetAbs
    <3>2. end' \in 0..MaxWrites
      BY <2>3 DEF TickGeneration, TickEnd, LoopOver, LoopBudget, LoopGeneration, TickOver, GetAbs
    <3>3. CASE TickGeneration \/ TickEnd
      BY <3>1, <3>2, <3>3 DEF TickGeneration, TickEnd
    <3>4. CASE LoopOver \/ LoopBudget \/ LoopGeneration
      BY <3>1, <3>2, <3>4, ZenonT(40) DEF LoopOver, LoopBudget, LoopGeneration
    <3>5. CASE TickOver \/ GetAbs
      BY <3>1, <3>2, <3>5 DEF TickOver, GetAbs
    <3>6. QED BY <2>3, <3>3, <3>4, <3>5
  <2>4. CASE GetSlot
    <3>1. slot' \in Slots
      BY <2>4 DEF GetSlot, Slots
    <3>2. QED BY <2>4, <3>1 DEF GetSlot
  <2>5. CASE SeqBegin
    BY <2>5 DEF SeqBegin, Retry, NextTry, IInv, LoopOK
  <2>6. CASE ReadMeta \/ ReadBody
    BY <2>6, ZenonT(40) DEF ReadMeta, ReadBody
  <2>7. CASE CheckFails
    BY <2>7 DEF CheckFails, Retry, NextTry, IInv, LoopOK
  <2>8. CASE CheckSends
    BY <2>8 DEF CheckSends, IInv, LoopOK
  <2>9. CASE CheckStops
    BY <2>9 DEF CheckStops
  <2>10. CASE BurstFree
    BY <2>10 DEF BurstFree, NoSend, Slots
  <2>11. QED BY <1>3, <2>1, <2>2, <2>3, <2>4, <2>5, <2>6, <2>7, <2>8, <2>9, <2>10 DEF Burst
<1>4. QED BY <1>2, <1>3 DEF Next

\* Every step keeps the seqlock discipline.
LEMMA StepLock == ASSUME IInv, Next PROVE OddOK' /\ EntryOK' /\ ReaderOK'
<1> USE DEF IInv, TypeOK
<1>1. Entry \in Slots
  BY EntryType
<1>2. \A n \in Nat : (n % 2 = 0 => (n + 1) % 2 = 1) /\ (n % 2 = 1 => (n + 1) % 2 = 0)
                     /\ (n % 2 = 0 \/ n % 2 = 1)
  OBVIOUS
<1>3. ASSUME wpc \notin {"begin", "meta", "body", "commit", "publish"},
             wpc' \notin {"meta", "body", "commit"}, UNCHANGED <<gen, meta, body, burstVars>>
      PROVE  OddOK' /\ EntryOK' /\ ReaderOK'
  BY <1>2, <1>3 DEF OddOK, EntryOK, ReaderOK, Writing
<1>4. CASE CaptureRap \/ CaptureHave \/ CaptureOther \/ Recycle \/ RestoreCap \/ RestoreGeneration
  BY <1>3, <1>4 DEF CaptureRap, CaptureHave, CaptureOther, Recycle, RestoreCap, RestoreGeneration
<1>5. CASE WriteBegin
  <2>1. Entry' = Entry /\ gen' = [gen EXCEPT ![Entry] = @ + 1]
    BY <1>5 DEF WriteBegin, Entry, BeginGen
  <2>2. OddOK'
    BY <1>1, <1>2, <1>5, <2>1 DEF WriteBegin, OddOK, Writing
  <2>3. EntryOK'
    BY <1>1, <1>2, <1>5, <2>1 DEF WriteBegin, OddOK, Writing, EntryOK
  <2>4. ReaderOK'
    BY <1>1, <1>2, <1>5, <2>1 DEF WriteBegin, ReaderOK
  <2>5. QED BY <2>2, <2>3, <2>4
<1>6. CASE WriteMeta
  <2>1. Entry' = Entry /\ Packet' = Packet
    BY <1>6 DEF WriteMeta, Entry, Packet
  <2>2. OddOK' /\ EntryOK'
    BY <1>1, <1>2, <1>6, <2>1 DEF WriteMeta, OddOK, Writing, EntryOK
  <2>3. ReaderOK'
    BY <1>1, <1>2, <1>6, <2>1 DEF WriteMeta, ReaderOK, OddOK, Writing
  <2>4. QED BY <2>2, <2>3
<1>7. CASE WriteBody
  <2>1. Entry' = Entry /\ Packet' = Packet
    BY <1>7 DEF WriteBody, Entry, Packet
  <2>2. OddOK' /\ EntryOK'
    BY <1>1, <1>2, <1>7, <2>1 DEF WriteBody, OddOK, Writing, EntryOK
  <2>3. ReaderOK'
    BY <1>1, <1>2, <1>7, <2>1 DEF WriteBody, ReaderOK, OddOK, Writing
  <2>4. QED BY <2>2, <2>3
<1>8. CASE WriteCommit
  <2>1. Entry' = Entry /\ gen' = [gen EXCEPT ![Entry] = @ + 1]
    BY <1>8 DEF WriteCommit, Entry, CommitGen
  <2>2. OddOK'
    BY <1>1, <1>2, <1>8, <2>1 DEF WriteCommit, OddOK, Writing
  <2>3. EntryOK'
    BY <1>1, <1>2, <1>8, <2>1 DEF WriteCommit, OddOK, Writing, EntryOK
  <2>4. ReaderOK'
    BY <1>1, <1>2, <1>8, <2>1 DEF WriteCommit, ReaderOK
  <2>5. QED BY <2>2, <2>3, <2>4
<1>9. CASE WritePublish
  BY <1>2, <1>9 DEF WritePublish, OddOK, Writing, EntryOK, ReaderOK
<1>10. CASE Burst
  <2>1. UNCHANGED <<gen, meta, body, wpc, inc, writeCount>>
    BY <1>10 DEF Burst, BurstNew, PinWriteCount, PinHaveRap, PinRap, TickGeneration, TickEnd,
       LoopOver, LoopBudget, LoopGeneration, TickOver, GetAbs, GetSlot, SeqBegin, ReadMeta, ReadBody,
       CheckFails, CheckSends, CheckStops, BurstFree
  <2>2. OddOK' /\ EntryOK'
    BY <2>1 DEF OddOK, Writing, EntryOK, Entry, Packet
  <2>3. ReaderOK'
    <3>1. CASE SeqBegin
      BY <1>2, <2>1, <3>1 DEF SeqBegin, ReaderOK, Retry
    <3>2. CASE ReadMeta \/ ReadBody
      BY <2>1, <3>2 DEF ReadMeta, ReadBody, ReaderOK
    <3>3. CASE ~(SeqBegin \/ ReadMeta \/ ReadBody)
      <4>1. bpc' \notin {"rmeta", "rbody", "check"}
        BY <1>10, <3>3 DEF Burst, BurstNew, PinWriteCount, PinHaveRap, PinRap, TickGeneration,
           TickEnd, LoopOver, LoopBudget, LoopGeneration, TickOver, GetAbs, GetSlot, CheckFails, Retry,
           CheckSends, CheckStops, BurstFree
      <4>2. QED BY <4>1 DEF ReaderOK
    <3>4. QED BY <3>1, <3>2, <3>3
  <2>4. QED BY <2>2, <2>3
<1>11. QED BY <1>4, <1>5, <1>6, <1>7, <1>8, <1>9, <1>10 DEF Next, Capture

\* Every step keeps the loop bounds and sends whole packets only.
LEMMA StepLoop == ASSUME IInv, Next PROVE WriterOK' /\ LoopOK' /\ NoTornPacket'
<1> USE CapAssumption, BoundAssumption, WordAssumption DEF IInv, TypeOK
<1>1. CASE Capture
  BY <1>1 DEF Capture, CaptureRap, CaptureHave, CaptureOther, WriteBegin, WriteMeta, WriteBody,
     WriteCommit, WritePublish, Recycle, RestoreCap, RestoreGeneration, WriterOK, LoopOK, NoTornPacket
<1>2. CASE Burst
  <2>1. WriterOK'
    BY <1>2 DEF Burst, BurstNew, PinWriteCount, PinHaveRap, PinRap, TickGeneration, TickEnd,
       LoopOver, LoopBudget, LoopGeneration, TickOver, GetAbs, GetSlot, SeqBegin, ReadMeta, ReadBody,
       CheckFails, CheckSends, CheckStops, BurstFree, WriterOK
  <2>2. LoopOK'
    BY <1>2 DEF Burst, BurstNew, PinWriteCount, PinHaveRap, PinRap, TickGeneration, TickEnd,
       LoopOver, LoopBudget, LoopGeneration, TickOver, GetAbs, GetSlot, SeqBegin, ReadMeta, ReadBody,
       CheckFails, CheckSends, CheckStops, BurstFree, LoopOK, Retry, NextTry
  <2>3. NoTornPacket'
    <3>1. CASE CheckSends
      <4>1. slot \in Slots /\ gen[slot] % 2 = 0 /\ rmeta = meta[slot] /\ rbody = body[slot]
        BY <3>1 DEF CheckSends, ReaderOK
      <4>2. rmeta = rbody
        BY <4>1 DEF EntryOK
      <4>3. QED BY <3>1, <4>2 DEF CheckSends, NoTornPacket
    <3>2. CASE BurstFree
      BY <3>2 DEF BurstFree, NoTornPacket, NoSend
    <3>3. CASE ~(CheckSends \/ BurstFree)
      BY <1>2, <3>3 DEF Burst, BurstNew, PinWriteCount, PinHaveRap, PinRap, TickGeneration,
         TickEnd, LoopOver, LoopBudget, LoopGeneration, TickOver, GetAbs, GetSlot, SeqBegin, ReadMeta,
         ReadBody, CheckFails, CheckStops, NoTornPacket
    <3>4. QED BY <3>1, <3>2, <3>3
  <2>4. QED BY <2>1, <2>2, <2>3
<1>3. QED BY <1>1, <1>2 DEF Next

\* The invariant is inductive.
LEMMA StepIInv == IInv /\ [Next]_vars => IInv'
<1> SUFFICES ASSUME IInv, [Next]_vars PROVE IInv'
  OBVIOUS
<1>1. CASE Next
  BY <1>1, StepType, StepLock, StepLoop DEF IInv
<1>2. CASE UNCHANGED vars
  BY <1>2 DEF vars, IInv, TypeOK, OddOK, Writing, EntryOK, WriterOK, ReaderOK, LoopOK, NoTornPacket,
     Entry, Packet
<1>3. QED BY <1>1, <1>2

\* The cache, its writer and a burst keep their types.
THEOREM TypeCorrect == Spec => []TypeOK
<1>1. IInv => TypeOK
  BY DEF IInv
<1>2. QED BY <1>1, InitIInv, StepIInv, PTL DEF Spec

\* cache_read_abs never hands a burst the header of one packet with the payload
\* of another.
THEOREM NoTornCorrect == Spec => []NoTornPacket
<1>1. IInv => NoTornPacket
  BY DEF IInv
<1>2. QED BY <1>1, InitIInv, StepIInv, PTL DEF Spec

-----------------------------------------------------------------------------
(* What a burst sends is never older than its cursor.                       *)

\* A packet captured for position p of incarnation n, or later.
Fresh(pkt, n, p) ==
  pkt \in Packets /\ (pkt[1] > n \/ (pkt[1] = n /\ pkt[2] >= p))

\* Every position already written has a packet at least that new in its entry.
FillOK ==
  /\ \A p \in 0..MaxWrites : p < writeCount => Fresh(meta[p % Cap], inc, p)
  /\ wpc = "publish" => meta[Entry] = Packet

Fetching == bpc \in {"seq", "rmeta", "rbody", "check"}

\* A burst past channel_cache_get_abs reads an entry that its position has
\* reached, and no later write there is older.
FetchOK ==
  /\ bInc <= inc
  /\ bpc = "slot" \/ Fetching => (inc = bInc => cursor < writeCount)
  /\ bpc = "slot" => Fresh(meta[cursor % Cap], bInc, cursor)
  /\ Fetching => Fresh(meta[slot], bInc, cursor)
  /\ bpc \in {"rbody", "check"} => Fresh(rmeta, bInc, cursor)
  /\ bpc = "none" => last = NoSend

AgeInv == IInv /\ FillOK /\ FetchOK /\ NeverOlder

\* The packet being captured is newer than every position reached so far.
LEMMA PacketFresh ==
  ASSUME TypeOK, NEW n \in Int, NEW p \in Int, n <= inc, n = inc => p <= writeCount
  PROVE  Fresh(Packet, n, p)
<1>1. Packet \in Packets
  BY DEF Packet, Packets, TypeOK
<1>2. Packet[1] = inc /\ Packet[2] = writeCount
  BY DEF Packet
<1>3. inc \in Int /\ writeCount \in Int
  BY DEF TypeOK
<1>4. QED BY <1>1, <1>2, <1>3 DEF Fresh

\* The capture thread, when it changes neither counters nor metadata.
LEMMA AgeQuiet ==
  ASSUME AgeInv, UNCHANGED <<meta, writeCount, inc, burstVars>>,
         wpc' = "publish" => wpc \in {"commit", "publish"}
  PROVE  FillOK' /\ FetchOK' /\ NeverOlder'
<1>1. wpc' = "publish" => meta[Entry] = Packet
  BY DEF AgeInv, IInv, EntryOK, FillOK
<1>2. FillOK'
  BY <1>1 DEF AgeInv, FillOK, Entry, Packet
<1>3. FetchOK' /\ NeverOlder'
  BY DEF AgeInv, FetchOK, Fetching, NeverOlder
<1>4. QED BY <1>2, <1>3

\* An entry gets newer metadata.
LEMMA AgeMeta == ASSUME AgeInv, WriteMeta PROVE FillOK' /\ FetchOK' /\ NeverOlder'
<1>1. TypeOK /\ Entry \in Slots
  BY EntryType DEF AgeInv, IInv
<1>2. UNCHANGED <<writeCount, inc, burstVars>> /\ wpc' = "body" /\ meta' = [meta EXCEPT ![Entry] = Packet]
  BY DEF WriteMeta
<1>3. \A i \in Slots : meta'[i] = meta[i] \/ meta'[i] = Packet
  BY <1>1, <1>2 DEF TypeOK
<1>4. \A p \in Int : p % Cap \in Slots
  BY CapAssumption DEF Slots
<1>5. ASSUME NEW i \in Slots, NEW n \in Int, NEW p \in Int, n <= inc, n = inc => p <= writeCount,
             Fresh(meta[i], n, p)
      PROVE  Fresh(meta'[i], n, p)
  <2>1. Fresh(Packet, n, p)
    BY <1>1, <1>5, PacketFresh
  <2>2. QED BY <1>3, <1>5, <2>1
<1>6. FillOK'
  <2>1. ASSUME NEW p \in 0..MaxWrites, p < writeCount PROVE Fresh(meta'[p % Cap], inc, p)
    <3>1. Fresh(meta[p % Cap], inc, p)
      BY <2>1 DEF AgeInv, FillOK
    <3>2. p \in Int /\ inc \in Int /\ inc <= inc /\ p <= writeCount
      BY <1>1, <2>1, BoundAssumption DEF TypeOK
    <3>3. QED BY <1>4, <1>5, <3>1, <3>2
  <2>2. QED BY <1>2, <2>1 DEF FillOK
<1>7. FetchOK'
  <2>1. bInc \in Int /\ cursor \in Int /\ inc \in Int /\ writeCount \in Int /\ slot \in Slots
    BY <1>1, WordAssumption, BoundAssumption DEF TypeOK
  <2>2. bInc <= inc /\ (bpc = "slot" \/ Fetching => (bInc = inc => cursor <= writeCount))
    BY <2>1 DEF AgeInv, FetchOK
  <2>3. bpc = "slot" => Fresh(meta'[cursor % Cap], bInc, cursor)
    <3>1. cursor % Cap \in Slots
      BY <1>4, <2>1
    <3>2. QED BY <1>5, <2>1, <2>2, <3>1 DEF AgeInv, FetchOK
  <2>4. Fetching => Fresh(meta'[slot], bInc, cursor)
    BY <1>5, <2>1, <2>2 DEF AgeInv, FetchOK
  <2>5. QED BY <1>2, <2>3, <2>4 DEF AgeInv, FetchOK, Fetching
<1>8. NeverOlder'
  BY <1>2 DEF AgeInv, NeverOlder
<1>9. QED BY <1>6, <1>7, <1>8

\* The position just written is published with its own packet in place.
LEMMA AgePublish == ASSUME AgeInv, WritePublish PROVE FillOK' /\ FetchOK' /\ NeverOlder'
<1>1. TypeOK /\ Entry \in Slots /\ writeCount \in Int /\ inc \in Int /\ cursor \in Int /\ bInc \in Int
  BY EntryType, WordAssumption, BoundAssumption DEF AgeInv, IInv, TypeOK
<1>2. UNCHANGED <<meta, inc, burstVars>> /\ wpc' = "idle" /\ writeCount' = writeCount + 1
  BY DEF WritePublish
<1>3. meta[Entry] = Packet
  BY DEF AgeInv, FillOK, WritePublish
<1>4. FillOK'
  <2>1. ASSUME NEW p \in 0..MaxWrites, p < writeCount' PROVE Fresh(meta[p % Cap], inc, p)
    <3>1. CASE p < writeCount
      BY <3>1 DEF AgeInv, FillOK
    <3>2. CASE p = writeCount
      <4>1. Fresh(Packet, inc, writeCount)
        BY <1>1, PacketFresh
      <4>2. QED BY <1>3, <3>2, <4>1 DEF Entry
    <3>3. p \in Int
      BY BoundAssumption
    <3>4. QED BY <1>1, <1>2, <2>1, <3>1, <3>2, <3>3
  <2>2. QED BY <1>2, <2>1 DEF FillOK
<1>5. FetchOK'
  <2>1. bpc = "slot" \/ Fetching => (inc = bInc => cursor < writeCount')
    BY <1>1, <1>2 DEF AgeInv, FetchOK
  <2>2. QED BY <1>2, <2>1 DEF AgeInv, FetchOK, Fetching
<1>6. NeverOlder'
  BY <1>2 DEF AgeInv, NeverOlder
<1>7. QED BY <1>4, <1>5, <1>6

\* A recycled slot starts counting again, for a later incarnation.
LEMMA AgeRecycle == ASSUME AgeInv, Recycle PROVE FillOK' /\ FetchOK' /\ NeverOlder'
<1>1. inc \in Int /\ bInc \in Int
  BY DEF AgeInv, IInv, TypeOK
<1>2. UNCHANGED <<meta, burstVars>> /\ wpc' = "restore" /\ writeCount' = 0 /\ inc' = inc + 1
  BY DEF Recycle
<1>3. FillOK'
  BY <1>2, BoundAssumption DEF FillOK
<1>4. FetchOK'
  <2>1. bInc <= inc' /\ inc' # bInc
    BY <1>1, <1>2 DEF AgeInv, FetchOK
  <2>2. QED BY <1>2, <2>1 DEF AgeInv, FetchOK, Fetching
<1>5. NeverOlder'
  BY <1>2 DEF AgeInv, NeverOlder
<1>6. QED BY <1>3, <1>4, <1>5

\* A burst only fetches what channel_cache_get_abs found to be written.
LEMMA AgeBurst == ASSUME AgeInv, Burst PROVE FillOK' /\ FetchOK' /\ NeverOlder'
<1>1. /\ inc \in Int /\ bInc \in Int /\ cursor \in Int /\ writeCount \in Int /\ slot \in Slots
      /\ meta \in [Slots -> Packets \cup {NoPkt}] /\ cursor >= 0
  BY WordAssumption, BoundAssumption DEF AgeInv, IInv, TypeOK
<1>2. UNCHANGED <<meta, writeCount, inc, wpc>>
  BY DEF Burst, BurstNew, PinWriteCount, PinHaveRap, PinRap, TickGeneration, TickEnd,
     LoopOver, LoopBudget, LoopGeneration, TickOver, GetAbs, GetSlot, SeqBegin, ReadMeta, ReadBody,
     CheckFails, CheckSends, CheckStops, BurstFree
<1>3. FillOK'
  BY <1>2 DEF AgeInv, FillOK, Entry, Packet
<1>4. FetchOK /\ NeverOlder /\ FillOK
  BY DEF AgeInv
<1>5. CASE BurstNew
  BY <1>1, <1>2, <1>4, <1>3, <1>5 DEF BurstNew, FetchOK, Fetching, NeverOlder
<1>6. CASE PinWriteCount \/ PinHaveRap \/ PinRap
  BY <1>2, <1>3, <1>4, <1>6 DEF PinWriteCount, PinHaveRap, PinRap, FetchOK, Fetching, NeverOlder
<1>7. CASE TickGeneration \/ TickEnd \/ LoopOver \/ LoopBudget \/ LoopGeneration \/ TickOver
  BY <1>2, <1>3, <1>4, <1>7 DEF TickGeneration, TickEnd, LoopOver, LoopBudget, LoopGeneration, TickOver,
     FetchOK, Fetching, NeverOlder
<1>8. CASE GetAbs
  <2>1. ASSUME InCache
        PROVE  cursor < writeCount /\ Fresh(meta[cursor % Cap], bInc, cursor)
    <3>1. cursor < writeCount
      BY <2>1 DEF InCache
    <3>2. cursor \in 0..MaxWrites
      BY <1>1, <3>1, BoundAssumption DEF AgeInv, IInv, TypeOK
    <3>3. Fresh(meta[cursor % Cap], inc, cursor)
      BY <1>4, <3>1, <3>2 DEF FillOK
    <3>4. bInc <= inc
      BY <1>4 DEF FetchOK
    <3>5. meta[cursor % Cap] \in Packets /\ meta[cursor % Cap][1] \in Int
      BY <3>3 DEF Fresh, Packets
    <3>6. QED BY <1>1, <3>1, <3>3, <3>4, <3>5 DEF Fresh
  <2>2. UNCHANGED <<cursor, slot, rmeta, bInc, last>> /\ bpc' = (IF InCache THEN "slot" ELSE "ready")
    BY <1>8 DEF GetAbs
  <2>3. QED BY <1>2, <1>3, <1>4, <2>1, <2>2 DEF FetchOK, Fetching, NeverOlder
<1>9. CASE GetSlot
  <2>1. cap \in {0, Cap}
    BY DEF AgeInv, IInv, TypeOK
  <2>2. QED BY <1>2, <1>3, <1>4, <1>9, <2>1 DEF GetSlot, FetchOK, Fetching, NeverOlder
<1>10. CASE SeqBegin \/ CheckFails
  <2>1. UNCHANGED <<cursor, slot, rmeta, bInc, last>> /\ Fetching /\ bpc' \in {"seq", "rmeta", "ready"}
    BY <1>10 DEF SeqBegin, CheckFails, Retry, Fetching
  <2>2. QED BY <1>2, <1>3, <1>4, <2>1 DEF FetchOK, Fetching, NeverOlder
<1>11. CASE ReadMeta \/ ReadBody
  BY <1>2, <1>3, <1>4, <1>11 DEF ReadMeta, ReadBody, FetchOK, Fetching, NeverOlder
<1>12. CASE CheckSends
  <2>1. Fresh(rmeta, bInc, cursor)
    BY <1>4, <1>12 DEF CheckSends, FetchOK
  <2>2. last'.meta = rmeta /\ last'.at = cursor /\ bInc' = bInc
    BY <1>12 DEF CheckSends
  <2>3. NeverOlder'
    BY <2>1, <2>2, NoPktAssumption DEF NeverOlder, Fresh
  <2>4. FetchOK'
    BY <1>2, <1>4, <1>12 DEF CheckSends, FetchOK, Fetching
  <2>5. QED BY <1>3, <2>3, <2>4
<1>13. CASE CheckStops
  BY <1>2, <1>3, <1>4, <1>13 DEF CheckStops, FetchOK, Fetching, NeverOlder
<1>14. CASE BurstFree
  <2>1. 1 <= inc
    BY DEF AgeInv, IInv, TypeOK
  <2>2. QED BY <1>2, <1>3, <1>14, <2>1 DEF BurstFree, FetchOK, Fetching, NeverOlder
<1>15. QED BY <1>5, <1>6, <1>7, <1>8, <1>9, <1>10, <1>11, <1>12, <1>13, <1>14 DEF Burst

\* What a burst sends was captured at its cursor or later, and never for a
\* channel that used the slot before, for any ring capacity and any lapping.
THEOREM NeverOlderCorrect == Spec => []NeverOlder
<1>1. Init => AgeInv
  <2> SUFFICES ASSUME Init PROVE AgeInv
    OBVIOUS
  <2>1. IInv
    BY InitIInv
  <2>2. FillOK /\ FetchOK /\ NeverOlder
    BY BoundAssumption DEF Init, FillOK, FetchOK, Fetching, NeverOlder
  <2>3. QED BY <2>1, <2>2 DEF AgeInv
<1>2. AgeInv /\ [Next]_vars => AgeInv'
  <2> SUFFICES ASSUME AgeInv, [Next]_vars PROVE AgeInv'
    OBVIOUS
  <2>1. IInv'
    BY StepIInv DEF AgeInv
  <2>2. CASE WriteMeta \/ WritePublish \/ Recycle \/ Burst
    BY <2>1, <2>2, AgeMeta, AgePublish, AgeRecycle, AgeBurst DEF AgeInv
  <2>3. CASE CaptureRap \/ CaptureHave \/ CaptureOther \/ WriteBegin \/ WriteBody \/ WriteCommit
             \/ RestoreCap \/ RestoreGeneration
    <3>1. UNCHANGED <<meta, writeCount, inc, burstVars>> /\ (wpc' = "publish" => wpc = "commit")
      BY <2>3 DEF CaptureRap, CaptureHave, CaptureOther, WriteBegin, WriteBody, WriteCommit,
         RestoreCap, RestoreGeneration
    <3>2. QED BY <2>1, <3>1, AgeQuiet DEF AgeInv
  <2>4. CASE UNCHANGED vars
    BY <2>1, <2>4, AgeQuiet DEF vars, AgeInv
  <2>5. QED BY <2>2, <2>3, <2>4 DEF Next, Capture
<1>3. AgeInv => NeverOlder
  BY DEF AgeInv
<1>4. QED BY <1>1, <1>2, <1>3, PTL DEF Spec
=============================================================================
