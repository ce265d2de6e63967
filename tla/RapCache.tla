------------------------------ MODULE RapCache ------------------------------
(***************************************************************************)
(* One channel's FCC cache (channel/ring.c): the capture thread appends     *)
(* packets through rap_cache_append and recycles the channel slot through   *)
(* channel_lookup, while a burst pins its start (channel_cache_pin) and     *)
(* reads packets (channel_cache_get_abs) without a lock, each entry under   *)
(* the seqlock of lib/helper/seqlock.h.                                     *)
(*                                                                          *)
(* Every atomic load and store that another thread can observe is a step of *)
(* its own.  Steps are sequentially consistent: the release and acquire     *)
(* fences of the seqlock and of write_count order what is modelled, and     *)
(* rap_write_count, which is relaxed, can only be staler than shown here.   *)
(*                                                                          *)
(* A packet is named by the incarnation of the channel it was captured for  *)
(* and its position in that incarnation's write order.  An entry has two    *)
(* words, meta (seq, timestamp, dscp) and body (payload and its length).    *)
(***************************************************************************)
EXTENDS Integers

CONSTANTS
  Cap,          \* cache_cap: entries of the ring
  Tries,        \* SEQLOCK_READ_TRIES
  Word,         \* 2^64: positions are unsigned 64-bit numbers
  MaxWrites,    \* bound: packets captured per incarnation
  MaxInc,       \* bound: incarnations of the channel slot
  NoPkt         \* contents of an entry before its first write

ASSUME CapAssumption == Cap \in Nat \ {0} /\ Tries \in Nat \ {0}
ASSUME BoundAssumption == MaxWrites \in Nat /\ MaxInc \in Nat \ {0}
ASSUME WordAssumption == Word \in Nat /\ Word > MaxWrites + Cap

Slots == 0..(Cap - 1)
Packets == (1..MaxInc) \X (0..MaxWrites)
ASSUME NoPktAssumption == NoPkt \notin Packets

VARIABLES
  \* rap_cache_t and channel_t
  writeCount, rapWriteCount, haveRap, cap, generation,
  \* the ring
  gen, meta, body,
  \* capture thread
  wpc, inc,       \* inc: the channel's incarnation, the value generation settles on
  raps,           \* positions of this incarnation that started at a RAP (history)
  \* one burst: pinned by a worker, ticked by the pacer
  bpc, bGen, cursor, pinWc, end, slot, tries, g, rmeta, rbody,
  bInc,           \* incarnation when bGen was read (history)
  last            \* the packet sent last and the cursor it was sent for (history)

cacheVars == <<writeCount, rapWriteCount, haveRap, cap, generation>>
ringVars  == <<gen, meta, body>>
capVars   == <<wpc, inc, raps>>
readVars  == <<slot, tries, g, rmeta, rbody>>
burstVars == <<bpc, bGen, cursor, pinWc, end, slot, tries, g, rmeta, rbody, bInc, last>>
vars == <<writeCount, rapWriteCount, haveRap, cap, generation, gen, meta, body, wpc, inc, raps,
          bpc, bGen, cursor, pinWc, end, slot, tries, g, rmeta, rbody, bInc, last>>

NoSend == [meta |-> NoPkt, body |-> NoPkt, at |-> 0]

Init ==
  /\ writeCount = 0 /\ rapWriteCount = 0 /\ haveRap = FALSE
  /\ cap = Cap /\ generation = 1
  /\ gen = [i \in Slots |-> 0]
  /\ meta = [i \in Slots |-> NoPkt]
  /\ body = [i \in Slots |-> NoPkt]
  /\ wpc = "idle" /\ inc = 1 /\ raps = {}
  /\ bpc = "none" /\ bGen = 0 /\ cursor = 0 /\ pinWc = 0 /\ end = 0
  /\ slot = 0 /\ tries = 0 /\ g = 0 /\ rmeta = NoPkt /\ rbody = NoPkt
  /\ bInc = 1 /\ last = NoSend

\* Unsigned subtraction.
Minus(a, b) == (a - b) % Word

\* Mutants used to test the properties below.
BeginGenForgotten(n) == n
EntryNext == (writeCount + 1) % Cap
NextTryForgotten == tries

(***************************************************************************)
(* The capture thread.                                                      *)
(***************************************************************************)
Packet == <<inc, writeCount>>
Entry == writeCount % Cap

\* seqlock_begin_write and seqlock_commit_write.
BeginGen(n) == n + 1
CommitGen(n) == n + 1

\* rap_cache_append, a packet that starts at a RAP: store its position first.
CaptureRap ==
  /\ wpc = "idle" /\ writeCount < MaxWrites
  /\ rapWriteCount' = writeCount
  /\ raps' = raps \cup {writeCount}
  /\ wpc' = "have"
  /\ UNCHANGED <<writeCount, haveRap, cap, generation, ringVars, inc, burstVars>>

CaptureHave ==
  /\ wpc = "have"
  /\ haveRap' = TRUE
  /\ wpc' = "begin"
  /\ UNCHANGED <<writeCount, rapWriteCount, cap, generation, ringVars, inc, raps, burstVars>>

\* Any other packet: nothing is cached until the first RAP arrives.
CaptureOther ==
  /\ wpc = "idle" /\ writeCount < MaxWrites /\ haveRap
  /\ wpc' = "begin"
  /\ UNCHANGED <<cacheVars, ringVars, inc, raps, burstVars>>

WriteBegin ==
  /\ wpc = "begin"
  /\ gen' = [gen EXCEPT ![Entry] = BeginGen(@)]
  /\ wpc' = "meta"
  /\ UNCHANGED <<cacheVars, meta, body, inc, raps, burstVars>>

WriteMeta ==
  /\ wpc = "meta"
  /\ meta' = [meta EXCEPT ![Entry] = Packet]
  /\ wpc' = "body"
  /\ UNCHANGED <<cacheVars, gen, body, inc, raps, burstVars>>

WriteBody ==
  /\ wpc = "body"
  /\ body' = [body EXCEPT ![Entry] = Packet]
  /\ wpc' = "commit"
  /\ UNCHANGED <<cacheVars, gen, meta, inc, raps, burstVars>>

WriteCommit ==
  /\ wpc = "commit"
  /\ gen' = [gen EXCEPT ![Entry] = CommitGen(@)]
  /\ wpc' = "publish"
  /\ UNCHANGED <<cacheVars, meta, body, inc, raps, burstVars>>

WritePublish ==
  /\ wpc = "publish"
  /\ writeCount' = writeCount + 1
  /\ wpc' = "idle"
  /\ UNCHANGED <<rapWriteCount, haveRap, cap, generation, ringVars, inc, raps, burstVars>>

\* channel_lookup claims the reaped slot for another group: the memset clears
\* the counters, the capacity and the generation, the last two are restored
\* after it.  The entries keep their contents and their seqlocks.
Recycle ==
  /\ wpc = "idle" /\ inc < MaxInc
  /\ writeCount' = 0 /\ rapWriteCount' = 0 /\ haveRap' = FALSE
  /\ cap' = 0 /\ generation' = 0
  /\ inc' = inc + 1 /\ raps' = {}
  /\ wpc' = "restore"
  /\ UNCHANGED <<ringVars, burstVars>>

RestoreCap ==
  /\ wpc = "restore"
  /\ cap' = Cap
  /\ wpc' = "regen"
  /\ UNCHANGED <<writeCount, rapWriteCount, haveRap, generation, ringVars, inc, raps, burstVars>>

RestoreGeneration ==
  /\ wpc = "regen"
  /\ generation' = inc
  /\ wpc' = "idle"
  /\ UNCHANGED <<writeCount, rapWriteCount, haveRap, cap, ringVars, inc, raps, burstVars>>

Capture == \/ CaptureRap \/ CaptureHave \/ CaptureOther
           \/ WriteBegin \/ WriteMeta \/ WriteBody \/ WriteCommit \/ WritePublish
           \/ Recycle \/ RestoreCap \/ RestoreGeneration

(***************************************************************************)
(* A burst.  burst_decide has seen have_rap; burst_new reads the generation *)
(* and pins the cursor.                                                     *)
(***************************************************************************)
BurstNew ==
  /\ bpc = "none" /\ haveRap
  /\ bGen' = generation /\ bInc' = inc
  /\ bpc' = "pinWc"
  /\ UNCHANGED <<cacheVars, ringVars, capVars, cursor, pinWc, end, readVars, last>>

\* channel_cache_pin loads write_count, have_rap and rap_write_count in turn.
PinWriteCount ==
  /\ bpc = "pinWc"
  /\ pinWc' = writeCount
  /\ bpc' = "pinHave"
  /\ UNCHANGED <<cacheVars, ringVars, capVars, bGen, cursor, end, readVars, bInc, last>>

PinHaveRap ==
  /\ bpc = "pinHave"
  /\ cursor' = IF haveRap THEN cursor ELSE pinWc
  /\ bpc' = IF haveRap THEN "pinRap" ELSE "ready"
  /\ UNCHANGED <<cacheVars, ringVars, capVars, bGen, pinWc, end, readVars, bInc, last>>

PinRap ==
  /\ bpc = "pinRap"
  /\ cursor' = IF Minus(pinWc, rapWriteCount) > cap THEN Minus(pinWc, cap) ELSE rapWriteCount
  /\ bpc' = "ready"
  /\ UNCHANGED <<cacheVars, ringVars, capVars, bGen, pinWc, end, readVars, bInc, last>>

\* burst_tick's checks: the channel was recycled, or the writer lapped the cursor.
TickGeneration ==
  /\ bpc = "ready"
  /\ bpc' = IF generation = bGen THEN "tickEnd" ELSE "done"
  /\ UNCHANGED <<cacheVars, ringVars, capVars, bGen, cursor, pinWc, end, readVars, bInc, last>>

TickEnd ==
  /\ bpc = "tickEnd"
  /\ end' = writeCount
  /\ bpc' = IF Minus(writeCount, cursor) > cap THEN "done" ELSE "loop"
  /\ UNCHANGED <<cacheVars, ringVars, capVars, bGen, cursor, pinWc, readVars, bInc, last>>

\* The top of the send loop; the pacing budget may end the tick.
LoopOver ==
  /\ bpc = "loop" /\ cursor >= end
  /\ bpc' = "done"
  /\ UNCHANGED <<cacheVars, ringVars, capVars, bGen, cursor, pinWc, end, readVars, bInc, last>>

LoopBudget ==
  /\ bpc = "loop" /\ cursor < end
  /\ bpc' = "ready"
  /\ UNCHANGED <<cacheVars, ringVars, capVars, bGen, cursor, pinWc, end, readVars, bInc, last>>

LoopGeneration ==
  /\ bpc = "loop" /\ cursor < end
  /\ bpc' = IF generation = bGen THEN "get" ELSE "done"
  /\ UNCHANGED <<cacheVars, ringVars, capVars, bGen, cursor, pinWc, end, readVars, bInc, last>>

\* burst_terminate by another thread, or the duration cap.
TickOver ==
  /\ bpc \in {"ready", "loop"}
  /\ bpc' = "done"
  /\ UNCHANGED <<cacheVars, ringVars, capVars, bGen, cursor, pinWc, end, readVars, bInc, last>>

\* channel_cache_get_abs: not yet written, or overwritten, ends the tick.
InCache == cap > 0 /\ cursor < writeCount /\ Minus(writeCount, cursor) <= cap

GetAbs ==
  /\ bpc = "get"
  /\ bpc' = IF InCache THEN "slot" ELSE "ready"
  /\ UNCHANGED <<cacheVars, ringVars, capVars, bGen, cursor, pinWc, end, readVars, bInc, last>>

\* cache_read_abs: abs_pos % cap, with the capacity, a plain field, loaded again; zero traps.
GetSlot ==
  /\ bpc = "slot"
  /\ bpc' = IF cap = 0 THEN "fault" ELSE "seq"
  /\ slot' = IF cap = 0 THEN slot ELSE cursor % cap
  /\ tries' = 0
  /\ UNCHANGED <<cacheVars, ringVars, capVars, bGen, cursor, pinWc, end, g, rmeta, rbody, bInc, last>>

\* SEQLOCK_READ_LOOP: an odd generation, and a changed one, cost a try each.
NextTry == tries + 1
Retry == IF NextTry < Tries THEN "seq" ELSE "ready"

SeqBegin ==
  /\ bpc = "seq"
  /\ g' = gen[slot]
  /\ IF gen[slot] % 2 = 1 THEN bpc' = Retry /\ tries' = NextTry
                          ELSE bpc' = "rmeta" /\ UNCHANGED tries
  /\ UNCHANGED <<cacheVars, ringVars, capVars, bGen, cursor, pinWc, end, slot, rmeta, rbody, bInc, last>>

ReadMeta ==
  /\ bpc = "rmeta"
  /\ rmeta' = meta[slot]
  /\ bpc' = "rbody"
  /\ UNCHANGED <<cacheVars, ringVars, capVars, bGen, cursor, pinWc, end, slot, tries, g, rbody, bInc, last>>

ReadBody ==
  /\ bpc = "rbody"
  /\ rbody' = body[slot]
  /\ bpc' = "check"
  /\ UNCHANGED <<cacheVars, ringVars, capVars, bGen, cursor, pinWc, end, slot, tries, g, rmeta, bInc, last>>

\* seqlock_read_ok failed.
CheckFails ==
  /\ bpc = "check" /\ gen[slot] # g
  /\ bpc' = Retry /\ tries' = NextTry
  /\ UNCHANGED <<cacheVars, ringVars, capVars, bGen, cursor, pinWc, end, slot, g, rmeta, rbody, bInc, last>>

\* The packet is whole: send it, unless it reaches the client's stop_seq.
CheckSends ==
  /\ bpc = "check" /\ gen[slot] = g
  /\ last' = [meta |-> rmeta, body |-> rbody, at |-> cursor]
  /\ cursor' = cursor + 1
  /\ bpc' = "loop"
  /\ UNCHANGED <<cacheVars, ringVars, capVars, bGen, pinWc, end, readVars, bInc>>

CheckStops ==
  /\ bpc = "check" /\ gen[slot] = g
  /\ bpc' = "done"
  /\ UNCHANGED <<cacheVars, ringVars, capVars, bGen, cursor, pinWc, end, readVars, bInc, last>>

\* The burst is freed; the client may ask for another one.
BurstFree ==
  /\ bpc = "done"
  /\ bpc' = "none"
  /\ bGen' = 0 /\ cursor' = 0 /\ pinWc' = 0 /\ end' = 0
  /\ slot' = 0 /\ tries' = 0 /\ g' = 0 /\ rmeta' = NoPkt /\ rbody' = NoPkt
  /\ bInc' = 1 /\ last' = NoSend
  /\ UNCHANGED <<cacheVars, ringVars, capVars>>

Burst == \/ BurstNew \/ PinWriteCount \/ PinHaveRap \/ PinRap
         \/ TickGeneration \/ TickEnd \/ LoopOver \/ LoopBudget \/ LoopGeneration \/ TickOver
         \/ GetAbs \/ GetSlot \/ SeqBegin \/ ReadMeta \/ ReadBody
         \/ CheckFails \/ CheckSends \/ CheckStops \/ BurstFree

Next == Capture \/ Burst

Spec == Init /\ [][Next]_vars

\* The pacer keeps running; nothing is assumed of the capture thread.
FairSpec == Spec /\ WF_vars(Burst)

-----------------------------------------------------------------------------
WriterPc == {"idle", "have", "begin", "meta", "body", "commit", "publish", "restore", "regen"}
BurstPc == {"none", "pinWc", "pinHave", "pinRap", "ready", "tickEnd", "loop", "get", "slot",
            "seq", "rmeta", "rbody", "check", "done", "fault"}

\* Every variable of the cache, its writer and a burst has its type.
TypeOK ==
  /\ writeCount \in 0..MaxWrites /\ rapWriteCount \in 0..MaxWrites /\ haveRap \in BOOLEAN
  /\ cap \in {0, Cap} /\ generation \in 0..MaxInc
  /\ gen \in [Slots -> Nat]
  /\ meta \in [Slots -> Packets \cup {NoPkt}]
  /\ body \in [Slots -> Packets \cup {NoPkt}]
  /\ wpc \in WriterPc /\ inc \in 1..MaxInc /\ raps \subseteq 0..MaxWrites
  /\ bpc \in BurstPc /\ bGen \in 0..MaxInc /\ cursor \in 0..(Word - 1)
  /\ pinWc \in 0..MaxWrites /\ end \in 0..MaxWrites
  /\ slot \in Slots /\ tries \in 0..Tries /\ g \in Nat
  /\ rmeta \in Packets \cup {NoPkt} /\ rbody \in Packets \cup {NoPkt}
  /\ bInc \in 1..MaxInc
  /\ last \in [meta : Packets \cup {NoPkt}, body : Packets \cup {NoPkt}, at : 0..(Word - 1)]

\* cache_read_abs never returns the header of one packet with the payload of
\* another, however often the writer wraps or the channel is recycled meanwhile.
NoTornPacket == last.meta = last.body

\* A burst never steps back: what it sends was captured at its cursor or
\* later, and never for a channel that used the slot before.
NeverOlder ==
  last # NoSend => /\ last.meta # NoPkt
                   /\ \/ last.meta[1] > bInc
                      \/ last.meta[1] = bInc /\ last.meta[2] >= last.at

\* Lock-free readers are wait-free: a tick comes to its end whatever the
\* capture thread does or wherever it stalls.
TickReturns == bpc \in BurstPc \ {"none", "fault"} ~> bpc \in {"ready", "done", "fault"}

\* burst.c of channel_cache_get_abs: "lapped by writer or raced with reclaim,
\* stop rather than misread": what a burst sends is the packet at its cursor.
SendsItsPacket == last # NoSend => last.meta = <<bInc, last.at>>

\* burst.h: "cursor; /* cache write position, pinned to newest RAP at burst_new */",
\* or the oldest packet left when the RAP is already overwritten.
PinnedToRap ==
  [][bpc = "pinRap" /\ bpc' = "ready" => cursor' \in raps \/ writeCount - rapWriteCount > Cap]_vars

\* channel.h: "lock-free readers elsewhere, every shared field atomic": no
\* reader meets the capacity channel_lookup's memset has cleared.
NoZeroCapacity == bpc # "fault"
=============================================================================
