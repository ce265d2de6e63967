----------------------------- MODULE RetClient -----------------------------
(***************************************************************************)
(* The retransmission client of lib/fccret/ret_client.c: it puts the RTP    *)
(* packets of a multicast channel back in order, NACKs what is missing and  *)
(* holds what follows a gap until the gap is repaired or given up.          *)
(*                                                                          *)
(* A packet is the natural number it has in its sender's stream; on the     *)
(* wire it carries that number modulo SeqSpace (2^16 in the code).  One call  *)
(* of ret_client_read is one action: it reads at most one datagram from     *)
(* each of its three sockets.  Time runs in thirds of wait_ms, and a held   *)
(* slot keeps the time left until its deadline and its next NACK.           *)
(***************************************************************************)
EXTENDS Integers, SequencesExt

CONSTANTS
  Ssrcs,        \* SSRCs of the channel's sender, numbered in the order it uses them
  SeqSpace,       \* 2^16
  GapMax,       \* RET_GAP_MAX
  Wait,         \* wait_ms in ticks: a multiple of three
  Big,          \* numbers of the packets longer than RET_HOLD_CAP
  First,        \* number of the first packet a sender sends
  MaxNum,       \* bound: number of its last packet
  Late,         \* bound: how late the network delivers a packet
  Jump,         \* bound: how many packets in a row it loses
  None

ASSUME GapAssumption == GapMax \in Nat /\ GapMax > 1 /\ 2 * GapMax < SeqSpace
ASSUME WaitAssumption == Wait \in Nat /\ Wait % 3 = 0

Packets == [ssrc : Ssrcs, num : First..MaxNum]

\* The sequence number a packet carries.
Seq16(p) == p.num % SeqSpace

\* Mutants used to test the properties below.
OutqSlotsTight == GapMax
DeltaUnsigned(x, p) == (Seq16(p) - x.expected) % SeqSpace
NackRetryUnarmed(x) ==
  [x EXCEPT !.hold = [i \in DOMAIN @ |->
    IF @[i].pkt = None /\ @[i].nextNack = 0 THEN [@[i] EXCEPT !.asked = @ + 1] ELSE @[i]]]
AbandonDrops(x) ==
  [x EXCEPT !.hold = <<>>, !.expected = (@ + Len(x.hold)) % SeqSpace]
HeadReadyUsed(h) == h.pkt # None

\* RET_OUTQ_SLOTS
OutqSlots == GapMax + 1

VARIABLES
  r,          \* ret_client_t
  top,        \* highest packet number received, per sender
  nacked,     \* packets the client has asked for and may still get
  last,       \* last packet handed to the caller
  back,       \* the caller got a packet that is not after the one before it
  dropped     \* outq_push found its queue full

vars == <<r, top, nacked, last, back, dropped>>

\* nacks and overflow collect what a running handler sends and loses.
Init ==
  /\ r = [ssrc |-> None, expected |-> 0, hold |-> <<>>, outq |-> <<>>,
          nacks |-> {}, overflow |-> FALSE]
  /\ top = [s \in Ssrcs |-> First - 1]
  /\ nacked = {} /\ last = None /\ back = FALSE /\ dropped = FALSE

\* (int16_t)(seq - expected_seq)
Delta(x, p) ==
  LET d == (Seq16(p) - x.expected) % SeqSpace IN
  IF d >= SeqSpace \div 2 THEN d - SeqSpace ELSE d

GapPending(x) == x.hold # <<>>

Used(h) == h.pkt # None
Held(p) == [pkt |-> p, deadline |-> 0, nextNack |-> 0, asked |-> 0]

Push(x, p) ==
  IF Len(x.outq) >= OutqSlots THEN [x EXCEPT !.overflow = TRUE]
  ELSE [x EXCEPT !.outq = Append(@, p)]

\* hold_arm: a missing packet, asked for once by the NACK that reports it.
Armed == [pkt |-> None, deadline |-> Wait, nextNack |-> Wait \div 3, asked |-> 1]

\* gap_shift: the hold window moves past its head.
GapShift(x) == [x EXCEPT !.hold = Tail(@), !.expected = (@ + 1) % SeqSpace]

SendNack(x, from, n) ==
  [x EXCEPT !.nacks = @ \cup {[ssrc |-> x.ssrc, seq |-> (from + i) % SeqSpace] : i \in 0..(n - 1)}]

NackDue(h) == ~Used(h) /\ h.nextNack = 0 /\ h.deadline > 0

\* nack_retry asks again for every missing packet whose time has come.
NackRetry(x) ==
  LET due == {i \in DOMAIN x.hold : NackDue(x.hold[i])} IN
  [x EXCEPT
    !.hold = [i \in DOMAIN @ |->
      IF i \in due THEN [@[i] EXCEPT !.nextNack = Wait \div 3, !.asked = @ + 1] ELSE @[i]],
    !.nacks = @ \cup {[ssrc |-> x.ssrc, seq |-> (x.expected + i - 1) % SeqSpace] : i \in due}]

\* One turn of the loops of ret_client_flush_ready and abandon_gap.
ShiftHead(x) ==
  GapShift(IF Used(Head(x.hold)) THEN Push(x, Head(x.hold).pkt) ELSE x)

\* ret_client_flush_ready: release the head of the window while it is there
\* or its deadline has passed, then ask again for what is missing.
HeadReady(h) == Used(h) \/ h.deadline = 0
ReadyLen(hold) ==
  LET waiting == {i \in DOMAIN hold : ~HeadReady(hold[i])} IN
  IF waiting = {} THEN Len(hold) ELSE Min(waiting) - 1

ShiftBy(x, n) == FoldLeft(LAMBDA y, i : ShiftHead(y), x, [i \in 1..n |-> i])

FlushReady(x) ==
  LET y == ShiftBy(x, ReadyLen(x.hold)) IN
  IF GapPending(y) THEN NackRetry(y) ELSE y

AbandonGap(x) == ShiftBy(x, Len(x.hold))

TooFar(missing) == missing >= GapMax

\* handle_original_seq without a pending gap.
HandleInSync(x, p) ==
  LET missing == Delta(x, p) IN
  IF missing < 0 THEN x
  ELSE IF missing = 0
    THEN [Push(x, p) EXCEPT !.expected = (@ + 1) % SeqSpace]
  ELSE IF TooFar(missing) \/ p.num \in Big
    THEN [Push(x, p) EXCEPT !.expected = (Seq16(p) + 1) % SeqSpace]
  ELSE SendNack([x EXCEPT !.hold = [i \in 1..missing |-> Armed] \o <<Held(p)>>],
                x.expected, missing)

\* handle_original_seq with a pending gap: fill the window, extend it, or
\* abandon it and start over.
HandleInGap(x, p) ==
  LET delta == Delta(x, p)
      first == Len(x.hold) IN
  IF delta < 0 THEN x
  ELSE IF delta < first
    THEN IF Used(x.hold[delta + 1]) \/ p.num \in Big THEN x
         ELSE [x EXCEPT !.hold[delta + 1] = Held(p)]
  ELSE IF ~TooFar(delta) /\ p.num \notin Big
    THEN SendNack([x EXCEPT !.hold = @ \o [i \in 1..(delta - first) |-> Armed] \o <<Held(p)>>],
                  x.expected + first, delta - first)
  ELSE HandleInSync(AbandonGap(x), p)

\* ret_client_on_original: a new SSRC abandons the gap and resynchronises.
OnOriginal(x, p) ==
  LET y == IF x.ssrc = p.ssrc THEN x
           ELSE [AbandonGap(x) EXCEPT !.ssrc = p.ssrc, !.expected = Seq16(p)] IN
  FlushReady(IF GapPending(y) THEN HandleInGap(y, p) ELSE HandleInSync(y, p))

\* ret_client_on_repair: only a hole in the window takes a repair.
OnRepair(x, p) ==
  LET delta == Delta(x, p) IN
  IF \/ ~GapPending(x) \/ p.ssrc # x.ssrc \/ p.num \in Big
     \/ delta < 0 \/ delta >= Len(x.hold)
     \/ Used(x.hold[delta + 1])
  THEN x
  ELSE FlushReady([x EXCEPT !.hold[delta + 1] = Held(p)])

-----------------------------------------------------------------------------
\* What the network can hand to the three sockets.  A sender that restarts
\* takes the next SSRC and does not return to an earlier one.
Received(s) == {p \in Packets : p.ssrc = s /\ p.num >= top[s] - Late}
Senders == {s \in Ssrcs : r.ssrc = None \/ s >= r.ssrc}
Originals == UNION {{p \in Received(s) : p.num <= top[s] + Jump} : s \in Senders}
Unicasts == UNION {{p \in Received(s) : [ssrc |-> s, seq |-> Seq16(p)] \in nacked /\ p.num <= top[s]} : s \in Ssrcs}
Repairs == UNION {{p \in Received(s) : p.num <= top[s] + 1} : s \in Ssrcs}

\* outq_pop
Pop(x) == IF x.outq = <<>> THEN x ELSE [x EXCEPT !.outq = Tail(@)]

\* What a handler leaves behind once ret_client_read has popped its packet.
Return(x) ==
  /\ r' = [Pop(x) EXCEPT !.nacks = {}, !.overflow = FALSE]
  /\ last' = IF x.outq = <<>> THEN last ELSE Head(x.outq)
  /\ back' = (back \/ (x.outq # <<>> /\ last # None /\ Head(x.outq).ssrc = last.ssrc
                        /\ Head(x.outq).num <= last.num))
  /\ nacked' = {q \in nacked \cup x.nacks : \E p \in Received(q.ssrc)' : Seq16(p) = q.seq}
  /\ dropped' = (dropped \/ x.overflow)

\* ret_client_read with something queued returns at once.
ReadQueued ==
  /\ r.outq # <<>>
  /\ UNCHANGED top
  /\ Return(r)

\* ret_client_read otherwise polls, and handles what its sockets have in this
\* order: the channel, the unicast answer, the multicast repair session.
ReadPoll(m, u, c) ==
  LET y == IF m = None THEN r ELSE OnOriginal(r, m)
      z == IF u = None THEN y ELSE OnRepair(y, u)
      w == IF c = None THEN z ELSE OnRepair(z, c) IN
  /\ r.outq = <<>>
  /\ top' = IF m = None \/ m.num <= top[m.ssrc] THEN top ELSE [top EXCEPT ![m.ssrc] = m.num]
  /\ Return(FlushReady(w))

Less(t) == IF t = 0 THEN 0 ELSE t - 1

\* The clock runs while the client waits in poll.
Tick ==
  /\ \E i \in DOMAIN r.hold : r.hold[i].deadline > 0
  /\ r' = [r EXCEPT !.hold = [i \in DOMAIN @ |->
             [@[i] EXCEPT !.deadline = Less(@), !.nextNack = Less(@)]]]
  /\ UNCHANGED <<top, nacked, last, back, dropped>>

ReadSome == \E m \in Originals \cup {None}, u \in Unicasts \cup {None}, c \in Repairs \cup {None} :
              ReadPoll(m, u, c)

Next == ReadQueued \/ ReadSome \/ Tick

Spec == Init /\ [][Next]_vars

\* The caller keeps calling ret_client_read, whose poll ends when nothing
\* arrives, and time passes.  Nothing is assumed of the network.
FairSpec == Spec /\ WF_vars(ReadQueued) /\ WF_vars(ReadPoll(None, None, None)) /\ WF_vars(Tick)

-----------------------------------------------------------------------------
Slot == [pkt : Packets \cup {None}, deadline : 0..Wait, nextNack : 0..(Wait \div 3), asked : Nat]
HeldPackets(x) == SelectSeq([i \in DOMAIN x.hold |-> x.hold[i].pkt], LAMBDA p : p # None)
InHand(x) == ToSet(x.outq) \cup ToSet(HeldPackets(x))

\* The client and the history variables have their types.
TypeOK ==
  /\ r.ssrc \in Ssrcs \cup {None} /\ r.expected \in 0..(SeqSpace - 1)
  /\ \A i \in DOMAIN r.hold : r.hold[i] \in Slot
  /\ \A i \in DOMAIN r.outq : r.outq[i] \in Packets
  /\ nacked \subseteq [ssrc : Ssrcs, seq : 0..(SeqSpace - 1)]
  /\ top \in [Ssrcs -> (First - 1)..MaxNum] /\ last \in Packets \cup {None}
  /\ {back, dropped} \subseteq BOOLEAN

\* "seq-ordered TS payload": the caller gets the packets of a sender in their
\* order and none of them twice, across the wrap of the sequence number.
InOrder == ~back

\* "two retries per wait_ms budget": a missing packet is asked for three times
\* at most, however often the client is called.
NackBudget == \A i \in DOMAIN r.hold : r.hold[i].asked <= 3

\* "can't happen per the call-site accounting": outq_push never meets a full queue.
OutqNeverFull == ~dropped

\* A packet in hand leaves the client only through the caller.
NothingForgotten ==
  [][\A p \in InHand(r) : p \in InHand(r') \/ p = last' \/ dropped']_vars

\* A gap does not hold the stream for ever: it closes, or its head is repaired
\* or given up, again and again.
GapMoves == []<>~GapPending(r) \/ []<><<r'.expected # r.expected>>_vars
=============================================================================
