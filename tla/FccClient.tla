----------------------------- MODULE FccClient -----------------------------
(***************************************************************************)
(* The fast-channel-change client of lib/fccret/fcc_client.c: it plays the  *)
(* unicast burst of the server, joins the multicast, tells the server with  *)
(* RAMS-T where the multicast begins, buffers the multicast until the burst *)
(* has reached that point, and hands over.                                  *)
(*                                                                          *)
(* A packet is its number in the channel's stream; on the wire it carries   *)
(* that number modulo SeqSpace.  A call of fcc_client_read is one action.   *)
(***************************************************************************)
EXTENDS Integers, SequencesExt

CONSTANTS
  SeqSpace,     \* 2^16
  QueueSlots,   \* FCC_QUEUE_SLOTS
  Wait,         \* FCC_BURST_END_WAIT_S in ticks
  First,        \* number of the burst's first packet, the RAP
  MaxNum,       \* bound: number of the channel's last packet
  Big,          \* packets longer than FCC_QUEUE_SLOT_BYTES
  None

ASSUME BoundAssumption ==
  /\ {SeqSpace, QueueSlots, Wait, First, MaxNum} \subseteq Nat
  /\ MaxNum - First < SeqSpace \div 2
ASSUME NoneAssumption == None \notin Int

Packets == First..MaxNum

\* (int16_t)(a - b)
Diff(a, b) ==
  LET d == (a - b) % SeqSpace IN
  IF d >= SeqSpace \div 2 THEN d - SeqSpace ELSE d


\* Mutants used to test the properties below.
BurstReachedEarly(x) == x.lastOsn # None /\ Diff(x.lastOsn + 2, x.firstMc) >= 0
WaitedNever(t) == FALSE
AfterFirstMcNever(x, n) == FALSE

\* The sequence number packet n carries.
Osn(n) == n % SeqSpace

VARIABLES
  r,        \* fcc_client_t
  closed,   \* the caller has closed the client
  clock,    \* ticks since RAMS-T was sent
  live,     \* last multicast packet received
  burst,    \* last burst packet received
  last,     \* last packet handed to the caller, the one in cut aside
  cut,      \* the multicast packet that found no room, None so far
  hole,     \* the caller missed a packet
  back,     \* the caller got a packet again, or one that is not after last
  lost      \* the network lost a packet, or the client gave up on the burst

vars == <<r, closed, clock, live, burst, last, cut, hole, back, lost>>

Init ==
  /\ r = [done |-> FALSE, rejected |-> FALSE, terminating |-> FALSE, firstMc |-> 0,
          lastOsn |-> None, queue |-> <<>>, pending |-> None]
  /\ closed = FALSE /\ clock = 0
  /\ live = None /\ burst = None /\ last = None /\ cut = None
  /\ hole = FALSE /\ back = FALSE /\ lost = FALSE

-----------------------------------------------------------------------------
\* fcc_check_splice: the burst has reached the first multicast packet, or has
\* been silent for too long.
BurstReached(x) == x.lastOsn # None /\ Diff(x.lastOsn + 1, x.firstMc) >= 0
Waited(t) == t > Wait
CheckSplice(x, t) ==
  IF x.terminating /\ ~x.done /\ (BurstReached(x) \/ Waited(t))
  THEN [x EXCEPT !.done = TRUE] ELSE x

\* queue_push has room for n.
Room(x, n) == Len(x.queue) < QueueSlots /\ n \notin Big

\* fcc_on_multicast: the first packet sends RAMS-T; without room for one the
\* client cuts over and keeps that packet in pending.
OnMulticast(x, n, t) ==
  LET y == IF x.terminating THEN x
           ELSE [x EXCEPT !.terminating = TRUE, !.firstMc = Osn(n)] IN
  IF x.done THEN x
  ELSE IF ~Room(y, n)
    THEN [y EXCEPT !.done = TRUE, !.pending = IF @ = None THEN n ELSE @]
  ELSE CheckSplice([y EXCEPT !.queue = Append(@, n)], t)

\* fcc_on_uni, an RTX packet: from the first multicast packet on it is dropped.
AfterFirstMc(x, n) == x.terminating /\ Diff(Osn(n), x.firstMc) >= 0
OnBurst(x, n, t) ==
  IF x.done \/ AfterFirstMc(x, n) THEN x
  ELSE CheckSplice([x EXCEPT !.pending = n, !.lastOsn = Osn(n)], t)

\* rams_i_cb: any response but 100 and 200 ends the burst.
OnReject(x) == [x EXCEPT !.rejected = TRUE, !.done = TRUE]

\* fcc_client_done
ClientDone(x) == x.done /\ x.pending = None /\ x.queue = <<>>

\* The packet fcc_client_read returns, and the client without it.
Out(x) ==
  IF x.pending # None THEN x.pending
  ELSE IF x.done /\ x.queue # <<>> THEN Head(x.queue) ELSE None
Without(x) ==
  IF x.pending # None THEN [x EXCEPT !.pending = None]
  ELSE IF x.done /\ x.queue # <<>> THEN [x EXCEPT !.queue = Tail(@)] ELSE x

\* The end of fcc_client_read; its caller closes the client once it is done.
Return(x) ==
  LET n == Out(x) IN
  /\ r' = Without(x)
  /\ closed' = ClientDone(Without(x))
  /\ last' = IF n \in {None, cut'} THEN last ELSE n
  /\ back' = (back \/ (n # None /\ (n = cut \/ (last # None /\ n <= last))))
  /\ hole' = (hole \/ (n # None /\ n # IF last = None THEN First ELSE last + 1))

-----------------------------------------------------------------------------
\* Both sockets deliver in order and may lose packets.  The burst starts at
\* First and trails the multicast: its packets reach the client by way of the server.
Multicasts ==
  {n \in Packets : IF live # None THEN n > live
                    ELSE n > IF burst = None THEN First ELSE burst}
Bursts == {n \in Packets : burst = None \/ n > burst}
After(n, prev, first) == n = IF prev = None THEN first ELSE prev + 1

\* fcc_client_read with data at hand.
ReadReady ==
  /\ ~closed /\ Out(r) # None
  /\ cut' = cut
  /\ Return(r)
  /\ UNCHANGED <<clock, live, burst, lost>>

\* fcc_client_read polls: m from the channel's socket, then a burst packet or
\* a rejection from the server's.
ReadPoll(m, u, reject) ==
  LET t == IF m # None /\ ~r.terminating THEN 0 ELSE clock
      x == IF m = None THEN r ELSE OnMulticast(r, m, t)
      y == IF reject THEN OnReject(x) ELSE IF u = None THEN x ELSE OnBurst(x, u, t)
      z == CheckSplice(y, t) IN
  /\ ~closed /\ Out(r) = None
  /\ cut' = IF m # None /\ ~r.done /\ ~Room(r, m) THEN m ELSE cut
  /\ Return(z)
  /\ clock' = t
  /\ live' = IF m = None THEN live ELSE m
  /\ burst' = IF u = None THEN burst ELSE u
  /\ lost' = (\/ lost \/ z.rejected
              \/ (m # None /\ live # None /\ m # live + 1)
              \/ (u # None /\ ~After(u, burst, First))
              \/ (m # None /\ ~Room(r, m))
              \/ (z.terminating /\ Waited(t)))

ReadSome ==
  \/ \E m \in Multicasts \cup {None}, u \in Bursts \cup {None} : ReadPoll(m, u, FALSE)
  \/ \E m \in Multicasts \cup {None} : ReadPoll(m, None, TRUE)

Tick ==
  /\ ~closed /\ r.terminating /\ ~r.done /\ clock <= Wait
  /\ clock' = clock + 1
  /\ UNCHANGED <<r, closed, live, burst, last, cut, hole, back, lost>>

Next == ReadReady \/ ReadSome \/ Tick

Spec == Init /\ [][Next]_vars

\* The caller reads on, and time passes.  Nothing is assumed of the network.
FairSpec == Spec /\ WF_vars(ReadReady) /\ WF_vars(ReadPoll(None, None, FALSE)) /\ WF_vars(Tick)

-----------------------------------------------------------------------------
\* The client and the history variables have their types.
TypeOK ==
  /\ {r.done, r.rejected, r.terminating, closed, hole, back, lost} \subseteq BOOLEAN
  /\ r.firstMc \in 0..(SeqSpace - 1) /\ r.lastOsn \in (0..(SeqSpace - 1)) \cup {None}
  /\ r.pending = None /\ r.queue \in BoundedSeq(Packets, QueueSlots)
  /\ {live, burst, last, cut} \subseteq Packets \cup {None} /\ clock \in 0..(Wait + 1)

\* The caller gets the channel's packets in their order and none of them twice,
\* but for one: a multicast packet that finds the buffer full, or is too long
\* for it, is handed out at once and so overtakes the packets in the buffer.
InOrder == ~back

\* The cutover itself loses nothing: the caller misses a packet only if the
\* network lost one or the burst ended short.
CleanSplice == hole => lost

\* Once RAMS-T is sent the client hands over, whatever becomes of the burst.
HandsOver == r.terminating ~> closed
=============================================================================
