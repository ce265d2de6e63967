----------------------------- MODULE BurstTable -----------------------------
(***************************************************************************)
(* The FCC burst session table of dipifccret: fcc/burst_table.c, the        *)
(* reference counting of fcc/burst.c, the pacer thread of run/pacer.c and   *)
(* the RAMS-R, RAMS-T and NACK handlers of run/dispatch.c as they use it.   *)
(*                                                                          *)
(* Threads: the listen workers (Workers), one pacer, and the main thread    *)
(* that stops both and frees the table.  A critical section under a stripe  *)
(* lock is one step; the accesses a thread makes outside the lock are steps *)
(* of their own.  in_use and b of a slot are only ever written together     *)
(* under the lock, so a slot is in use iff slotB holds a burst.             *)
(*                                                                          *)
(* Bursts is the set of heap addresses: free() makes an address available   *)
(* to a later burst_new(), so a stale pointer can meet a new object.  Data   *)
(* nothing reads any more (a free slot's fields, an idle thread's locals) is *)
(* set to its initial value where the code leaves the old one.               *)
(***************************************************************************)
EXTENDS Integers, Sequences, FiniteSets

CONSTANTS
  Clients,        \* client socket addresses
  Workers,        \* listen worker threads
  Bursts,         \* heap addresses of burst_t objects
  Cap,            \* --max-bursts: number of slots
  Stripes,        \* lock stripes
  SlotStripe,     \* stripe_of_idx: slot -> owning stripe
  ClientStripe,   \* pick_stripe: client -> stripe its address hashes to
  InitFree,       \* stripe_init: stripe -> its initial free list (a stack)
  Threshold,      \* --congestion-nack-threshold, 0 disables
  DurationTicks,  \* --duration-cap in pacer cycles
  MsnMod,         \* width of the uint8_t msn (256 in the code)
  None            \* NULL, SIZE_MAX

Slots == 0..(Cap - 1)

ASSUME CapAssumption == Cap \in Nat \ {0}
ASSUME NoneAssumption == None \notin Bursts \cup Clients \cup Slots
ASSUME StripeAssumption == /\ SlotStripe \in [Slots -> Stripes]
                           /\ ClientStripe \in [Clients -> Stripes]
ASSUME NumberAssumption == /\ Threshold \in Nat
                           /\ DurationTicks \in Nat
                           /\ MsnMod \in Nat \ {0}
\* stripe_init: every slot of the stripe is on its free list exactly once.
ASSUME FreeAssumption ==
  /\ InitFree \in [Stripes -> Seq(Slots)]
  /\ \A st \in Stripes : \A j, k \in 1..Len(InitFree[st]) :
        InitFree[st][j] = InitFree[st][k] => j = k
  /\ \A st \in Stripes : \A j \in 1..Len(InitFree[st]) : SlotStripe[InitFree[st][j]] = st
  /\ \A i \in Slots : \E j \in 1..Len(InitFree[SlotStripe[i]]) : InitFree[SlotStripe[i]][j] = i

BURST_UPDATE     == 100
BURST_ACCEPT     == 200
BURST_DONE       == 201
BURST_INTERNAL   == 500
BURST_CONGESTION == 502
BURST_TABLE_FULL == 503
Codes == {BURST_UPDATE, BURST_ACCEPT, BURST_DONE, BURST_INTERNAL, BURST_CONGESTION, BURST_TABLE_FULL}

VARIABLES
  \* burst_t objects
  live,       \* allocated and not yet freed
  refs,       \* reference count
  done,       \* burst_t.done
  cuts,       \* how often target_bps was halved (0, 1, 2 = more than once)
  elapsed,    \* pacer cycles since start_time, saturated at DurationTicks
  \* burst_table_t
  slotB,      \* slots[i].b, None when not in use
  slotAddr,   \* slots[i].addr_words
  msn, nackCount, adapted,
  freeList,   \* per stripe, a stack: last element on top
  index,      \* sockaddr_index: client -> slot or None
  hwm,        \* high_water_mark
  \* listen workers
  wpc, wClient, wNew, wOld, wResp,
  \* pacer thread
  ppc, scanUpto, pos, snap, snapAddr, pResult, pCongestion, pRemove,
  \* whole process
  stop,       \* signal_stop_requested()
  freed,      \* burst_table_free() ran
  sent        \* the RAMS-I answer the last step sent, or None

objVars   == <<live, refs, done, cuts, elapsed>>
slotVars  == <<slotB, slotAddr, msn, nackCount, adapted, freeList, index, hwm>>
workVars  == <<wpc, wClient, wNew, wOld, wResp>>
tickVars  == <<pResult, pCongestion, pRemove>>
pacerVars == <<ppc, scanUpto, pos, snap, snapAddr, pResult, pCongestion, pRemove>>
vars == <<live, refs, done, cuts, elapsed,
          slotB, slotAddr, msn, nackCount, adapted, freeList, index, hwm,
          wpc, wClient, wNew, wOld, wResp,
          ppc, scanUpto, pos, snap, snapAddr, pResult, pCongestion, pRemove,
          stop, freed, sent>>

Init ==
  /\ live = [b \in Bursts |-> FALSE]
  /\ refs = [b \in Bursts |-> 0]
  /\ done = [b \in Bursts |-> FALSE]
  /\ cuts = [b \in Bursts |-> 0]
  /\ elapsed = [b \in Bursts |-> 0]
  /\ slotB = [i \in Slots |-> None]
  /\ slotAddr = [i \in Slots |-> None]
  /\ msn = [i \in Slots |-> 0]
  /\ nackCount = [i \in Slots |-> 0]
  /\ adapted = [i \in Slots |-> FALSE]
  /\ freeList = InitFree
  /\ index = [c \in Clients |-> None]
  /\ hwm = 0
  /\ wpc = [w \in Workers |-> "idle"]
  /\ wClient = [w \in Workers |-> None]
  /\ wNew = [w \in Workers |-> None]
  /\ wOld = [w \in Workers |-> None]
  /\ wResp = [w \in Workers |-> BURST_ACCEPT]
  /\ ppc = "sleep"
  /\ scanUpto = 0
  /\ pos = 0
  /\ snap = [i \in Slots |-> None]
  /\ snapAddr = [i \in Slots |-> None]
  /\ pResult = "continue"
  /\ pCongestion = FALSE
  /\ pRemove = FALSE
  /\ stop = FALSE
  /\ freed = FALSE
  /\ sent = None

(***************************************************************************)
(* Helpers.                                                                 *)
(***************************************************************************)

\* find_valid: the index hit, re-validated against the slot.
FindValid(c) ==
  LET i == index[c] IN
    IF i # None /\ slotB[i] # None /\ slotAddr[i] = c THEN i ELSE None

\* find_valid also removes a stale hit from the index.
IndexAfterFind(c) == [index EXCEPT ![c] = FindValid(c)]

\* free(): the contents of the object are gone with it.
Wipe(bs) ==
  /\ live' = [b \in Bursts |-> IF b \in bs THEN FALSE ELSE live[b]]
  /\ done' = [b \in Bursts |-> IF b \in bs THEN FALSE ELSE done[b]]
  /\ cuts' = [b \in Bursts |-> IF b \in bs THEN 0 ELSE cuts[b]]
  /\ elapsed' = [b \in Bursts |-> IF b \in bs THEN 0 ELSE elapsed[b]]

\* burst_release: drop one reference, free on the last one.
ReleaseRef(b) ==
  /\ refs' = [refs EXCEPT ![b] = @ - 1]
  /\ IF refs[b] = 1 THEN Wipe({b}) ELSE UNCHANGED <<live, done, cuts, elapsed>>

\* Mutants used to test the properties below.
TakeRefLost(b) == refs' = refs
RaiseHwmShort(i) == IF i > hwm THEN i ELSE hwm
OwnsAnyBurst == slotB[pos] # None
UnindexForgotten(c) == index
PushFreeForgotten(i) == freeList
TickOverNoCap(b) == done[b]
HeldByNone == {}
NackAdaptsAgain(i) ==
  LET n == IF nackCount[i] < Threshold THEN nackCount[i] + 1 ELSE nackCount[i] IN
  n < Threshold /\ Threshold \div 2 > 0 /\ n >= Threshold \div 2

\* burst_acquire.
TakeRef(b) == refs' = [refs EXCEPT ![b] = @ + 1]

\* claim_locked's compare-and-swap loop on high_water_mark.
RaiseHwm(i) == IF i + 1 > hwm THEN i + 1 ELSE hwm

\* burst_table_release: is the slot the pacer ticked still its burst's?
OwnsSlot == slotB[pos] = snap[pos]

\* What a clear does to the index and to the stripe's free list.
Unindex(c) == [index EXCEPT ![c] = None]
PushFree(i) == [freeList EXCEPT ![SlotStripe[i]] = Append(@, i)]

\* burst_tick's checks before the send loop: terminated, or at the cap.
TickOver(b) == done[b] \/ elapsed[b] >= DurationTicks

\* burst_table_free releases the burst of every slot in use.
HeldBySlots == {b \in Bursts : \E i \in Slots : slotB[i] = b}

Say(c, code) == sent' = [to |-> c, code |-> code]
Silent == sent' = None

(***************************************************************************)
(* Listen workers: rams_r_cb from burst_new on.                             *)
(***************************************************************************)

\* burst_new: a calloc'ed object with one reference, owned by the worker.
RamsRNew(w, c, b) ==
  /\ wpc[w] = "idle" /\ ~live[b]
  /\ live' = [live EXCEPT ![b] = TRUE]
  /\ refs' = [refs EXCEPT ![b] = 1]
  /\ done' = [done EXCEPT ![b] = FALSE]
  /\ cuts' = [cuts EXCEPT ![b] = 0]
  /\ elapsed' = [elapsed EXCEPT ![b] = 0]
  /\ wpc' = [wpc EXCEPT ![w] = "start"]
  /\ wClient' = [wClient EXCEPT ![w] = c]
  /\ wNew' = [wNew EXCEPT ![w] = b]
  /\ UNCHANGED <<slotVars, wOld, wResp, pacerVars, stop, freed>>
  /\ Silent

\* burst_new returned NULL: response 500.
RamsRNoMemory(w, c) ==
  /\ wpc[w] = "idle"
  /\ Say(c, BURST_INTERNAL)
  /\ UNCHANGED <<objVars, slotVars, workVars, pacerVars, stop, freed>>

\* burst_table_start, the client has a session: its slot takes the new burst.
StartSwap(w) ==
  LET c == wClient[w]
      i == FindValid(c) IN
  /\ wpc[w] = "start" /\ i # None
  /\ wOld' = [wOld EXCEPT ![w] = slotB[i]]
  /\ slotB' = [slotB EXCEPT ![i] = wNew[w]]
  /\ msn' = [msn EXCEPT ![i] = (@ + 1) % MsnMod]
  /\ nackCount' = [nackCount EXCEPT ![i] = 0]
  /\ adapted' = [adapted EXCEPT ![i] = FALSE]
  /\ wResp' = [wResp EXCEPT ![w] = BURST_UPDATE]
  /\ wpc' = [wpc EXCEPT ![w] = "terminateOld"]
  /\ UNCHANGED <<objVars, slotAddr, freeList, index, hwm, wClient, wNew, pacerVars, stop, freed>>
  /\ Silent

\* burst_table_start, no session: claim_locked pops the stripe's free list.
StartClaim(w) ==
  LET c == wClient[w]
      st == ClientStripe[c]
      fl == freeList[st]
      i == fl[Len(fl)] IN
  /\ wpc[w] = "start" /\ FindValid(c) = None /\ fl # << >>
  /\ freeList' = [freeList EXCEPT ![st] = SubSeq(fl, 1, Len(fl) - 1)]
  /\ hwm' = RaiseHwm(i)
  /\ slotAddr' = [slotAddr EXCEPT ![i] = c]
  /\ slotB' = [slotB EXCEPT ![i] = wNew[w]]
  /\ msn' = [msn EXCEPT ![i] = 0]
  /\ nackCount' = [nackCount EXCEPT ![i] = 0]
  /\ adapted' = [adapted EXCEPT ![i] = FALSE]
  /\ index' = [index EXCEPT ![c] = i]
  /\ wResp' = [wResp EXCEPT ![w] = BURST_ACCEPT]
  /\ wpc' = [wpc EXCEPT ![w] = "reply"]
  /\ UNCHANGED <<objVars, wClient, wNew, wOld, pacerVars, stop, freed>>
  /\ Silent

\* burst_table_start returned -1: burst_free(b), whatever its count, and 503.
StartFull(w) ==
  LET c == wClient[w] IN
  /\ wpc[w] = "start" /\ FindValid(c) = None /\ freeList[ClientStripe[c]] = << >>
  /\ index' = IndexAfterFind(c)
  /\ Wipe({wNew[w]})
  /\ refs' = [refs EXCEPT ![wNew[w]] = 0]
  /\ Say(c, BURST_TABLE_FULL)
  /\ wNew' = [wNew EXCEPT ![w] = None]
  /\ wClient' = [wClient EXCEPT ![w] = None]
  /\ wpc' = [wpc EXCEPT ![w] = "idle"]
  /\ UNCHANGED <<slotB, slotAddr, msn, nackCount, adapted,
                 freeList, hwm, wOld, wResp, pacerVars, stop, freed>>

\* After the unlock: burst_terminate(old, 0, 0).
TerminateOld(w) ==
  /\ wpc[w] = "terminateOld"
  /\ done' = [done EXCEPT ![wOld[w]] = TRUE]
  /\ wpc' = [wpc EXCEPT ![w] = "releaseOld"]
  /\ UNCHANGED <<live, refs, cuts, elapsed, slotVars, wClient, wNew, wOld, wResp,
                 pacerVars, stop, freed>>
  /\ Silent

\* burst_release(old): the slot's reference, taken over by the worker.
ReleaseOld(w) ==
  /\ wpc[w] = "releaseOld"
  /\ ReleaseRef(wOld[w])
  /\ wOld' = [wOld EXCEPT ![w] = None]
  /\ wpc' = [wpc EXCEPT ![w] = "reply"]
  /\ UNCHANGED <<slotVars, wClient, wNew, wResp, pacerVars, stop, freed>>
  /\ Silent

\* rams_r_cb reads b->cursor and b->target_bps and answers 100 or 200.
Reply(w) ==
  /\ wpc[w] = "reply"
  /\ Say(wClient[w], wResp[w])
  /\ wNew' = [wNew EXCEPT ![w] = None]
  /\ wClient' = [wClient EXCEPT ![w] = None]
  /\ wResp' = [wResp EXCEPT ![w] = BURST_ACCEPT]
  /\ wpc' = [wpc EXCEPT ![w] = "idle"]
  /\ UNCHANGED <<objVars, slotVars, wOld, pacerVars, stop, freed>>

(***************************************************************************)
(* Listen workers: nack_cb and rams_t_cb.                                   *)
(***************************************************************************)

\* nack_count is only compared with the threshold: counting saturates there.
CountNack(n) == IF n < Threshold THEN n + 1 ELSE n

\* burst_table_note_nack's two actions on the session in slot i.
NackTerminates(i) == CountNack(nackCount[i]) >= Threshold
NackAdapts(i) ==
  /\ ~NackTerminates(i)
  /\ ~adapted[i]
  /\ Threshold \div 2 > 0
  /\ CountNack(nackCount[i]) >= Threshold \div 2

\* nack_cb's burst half, skipped when the threshold is 0; the reply codes
\* are computed under the lock and carry no burst pointer.  A NACK without a
\* session changes nothing (IndexExact: find_valid meets no stale entry).
NoteNack(w, c) ==
  LET i == FindValid(c) IN
  /\ wpc[w] = "idle" /\ Threshold > 0
  /\ i # None
  /\ LET b == slotB[i] IN
     /\ nackCount' = [nackCount EXCEPT ![i] = CountNack(@)]
     /\ done' = [done EXCEPT ![b] = IF NackTerminates(i) THEN TRUE ELSE @]
     /\ cuts' = [cuts EXCEPT ![b] = IF NackAdapts(i) /\ @ < 2 THEN @ + 1 ELSE @]
     /\ adapted' = [adapted EXCEPT ![i] = IF NackAdapts(i) THEN TRUE ELSE @]
     /\ msn' = [msn EXCEPT ![i] = IF NackAdapts(i) THEN (@ + 1) % MsnMod ELSE @]
     /\ sent' = IF NackTerminates(i) THEN [to |-> c, code |-> BURST_CONGESTION]
                ELSE IF NackAdapts(i) THEN [to |-> c, code |-> BURST_UPDATE] ELSE None
  /\ UNCHANGED <<live, refs, elapsed, slotB, slotAddr, freeList, index, hwm, workVars,
                 pacerVars, stop, freed>>

\* rams_t_cb: burst_table_terminate without a stop_seq.  With one, the burst
\* goes on until the pacer reaches it, which TickSend allows at any tick.
RamsT(w, c) ==
  LET i == FindValid(c) IN
  /\ wpc[w] = "idle" /\ i # None
  /\ done' = [done EXCEPT ![slotB[i]] = TRUE]
  /\ UNCHANGED <<live, refs, cuts, elapsed, slotVars, workVars, pacerVars, stop, freed>>
  /\ Silent

(***************************************************************************)
(* The pacer thread, one cycle per 20 ms.                                   *)
(***************************************************************************)

\* Top of the loop: read the high water mark before the sleep.
PacerBegin ==
  /\ ppc = "sleep" /\ ~stop
  /\ scanUpto' = hwm
  /\ pos' = 0
  /\ ppc' = "scan"
  /\ UNCHANGED <<objVars, slotVars, workVars, snap, snapAddr, tickVars, stop, freed>>
  /\ Silent

PacerExit ==
  /\ ppc = "sleep" /\ stop
  /\ ppc' = "exit"
  /\ UNCHANGED <<objVars, slotVars, workVars, scanUpto, pos, snap, snapAddr, tickVars, stop, freed>>
  /\ Silent

\* burst_table_acquire on a slot in use: snapshot it, take a reference.
PacerAcquire ==
  /\ ppc = "scan" /\ pos < scanUpto /\ slotB[pos] # None
  /\ snap' = [snap EXCEPT ![pos] = slotB[pos]]
  /\ snapAddr' = [snapAddr EXCEPT ![pos] = slotAddr[pos]]
  /\ TakeRef(slotB[pos])
  /\ pos' = pos + 1
  /\ UNCHANGED <<live, done, cuts, elapsed, slotVars, workVars, ppc, scanUpto, tickVars, stop, freed>>
  /\ Silent

PacerSkip ==
  /\ ppc = "scan" /\ pos < scanUpto /\ slotB[pos] = None
  /\ pos' = pos + 1
  /\ UNCHANGED <<objVars, slotVars, workVars, ppc, scanUpto, snap, snapAddr, tickVars, stop, freed>>
  /\ Silent

PacerScanned ==
  /\ ppc = "scan" /\ pos = scanUpto
  /\ pos' = 0
  /\ ppc' = "tick"
  /\ UNCHANGED <<objVars, slotVars, workVars, scanUpto, snap, snapAddr, tickVars, stop, freed>>
  /\ Silent

\* Slots without a snapshot are not in the pacer's array.
PacerNext ==
  /\ ppc = "tick" /\ pos < scanUpto /\ snap[pos] = None
  /\ pos' = pos + 1
  /\ UNCHANGED <<objVars, slotVars, workVars, ppc, scanUpto, snap, snapAddr, tickVars, stop, freed>>
  /\ Silent

PacerCycleEnd ==
  /\ ppc = "tick" /\ pos = scanUpto
  /\ scanUpto' = 0
  /\ pos' = 0
  /\ ppc' = "sleep"
  /\ UNCHANGED <<objVars, slotVars, workVars, snap, snapAddr, tickVars, stop, freed>>
  /\ Silent

\* burst_tick up to the send loop: a burst already done, or at its duration
\* cap, sends nothing.
TickEnter ==
  LET b == snap[pos]
      over == TickOver(b) IN
  /\ ppc = "tick" /\ pos < scanUpto /\ b # None
  /\ done' = [done EXCEPT ![b] = IF over THEN TRUE ELSE @]
  /\ elapsed' = [elapsed EXCEPT ![b] = IF @ < DurationTicks THEN @ + 1 ELSE @]
  /\ pResult' = IF over THEN "done" ELSE "continue"
  /\ pCongestion' = FALSE
  /\ ppc' = IF over THEN "release" ELSE "send"
  /\ UNCHANGED <<live, refs, cuts, slotVars, workVars, scanUpto, pos, snap, snapAddr,
                 pRemove, stop, freed>>
  /\ Silent

\* burst_tick's send loop.  It ends the burst on catch-up, a recycled channel,
\* a lapped cursor, a reached stop_seq (the cache is module RapCache) or a
\* termination by another thread; a send may meet EAGAIN.
TickSend ==
  LET b == snap[pos] IN
  /\ ppc = "send"
  /\ \E ends \in BOOLEAN, eagain \in BOOLEAN :
       /\ done' = [done EXCEPT ![b] = IF ends THEN TRUE ELSE @]
       /\ pResult' = IF done[b] \/ ends THEN "done" ELSE "continue"
       /\ pCongestion' = eagain
  /\ ppc' = "release"
  /\ UNCHANGED <<live, refs, cuts, elapsed, slotVars, workVars, scanUpto, pos, snap, snapAddr,
                 pRemove, stop, freed>>
  /\ Silent

ShouldClear == pCongestion \/ pResult = "done"

\* burst_table_release: clear the slot only if it still holds this burst.
\* (pacer_main only uses owns_slot together with the wish to clear: pRemove.)
PacerRelease ==
  LET clr == OwnsSlot /\ ShouldClear IN
  /\ ppc = "release"
  /\ pRemove' = clr
  /\ slotB' = [slotB EXCEPT ![pos] = IF clr THEN None ELSE @]
  /\ slotAddr' = [slotAddr EXCEPT ![pos] = IF clr THEN None ELSE @]
  /\ msn' = [msn EXCEPT ![pos] = IF clr THEN 0 ELSE @]
  /\ nackCount' = [nackCount EXCEPT ![pos] = IF clr THEN 0 ELSE @]
  /\ adapted' = [adapted EXCEPT ![pos] = IF clr THEN FALSE ELSE @]
  /\ pResult' = "continue"
  /\ index' = IF clr THEN Unindex(slotAddr[pos]) ELSE index
  /\ freeList' = IF clr THEN PushFree(pos) ELSE freeList
  /\ ppc' = "notify"
  /\ UNCHANGED <<objVars, hwm, workVars, scanUpto, pos, snap, snapAddr, pCongestion, stop, freed>>
  /\ Silent

\* After the unlock: RAMS-I 201, or 502 on local congestion, to the snapshot's address.
PacerNotify ==
  /\ ppc = "notify"
  /\ IF pRemove
       THEN Say(snapAddr[pos], IF pCongestion THEN BURST_CONGESTION ELSE BURST_DONE)
       ELSE Silent
  /\ ppc' = IF pRemove THEN "dropSlot" ELSE "dropSnap"
  /\ UNCHANGED <<objVars, slotVars, workVars, scanUpto, pos, snap, snapAddr, tickVars, stop, freed>>

\* burst_release: the cleared slot's reference.
PacerDropSlot ==
  /\ ppc = "dropSlot"
  /\ ReleaseRef(snap[pos])
  /\ ppc' = "dropSnap"
  /\ UNCHANGED <<slotVars, workVars, scanUpto, pos, snap, snapAddr, tickVars,
                 stop, freed>>
  /\ Silent

\* burst_release: the snapshot's reference.
PacerDropSnap ==
  /\ ppc = "dropSnap"
  /\ ReleaseRef(snap[pos])
  /\ snap' = [snap EXCEPT ![pos] = None]
  /\ snapAddr' = [snapAddr EXCEPT ![pos] = None]
  /\ pCongestion' = FALSE
  /\ pRemove' = FALSE
  /\ pos' = pos + 1
  /\ ppc' = "tick"
  /\ UNCHANGED <<slotVars, workVars, scanUpto, pResult, stop, freed>>
  /\ Silent

(***************************************************************************)
(* Shutdown: fccret_serve's cleanup.                                        *)
(***************************************************************************)

Stop ==
  /\ ~stop
  /\ stop' = TRUE
  /\ UNCHANGED <<objVars, slotVars, workVars, pacerVars, freed>>
  /\ Silent

\* A worker leaves its receive loop between two datagrams.
WorkerExit(w) ==
  /\ stop /\ wpc[w] = "idle"
  /\ wpc' = [wpc EXCEPT ![w] = "exit"]
  /\ UNCHANGED <<objVars, slotVars, wClient, wNew, wOld, wResp, pacerVars, stop, freed>>
  /\ Silent

\* burst_table_free, after the pacer is joined and the listen pool stopped.
TableFree ==
  /\ ~freed /\ ppc = "exit" /\ \A w \in Workers : wpc[w] = "exit"
  /\ refs' = [b \in Bursts |-> IF b \in HeldBySlots THEN refs[b] - 1 ELSE refs[b]]
  /\ Wipe({b \in HeldBySlots : refs[b] = 1})
  /\ freed' = TRUE
  /\ slotB' = [i \in Slots |-> None]
  /\ freeList' = [st \in Stripes |-> << >>]
  /\ index' = [c \in Clients |-> None]
  /\ UNCHANGED <<slotAddr, msn, nackCount, adapted, hwm,
                 workVars, pacerVars, stop>>
  /\ Silent

-----------------------------------------------------------------------------
Worker(w) ==
  \/ \E c \in Clients : \/ \E b \in Bursts : RamsRNew(w, c, b)
                        \/ RamsRNoMemory(w, c)
                        \/ NoteNack(w, c)
                        \/ RamsT(w, c)
  \/ StartSwap(w) \/ StartClaim(w) \/ StartFull(w)
  \/ TerminateOld(w) \/ ReleaseOld(w) \/ Reply(w)
  \/ WorkerExit(w)

Pacer ==
  \/ PacerBegin \/ PacerExit
  \/ PacerAcquire \/ PacerSkip \/ PacerScanned
  \/ PacerNext \/ PacerCycleEnd
  \/ TickEnter \/ TickSend
  \/ PacerRelease \/ PacerNotify \/ PacerDropSlot \/ PacerDropSnap

Next == (\E w \in Workers : Worker(w)) \/ Pacer \/ Stop \/ TableFree

Spec == Init /\ [][Next]_vars

\* Fairness: the pacer and the handlers in progress are running threads.  A
\* worker tests the stop flag after every datagram, so it does not keep
\* serving forever once stop is set: strong fairness of its exit.
Fairness ==
  /\ WF_vars(Pacer)
  /\ \A w \in Workers : /\ WF_vars(StartSwap(w) \/ StartClaim(w) \/ StartFull(w)
                                   \/ TerminateOld(w) \/ ReleaseOld(w) \/ Reply(w))
                        /\ SF_vars(WorkerExit(w))
  /\ WF_vars(TableFree)

FairSpec == Spec /\ Fairness

-----------------------------------------------------------------------------
(***************************************************************************)
(* Properties.                                                              *)
(***************************************************************************)
WorkerPc == {"idle", "start", "terminateOld", "releaseOld", "reply", "exit"}
PacerPc == {"sleep", "scan", "tick", "send", "release", "notify", "dropSlot", "dropSnap", "exit"}

ObjType ==
  /\ live \in [Bursts -> BOOLEAN]
  /\ refs \in [Bursts -> Nat]
  /\ done \in [Bursts -> BOOLEAN]
  /\ cuts \in [Bursts -> 0..2]
  /\ elapsed \in [Bursts -> 0..DurationTicks]

SlotType ==
  /\ slotB \in [Slots -> Bursts \cup {None}]
  /\ slotAddr \in [Slots -> Clients \cup {None}]
  /\ msn \in [Slots -> 0..(MsnMod - 1)]
  /\ nackCount \in [Slots -> 0..Threshold]
  /\ adapted \in [Slots -> BOOLEAN]
  /\ freeList \in [Stripes -> Seq(Slots)]
  /\ index \in [Clients -> Slots \cup {None}]
  /\ hwm \in 0..Cap

WorkerType ==
  /\ wpc \in [Workers -> WorkerPc]
  /\ wClient \in [Workers -> Clients \cup {None}]
  /\ wNew \in [Workers -> Bursts \cup {None}]
  /\ wOld \in [Workers -> Bursts \cup {None}]
  /\ wResp \in [Workers -> Codes]

PacerType ==
  /\ ppc \in PacerPc
  /\ scanUpto \in 0..Cap
  /\ pos \in 0..Cap
  /\ snap \in [Slots -> Bursts \cup {None}]
  /\ snapAddr \in [Slots -> Clients \cup {None}]
  /\ pResult \in {"continue", "done"}
  /\ pCongestion \in BOOLEAN
  /\ pRemove \in BOOLEAN

\* Every variable of the burst table, its workers and its pacer has its type.
TypeOK ==
  /\ ObjType /\ SlotType /\ WorkerType /\ PacerType
  /\ stop \in BOOLEAN
  /\ freed \in BOOLEAN
  /\ sent \in [to : Clients, code : Codes] \cup {None}

\* The reference that stands for slot ownership: the creating worker before
\* burst_table_start, the slot, the worker that swapped the burst out, or the
\* pacer that cleared the slot and has not dropped its reference yet.
OwnedByNew(b) == \E w \in Workers : wpc[w] = "start" /\ wNew[w] = b
OwnedBySlot(b) == \E i \in Slots : slotB[i] = b
OwnedByOld(b) == \E w \in Workers : wOld[w] = b
OwnedByPacer(b) == ppc \in {"notify", "dropSlot"} /\ pRemove /\ snap[pos] = b
Owned(b) == OwnedByNew(b) \/ OwnedBySlot(b) \/ OwnedByOld(b) \/ OwnedByPacer(b)
Snapped(b) == \E i \in Slots : snap[i] = b

\* burst_t.refs counts exactly the slot ownership and the pacer's snapshot,
\* and an object exists exactly as long as its count is above zero: whatever
\* the table, the pacer or a swapping worker can still reach is not freed, and
\* nothing they have all let go of stays allocated.
RefsExact ==
  \A b \in Bursts : /\ refs[b] = (IF Owned(b) THEN 1 ELSE 0) + (IF Snapped(b) THEN 1 ELSE 0)
                    /\ live[b] <=> refs[b] > 0

\* find_valid's index: it maps a client to a slot exactly when that slot is in
\* use for that client.  In particular no client ever holds two slots.
IndexExact ==
  \A c \in Clients, i \in Slots : index[c] = i <=> slotB[i] # None /\ slotAddr[i] = c

\* Each stripe's free list holds each of its idle slots exactly once and no
\* slot in use: claims and clears neither lose a slot nor hand it out twice.
FreeListExact ==
  ~freed => \A st \in Stripes :
    /\ \A j, k \in 1..Len(freeList[st]) : freeList[st][j] = freeList[st][k] => j = k
    /\ \A i \in Slots : (\E j \in 1..Len(freeList[st]) : freeList[st][j] = i)
                           <=> (SlotStripe[i] = st /\ slotB[i] = None)

\* A session always sits in a slot of the stripe whose lock its client's
\* handlers take, and below the mark up to which the pacer scans.
SlotReachable ==
  \A i \in Slots : slotB[i] # None => /\ ClientStripe[slotAddr[i]] = SlotStripe[i]
                                      /\ i < hwm

\* "bitrate already halved once this burst": NACKs never halve the rate of one
\* burst twice, across swaps, clears and reuse of the slot.
RateCutOnce == \A b \in Bursts : live[b] => cuts[b] <= 1

\* After fccret_serve's cleanup no burst object is left allocated.
NoLeakAtExit == freed => \A b \in Bursts : ~live[b]

\* The pacer ends a session only for a reason of its own burst: the burst in
\* the cleared slot is done, or is the one whose send met congestion.  A burst
\* a worker swapped in meanwhile is never cleared with its predecessor's result.
ClearOnlyFinished ==
  [][\A i \in Slots : slotB[i] # None /\ slotB'[i] = None /\ ~freed'
        => done[slotB[i]] \/ (pCongestion /\ pos = i /\ snap[i] = slotB[i])]_vars

\* Every burst leaves its slot: the duration cap bounds a session whatever the
\* client and the other workers do, so a full stripe frees up again.
BurstEnds == \A i \in Slots, b \in Bursts : slotB[i] = b ~> slotB[i] # b

\* burst.h: "slot ownership + transient pacer snapshots" keep a burst alive;
\* rams_r_cb reads b->cursor and b->target_bps with neither in hand.
ReplyReadsLive == \A w \in Workers : wpc[w] = "reply" => live[wNew[w]]
=============================================================================
