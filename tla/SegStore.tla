------------------------------ MODULE SegStore ------------------------------
(***************************************************************************)
(* The dipixy segment store (src/src/dipixy/segstore/): a table of stores, *)
(* each publishing one immutable snapshot through an atomic pointer, and   *)
(* the quiescent-state based reclamation (reactor/qsbr.c) that decides     *)
(* when a replaced snapshot may be freed and a closed slot used again.     *)
(*                                                                         *)
(* Threads: reactor workers read stores without a lock, switch low latency *)
(* on, open stores and sweep; a pump thread feeds the segmenters, which    *)
(* push; pump 0's maintenance closes idle stores and sweeps.  A step is    *)
(* what a thread does between two points where another thread can see or   *)
(* change the same state.  What a snapshot contains is left to SegHeap and *)
(* SegTimeline.                                                            *)
(***************************************************************************)
EXTENDS Integers, FiniteSets

CONSTANTS
    Workers,                \* reactor worker threads, the QSBR domain
    Slots,                  \* indices of g_stores
    Keys,                   \* (capture, filter, pmt, lcevc, container) tuples
    Snaps,                  \* snapshots the allocator can hand out
    HLS_SNAP_RETIRE_DEPTH,  \* retired snapshots a store keeps by itself
    MaxLeaks                \* bound: retire nodes the allocator refuses

ASSUME SegStoreAssumption ==
    /\ HLS_SNAP_RETIRE_DEPTH \in Nat /\ MaxLeaks \in Nat
    /\ Slots \subseteq Nat \ {0}
    /\ IsFiniteSet(Snaps) /\ "nosnap" \notin Snaps
    /\ "nokey" \notin Keys /\ "pump0" \notin Workers

None == 0                   \* no slot
NoKey == "nokey"
NoSnap == "nosnap"          \* a NULL snapshot pointer

VARIABLES
    v,        \* qsbr slot counters, odd while the worker is online
    wk,       \* per worker: place in its loop and what it refers to
    slot,     \* g_stores and g_slot_state; fed: a registered segmenter uses it
    pump,     \* the feed of the pump thread; busy while it holds the store lock
    maint,    \* hls_seg_sweep_idle closing a store
    nodes,    \* list headed by g_slot_retire_head
    sweep,    \* per sweeping thread: nodes taken off and nodes kept back
    live,     \* snapshots allocated and not freed
    leaked    \* live snapshots given up because no retire node could be had

vars == <<v, wk, slot, pump, maint, nodes, sweep, live, leaked>>

Sweepers == Workers \cup {"pump0"}
Online(w) == v[w] % 2 = 1

-----------------------------------------------------------------------------
(* QSBR: a mark is a copy of the counters.  It has passed when every       *)
(* worker was offline at the copy or has moved since.                      *)

qsbr_mark == v

slot_passed(mark, w) == mark[w] % 2 = 0 \/ v[w] # mark[w]

qsbr_mark_passed_any(mark) == \E w \in Workers : slot_passed(mark, w)

qsbr_mark_passed(mark) == \A w \in Workers : slot_passed(mark, w)

-----------------------------------------------------------------------------
Ptr(s) == {s} \ {NoSnap}
Retired(s) == {e.snap : e \in slot[s].retiring}
AllOf(s) == Ptr(slot[s].snap) \cup Retired(s)

\* snap_retire_async of each snapshot of S: a node each, except the ones
\* whose node could not be allocated
snap_retire_async(S) ==
    \E lost \in SUBSET S :
      /\ Cardinality(leaked) + Cardinality(lost) <= MaxLeaks
      /\ leaked' = leaked \cup lost
      /\ nodes' = nodes \cup {[idx |-> None, snaps |-> {s}, mark |-> qsbr_mark] : s \in S \ lost}

IdleWorker == [phase |-> "top", at |-> None, key |-> NoKey, held |-> {}, old |-> NoSnap]
EmptySlot == [st |-> "FREE", key |-> NoKey, snap |-> NoSnap, retiring |-> {}, fed |-> FALSE]
IdlePump == [key |-> NoKey, at |-> None, busy |-> FALSE, old |-> NoSnap]
IdleMaint == [pc |-> "idle", key |-> NoKey, at |-> None, snaps |-> {}]
IdleSweep == [on |-> FALSE, chain |-> {}, keep |-> {}]

Init ==
    /\ v = [w \in Workers |-> 1]
    /\ wk = [w \in Workers |-> IdleWorker]
    /\ slot = [s \in Slots |-> EmptySlot]
    /\ pump = IdlePump /\ maint = IdleMaint
    /\ sweep = [t \in Sweepers |-> IdleSweep]
    /\ nodes = {} /\ live = {} /\ leaked = {}

-----------------------------------------------------------------------------
(* A reactor worker (worker_main): offline around epoll_wait, then a batch *)
(* of events, then quiescent.                                              *)

Batch(w) == wk[w].phase = "batch" /\ wk[w].old = NoSnap /\ ~sweep[w].on

qsbr_worker_offline(w) ==
    /\ wk[w].phase = "top"
    /\ v' = [v EXCEPT ![w] = IF Online(w) THEN @ + 1 ELSE @]
    /\ wk' = [wk EXCEPT ![w].phase = "wait"]
    /\ UNCHANGED <<slot, pump, maint, nodes, sweep, live, leaked>>

\* an interrupted epoll_wait goes back to the top of the loop
qsbr_worker_online(w) ==
    /\ wk[w].phase = "wait"
    /\ v' = [v EXCEPT ![w] = IF Online(w) THEN @ ELSE @ + 1]
    /\ \E phase \in {"batch", "top"} : wk' = [wk EXCEPT ![w].phase = phase]
    /\ UNCHANGED <<slot, pump, maint, nodes, sweep, live, leaked>>

qsbr_worker_quiescent(w) ==
    /\ Batch(w)
    /\ v' = [v EXCEPT ![w] = @ + 2]
    /\ wk' = [wk EXCEPT ![w] = IdleWorker]
    /\ UNCHANGED <<slot, pump, maint, nodes, sweep, live, leaked>>

\* hls_store_find by hint or by scan; the caller keeps the store pointer
hls_store_find(w, k) ==
    /\ Batch(w)
    /\ \E s \in Slots : /\ slot[s].st = "OPEN" /\ slot[s].key = k
                        /\ wk' = [wk EXCEPT ![w].at = s, ![w].key = k]
    /\ UNCHANGED <<v, slot, pump, maint, nodes, sweep, live, leaked>>

\* a response loads the store's snapshot
LoadSnap(w) ==
    /\ Batch(w) /\ wk[w].at # None
    /\ slot[wk[w].at].snap # NoSnap
    /\ wk' = [wk EXCEPT ![w].held = @ \cup {slot[wk[w].at].snap}]
    /\ UNCHANGED <<v, slot, pump, maint, nodes, sweep, live, leaked>>

Unlocked(s) == ~(pump.busy /\ pump.at = s)

\* publishes a new snapshot in slot s; a failed malloc leaves all as it was
Publish(s) ==
    \E ns \in Snaps \ live : /\ live' = live \cup {ns}
                             /\ slot' = [slot EXCEPT ![s].snap = ns]

\* hls_llhls_enable publishes under the store lock and retires after it
hls_llhls_enable(w) ==
    /\ Batch(w) /\ wk[w].at # None /\ Unlocked(wk[w].at)
    /\ Publish(wk[w].at)
    /\ wk' = [wk EXCEPT ![w].old = slot[wk[w].at].snap]
    /\ UNCHANGED <<v, pump, maint, nodes, sweep, leaked>>

EnableRetire(w) ==
    /\ wk[w].old # NoSnap
    /\ snap_retire_async({wk[w].old})
    /\ wk' = [wk EXCEPT ![w].old = NoSnap]
    /\ UNCHANGED <<v, slot, pump, maint, sweep, live>>

-----------------------------------------------------------------------------
(* Opening: hls_seg_touch under g_mtx, for a key with no segmenter and no  *)
(* close pending.  A store left open by a failed close is taken over, else *)
(* the first free slot is used; what it still publishes is drained.        *)

MtxFree == \A w \in Workers : ~sweep[w].on
\* a worker opens under g_mtx, the feed of a pump opens its track stores
\* without it
MayOpen == MtxFree \/ pump.key # NoKey
OpenFor(k) == {s \in Slots : slot[s].st = "OPEN" /\ slot[s].key = k}
FirstFree == {s \in Slots : slot[s].st = "FREE" /\ \A t \in Slots : slot[t].st = "FREE" => s <= t}

\* snap_drain_all_async left out
hls_store_open_nodrain(k) ==
    /\ MayOpen /\ maint.key # k
    /\ \A s \in OpenFor(k) : ~slot[s].fed
    /\ \E s \in IF OpenFor(k) # {} THEN OpenFor(k) ELSE FirstFree :
          /\ Unlocked(s)
          /\ slot' = [slot EXCEPT ![s] = [EmptySlot EXCEPT !.st = "OPEN", !.key = k, !.fed = TRUE]]
    /\ UNCHANGED <<v, wk, pump, maint, sweep, live, nodes, leaked>>

hls_store_open(k) ==
    /\ MayOpen /\ maint.key # k
    /\ \A s \in OpenFor(k) : ~slot[s].fed
    /\ \E s \in IF OpenFor(k) # {} THEN OpenFor(k) ELSE FirstFree :
          /\ Unlocked(s)
          /\ snap_retire_async(AllOf(s))
          /\ slot' = [slot EXCEPT ![s] = [EmptySlot EXCEPT !.st = "OPEN", !.key = k, !.fed = TRUE]]
    /\ UNCHANGED <<v, wk, pump, maint, sweep, live>>

-----------------------------------------------------------------------------
(* The pump thread feeds a segmenter, which pushes (capture_pump_tick).    *)

FeedStart(s) ==
    /\ pump.key = NoKey /\ slot[s].fed
    /\ pump' = [pump EXCEPT !.key = slot[s].key, !.at = s]
    /\ UNCHANGED <<v, wk, slot, maint, nodes, sweep, live, leaked>>

FeedEnd ==
    /\ pump.key # NoKey /\ ~pump.busy
    /\ pump' = IdlePump
    /\ UNCHANGED <<v, wk, slot, maint, nodes, sweep, live, leaked>>

\* a push publishes a clone of the current snapshot ...
Push ==
    /\ pump.key # NoKey /\ ~pump.busy
    /\ Publish(pump.at)
    /\ pump' = [pump EXCEPT !.busy = TRUE, !.old = slot[pump.at].snap]
    /\ UNCHANGED <<v, wk, maint, nodes, sweep, leaked>>

RetireFull(kept) == Cardinality(kept) >= HLS_SNAP_RETIRE_DEPTH

\* ... and retires the one it replaced, still under the store lock
snap_retire ==
    LET s == pump.at
        kept == {e \in slot[s].retiring : ~qsbr_mark_passed(e.mark)}
        full == RetireFull(kept)
        mine == {[snap |-> pump.old, mark |-> qsbr_mark]}
    IN  /\ pump.busy
        /\ pump' = [pump EXCEPT !.busy = FALSE, !.old = NoSnap]
        /\ \/ pump.old = NoSnap /\ UNCHANGED <<slot, live, nodes, leaked>>
           \/ /\ pump.old # NoSnap
              /\ live' = live \ {e.snap : e \in slot[s].retiring \ kept}
              /\ slot' = [slot EXCEPT ![s].retiring = IF full THEN kept ELSE kept \cup mine]
              /\ IF full THEN snap_retire_async({pump.old}) ELSE UNCHANGED <<nodes, leaked>>
        /\ UNCHANGED <<v, wk, maint, sweep>>

-----------------------------------------------------------------------------
(* Maintenance (hls_seg_sweep_idle): an idle segmenter is unlinked, the    *)
(* pumps pass a quiescent point, its store is closed.                      *)

SweepUnlink(s) ==
    /\ maint.pc = "idle" /\ MtxFree /\ ~sweep["pump0"].on /\ slot[s].fed
    /\ slot' = [slot EXCEPT ![s].fed = FALSE]
    /\ maint' = [maint EXCEPT !.pc = "wait", !.key = slot[s].key]
    /\ UNCHANGED <<v, wk, pump, nodes, sweep, live, leaked>>

\* a close that gets no node returns without opening the slot again
CloseClaimStuck ==
    /\ maint.pc = "wait" /\ pump.key # maint.key
    /\ \E s \in OpenFor(maint.key) :
          /\ slot' = [slot EXCEPT ![s].st = "CLOSING"]
          /\ maint' \in {[maint EXCEPT !.pc = "claimed", !.at = s], IdleMaint}
    /\ UNCHANGED <<v, wk, pump, nodes, sweep, live, leaked>>

\* OPEN to CLOSING, or left open when no node can be allocated
CloseClaim ==
    /\ maint.pc = "wait" /\ pump.key # maint.key
    /\ \E s \in OpenFor(maint.key) :
          \/ /\ slot' = [slot EXCEPT ![s].st = "CLOSING"]
             /\ maint' = [maint EXCEPT !.pc = "claimed", !.at = s]
          \/ maint' = IdleMaint /\ UNCHANGED slot
    /\ UNCHANGED <<v, wk, pump, nodes, sweep, live, leaked>>

CloseTake ==
    /\ maint.pc = "claimed" /\ Unlocked(maint.at)
    /\ maint' = [maint EXCEPT !.pc = "taken", !.snaps = AllOf(maint.at)]
    /\ slot' = [slot EXCEPT ![maint.at].snap = NoSnap, ![maint.at].retiring = {}]
    /\ UNCHANGED <<v, wk, pump, nodes, sweep, live, leaked>>

\* the slot is offered again at once
ClosePushFree ==
    /\ maint.pc = "taken"
    /\ nodes' = nodes \cup {[idx |-> None, snaps |-> maint.snaps, mark |-> qsbr_mark]}
    /\ slot' = [slot EXCEPT ![maint.at].st = "FREE"]
    /\ maint' = IdleMaint
    /\ UNCHANGED <<v, wk, pump, sweep, live, leaked>>

ClosePush ==
    /\ maint.pc = "taken"
    /\ nodes' = nodes \cup {[idx |-> maint.at, snaps |-> maint.snaps, mark |-> qsbr_mark]}
    /\ maint' = IdleMaint
    /\ UNCHANGED <<v, wk, slot, pump, sweep, live, leaked>>

-----------------------------------------------------------------------------
(* hls_store_slot_reclaim_sweep, by maintenance or by a worker whose open  *)
(* found no free slot: the list is taken off, every node checked, the ones *)
(* that have to wait put back.                                             *)

MaySweep(t) ==
    IF t = "pump0" THEN maint.pc = "idle" /\ ~sweep[t].on
    ELSE MtxFree /\ Batch(t) /\ FirstFree = {}

SweepTake(t) ==
    /\ MaySweep(t) /\ nodes # {}
    /\ sweep' = [sweep EXCEPT ![t] = [on |-> TRUE, chain |-> nodes, keep |-> {}]]
    /\ nodes' = {}
    /\ UNCHANGED <<v, wk, slot, pump, maint, live, leaked>>

SweepNode(t) ==
    \E n \in sweep[t].chain :
      /\ IF qsbr_mark_passed(n.mark)
         THEN /\ live' = live \ n.snaps
              /\ slot' = IF n.idx = None THEN slot ELSE [slot EXCEPT ![n.idx].st = "FREE"]
              /\ sweep' = [sweep EXCEPT ![t].chain = @ \ {n}]
         ELSE /\ sweep' = [sweep EXCEPT ![t].chain = @ \ {n}, ![t].keep = @ \cup {n}]
              /\ UNCHANGED <<live, slot>>
      /\ UNCHANGED <<v, wk, pump, maint, nodes, leaked>>

SweepBack(t) ==
    /\ sweep[t].on /\ sweep[t].chain = {}
    /\ nodes' = nodes \cup sweep[t].keep
    /\ sweep' = [sweep EXCEPT ![t] = IdleSweep]
    /\ UNCHANGED <<v, wk, slot, pump, maint, live, leaked>>

-----------------------------------------------------------------------------
Worker(w) ==
    \/ qsbr_worker_offline(w) \/ qsbr_worker_online(w) \/ qsbr_worker_quiescent(w)
    \/ \E k \in Keys : hls_store_find(w, k)
    \/ LoadSnap(w) \/ hls_llhls_enable(w) \/ EnableRetire(w)

Next ==
    \/ \E w \in Workers : Worker(w)
    \/ \E k \in Keys : hls_store_open(k)
    \/ \E s \in Slots : FeedStart(s) \/ SweepUnlink(s)
    \/ Push \/ snap_retire \/ FeedEnd
    \/ CloseClaim \/ CloseTake \/ ClosePush
    \/ \E t \in Sweepers : SweepTake(t) \/ SweepNode(t) \/ SweepBack(t)

Spec == Init /\ [][Next]_vars

-----------------------------------------------------------------------------
(* Properties.                                                             *)

Marks == [Workers -> Nat]
Node == [idx : Slots \cup {None}, snaps : SUBSET Snaps, mark : Marks]
Swept == UNION {sweep[t].chain \cup sweep[t].keep : t \in Sweepers}

\* The variables keep their types; a store never holds more retired snapshots
\* than its array has room for.
TypeOK ==
    /\ v \in [Workers -> Nat]
    /\ wk \in [Workers -> [phase : {"top", "wait", "batch"}, at : Slots \cup {None},
                           key : Keys \cup {NoKey}, held : SUBSET Snaps,
                           old : Snaps \cup {NoSnap}]]
    /\ slot \in [Slots -> [st : {"FREE", "OPEN", "CLOSING"}, key : Keys \cup {NoKey},
                           snap : Snaps \cup {NoSnap}, fed : BOOLEAN,
                           retiring : SUBSET [snap : Snaps, mark : Marks]]]
    /\ \A s \in Slots : Cardinality(slot[s].retiring) <= HLS_SNAP_RETIRE_DEPTH
    /\ pump \in [key : Keys \cup {NoKey}, at : Slots \cup {None}, busy : BOOLEAN,
                 old : Snaps \cup {NoSnap}]
    /\ maint \in [pc : {"idle", "wait", "claimed", "taken"}, key : Keys \cup {NoKey},
                  at : Slots \cup {None}, snaps : SUBSET Snaps]
    /\ nodes \in SUBSET Node
    /\ sweep \in [Sweepers -> [on : BOOLEAN, chain : SUBSET Node, keep : SUBSET Node]]
    /\ live \in SUBSET Snaps /\ leaked \in SUBSET Snaps

\* A snapshot that a reactor worker loaded in its batch is not freed before
\* the worker's next quiescent point, whoever replaced it, closed the store
\* or swept meanwhile (reactor_loop.c:255: no store or snapshot reference is
\* held past that point).
NoUseAfterFree == \A w \in Workers : wk[w].held \subseteq live

\* A store pointer a worker found for a key stays a store of that key: the
\* slot is not freed and given to another key while the worker is in its
\* batch, even when the store is closed under it.
SlotStable == \A w \in Workers : wk[w].at # None =>
    slot[wk[w].at].key = wk[w].key /\ slot[wk[w].at].st # "FREE"

\* every place that owns a snapshot: where, which one, the snapshot
InSlot == {<<"slot", s, slot[s].snap>> : s \in {t \in Slots : slot[t].snap # NoSnap}}
InRetiring == UNION {{<<"retiring", s, e.snap>> : e \in slot[s].retiring} : s \in Slots}
InOld == {<<"old", w, wk[w].old>> : w \in {x \in Workers : wk[x].old # NoSnap}}
InPump == {<<"pump", 0, s>> : s \in Ptr(pump.old)}
InClose == {<<"close", 0, s>> : s \in maint.snaps}
InNode == UNION {{<<"node", n, s>> : s \in n.snaps} : n \in nodes \cup Swept}
InLeaked == {<<"leaked", 0, s>> : s \in leaked}
Owned == InSlot \cup InRetiring \cup InOld \cup InPump \cup InClose \cup InNode \cup InLeaked

\* Every allocated snapshot is owned by exactly one place (a store, its
\* retiring array, a thread about to retire it, a close in progress, a retire
\* node or the leak of a failed allocation): none is lost and none is freed
\* twice, however pushes, closes, reopens, low latency switches and sweeps
\* interleave.  A low latency switch that loses the race with a close leaves
\* its snapshot in the closed slot, where the next open drains it.
OneOwner ==
    /\ live = {o[3] : o \in Owned}
    /\ Cardinality(Owned) = Cardinality(live)

\* A slot being closed is freed by exactly one node, or by the close that is
\* on its way to push it: slots neither get stuck nor are freed twice.
ClosingAccounted == \A s \in Slots :
    (slot[s].st = "CLOSING") =
       (Cardinality({n \in nodes \cup Swept : n.idx = s})
        + (IF maint.pc \in {"claimed", "taken"} /\ maint.at = s THEN 1 ELSE 0) = 1)
=============================================================================
