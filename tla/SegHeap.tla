------------------------------- MODULE SegHeap -------------------------------
(***************************************************************************)
(* What the snapshots of one store share (src/src/dipixy/segstore/, files  *)
(* snapshot.c, pool.c and push.c): every snapshot refers to a ring of      *)
(* segment buffers, reference counted and copied on write, and to a live   *)
(* and an init buffer; zero-copy sends refer to single buffers.  A buffer  *)
(* whose last reference goes returns to the pool and is written again.     *)
(*                                                                         *)
(* When a replaced snapshot is freed is SegStore's business: here it may   *)
(* be freed at any time.  A send starts from the current snapshot or from  *)
(* a replaced one that is not freed yet.                                   *)
(***************************************************************************)
EXTENDS Integers, Sequences, FiniteSets

CONSTANTS
    Snaps,     \* snapshots the allocator can hand out
    Bufs,      \* buffers of the pool and the allocator
    Sends,     \* zero-copy sends in progress
    MaxSegs    \* max_segs of the store

NoSnap == "nosnap"
NoBuf == "nobuf"     \* a NULL buffer: a low latency segment without parts

ASSUME SegHeapAssumption ==
    /\ MaxSegs \in Nat \ {0}
    /\ IsFiniteSet(Snaps) /\ IsFiniteSet(Sends)
    /\ NoSnap \notin Snaps /\ NoBuf \notin Bufs

Rings == Snaps       \* every ring belongs to at least one snapshot

VARIABLES
    heap,    \* of: ring, live and init buffer of a snapshot;
             \* ring: reference count and segments; ref: counts of buffers
    live,    \* snapshots allocated and not freed
    cur,     \* the store's snapshot pointer
    send     \* buffer each send refers to

vars == <<heap, live, cur, send>>

-----------------------------------------------------------------------------
Occurs(b, s) == Cardinality({i \in DOMAIN s : s[i] = b})

seg_buf_ref(h, b) == IF b = NoBuf THEN h ELSE [h EXCEPT !.ref[b] = @ + 1]

seg_buf_unref(h, b) == IF b = NoBuf THEN h ELSE [h EXCEPT !.ref[b] = @ - 1]

\* every buffer of a segment list, once more or once less
RefAll(h, s, d) == [h EXCEPT !.ref = [b \in Bufs |-> @[b] + d * Occurs(b, s)]]

Segs(h, s) == h.ring[h.of[s].ring].segs

ring_unref(h, r) ==
    IF h.ring[r].rc = 1
    THEN [RefAll(h, h.ring[r].segs, -1) EXCEPT !.ring[r] = [rc |-> 0, segs |-> <<>>]]
    ELSE [h EXCEPT !.ring[r].rc = @ - 1]

FreeRing(h) == CHOOSE r \in Rings : h.ring[r].rc = 0

snap_clone(h, ns, base) ==
    LET r == FreeRing(h)
        b == h.of[base]
    IN  IF base = NoSnap
        THEN [h EXCEPT !.of[ns] = [ring |-> r, live |-> NoBuf, init |-> NoBuf],
                       !.ring[r] = [rc |-> 1, segs |-> <<>>]]
        ELSE seg_buf_ref(seg_buf_ref([h EXCEPT !.of[ns] = b, !.ring[b.ring].rc = @ + 1],
                                     b.live), b.init)

CopyRing(h, ns, nr) ==
    LET r == h.of[ns].ring
    IN  [h EXCEPT !.ring[nr] = [rc |-> 1, segs |-> h.ring[r].segs], !.of[ns].ring = nr]

\* in place although the cloned snapshot still uses the ring
ring_cow_shared(h, ns) ==
    LET r == h.of[ns].ring
    IN  IF h.ring[r].rc <= 2 THEN h
        ELSE ring_unref(RefAll(CopyRing(h, ns, FreeRing(h)), h.ring[r].segs, 1), r)

\* a ring nobody else uses is edited in place, else the snapshot gets a copy
ring_cow(h, ns) ==
    LET r == h.of[ns].ring
    IN  IF h.ring[r].rc = 1 THEN h
        ELSE ring_unref(RefAll(CopyRing(h, ns, FreeRing(h)), h.ring[r].segs, 1), r)

NoParts == [ring |-> NoSnap, live |-> NoBuf, init |-> NoBuf]

snap_free(h, s) ==
    [seg_buf_unref(seg_buf_unref(ring_unref(h, h.of[s].ring), h.of[s].live), h.of[s].init)
        EXCEPT !.of[s] = NoParts]

\* a full window loses its oldest segment, then b is appended
AppendSeg(h, ns, b) ==
    LET r == h.of[ns].ring
        full == Len(Segs(h, ns)) >= MaxSegs
        g == IF full THEN seg_buf_unref(h, Head(Segs(h, ns))) ELSE h
    IN  [g EXCEPT !.ring[r].segs = Append(IF full THEN Tail(@) ELSE @, b)]

-----------------------------------------------------------------------------
(* The writers, each on a clone ns of the current snapshot.                *)

hls_push_segment_at(h, ns, b) == AppendSeg(ring_cow(seg_buf_ref(h, b), ns), ns, b)

\* the live buffer is left in place although the segment took it over
hls_push_segment_ll_keep(h, ns) == AppendSeg(ring_cow(h, ns), ns, h.of[ns].live)

\* the live buffer becomes the segment, its reference moves with it
hls_push_segment_ll_at(h, ns) ==
    [AppendSeg(ring_cow(h, ns), ns, h.of[ns].live) EXCEPT !.of[ns].live = NoBuf]

\* a missing or too small live buffer is replaced by b
live_buf_ensure(h, ns, b) ==
    [seg_buf_unref(seg_buf_ref(h, b), h.of[ns].live) EXCEPT !.of[ns].live = b]

hls_set_init_segment_at(h, ns, b) ==
    [seg_buf_unref(seg_buf_ref(h, b), h.of[ns].init) EXCEPT !.of[ns].init = b]

hls_store_discontinuity_at(h, ns) ==
    LET g == ring_cow(h, ns)
    IN  [seg_buf_unref(RefAll(g, Segs(g, ns), -1), g.of[ns].live)
            EXCEPT !.ring[g.of[ns].ring].segs = <<>>, !.of[ns].live = NoBuf]

FreeBufs(h) == {b \in Bufs : h.ref[b] = 0}

\* heaps after a push.  The clone alone stands for a part that fits in the
\* live buffer, the anchor, the low latency switch and the track parameters;
\* the empty snapshot for hls_store_sync_at
Pushed(ns) ==
    LET h == snap_clone(heap, ns, cur)
    IN  {h, hls_push_segment_ll_at(h, ns), snap_clone(heap, ns, NoSnap)}
        \cup {hls_push_segment_at(h, ns, b) : b \in FreeBufs(h)}
        \cup {live_buf_ensure(h, ns, b) : b \in FreeBufs(h)}
        \cup {hls_set_init_segment_at(h, ns, b) : b \in FreeBufs(h)}
        \cup (IF cur = NoSnap THEN {} ELSE {hls_store_discontinuity_at(h, ns)})

-----------------------------------------------------------------------------
Init ==
    /\ heap = [of |-> [s \in Snaps |-> NoParts],
               ring |-> [r \in Rings |-> [rc |-> 0, segs |-> <<>>]],
               ref |-> [b \in Bufs |-> 0]]
    /\ live = {} /\ cur = NoSnap
    /\ send = [c \in Sends |-> NoBuf]

Push == \E ns \in Snaps \ live :
    /\ heap' \in Pushed(ns)
    /\ live' = live \cup {ns}
    /\ cur' = ns
    /\ UNCHANGED send

\* hls_store_close
Close ==
    /\ cur # NoSnap /\ cur' = NoSnap
    /\ UNCHANGED <<heap, live, send>>

Reclaim == \E s \in live \ {cur} :
    /\ heap' = snap_free(heap, s)
    /\ live' = live \ {s}
    /\ UNCHANGED <<cur, send>>

BufsOf(s) == ({heap.of[s].live, heap.of[s].init} \cup {Segs(heap, s)[i] : i \in DOMAIN Segs(heap, s)})
             \ {NoBuf}

SendStart(c) ==
    /\ send[c] = NoBuf
    /\ \E s \in live : \E b \in BufsOf(s) :
          /\ send' = [send EXCEPT ![c] = b]
          /\ heap' = seg_buf_ref(heap, b)
    /\ UNCHANGED <<live, cur>>

seg_buf_release_cb(c) ==
    /\ send[c] # NoBuf
    /\ heap' = seg_buf_unref(heap, send[c])
    /\ send' = [send EXCEPT ![c] = NoBuf]
    /\ UNCHANGED <<live, cur>>

Next ==
    \/ Push \/ Close \/ Reclaim
    \/ \E c \in Sends : SendStart(c) \/ seg_buf_release_cb(c)

Spec == Init /\ [][Next]_vars

-----------------------------------------------------------------------------
(* Properties.                                                             *)

\* Counts are natural numbers and the window never exceeds max_segs.
TypeOK ==
    /\ \A b \in Bufs : heap.ref[b] \in Nat
    /\ \A r \in Rings : heap.ring[r].rc \in Nat /\ Len(heap.ring[r].segs) <= MaxSegs
    /\ live \subseteq Snaps /\ cur \in live \cup {NoSnap}
    /\ send \in [Sends -> Bufs \cup {NoBuf}]

RingUses(b) == UNION {{<<r, i>> : i \in {j \in DOMAIN heap.ring[r].segs :
                                         heap.ring[r].segs[j] = b}} : r \in Rings}

\* Reference counts are exact: a ring counts the snapshots that share it, a
\* buffer the rings, live and init pointers and sends that use it, so that a
\* buffer returns to the pool exactly when nobody can read it any more.
RefsExact ==
    /\ \A r \in Rings : heap.ring[r].rc = Cardinality({s \in live : heap.of[s].ring = r})
    /\ \A b \in Bufs : heap.ref[b] =
          Cardinality(RingUses(b))
          + Cardinality({s \in live : heap.of[s].live = b})
          + Cardinality({s \in live : heap.of[s].init = b})
          + Cardinality({c \in Sends : send[c] = b})

\* A snapshot never changes once published: its segments, live and init
\* buffer stay the same until it is freed, whatever later pushes do to the
\* ring they share with it.
Frozen == [][\A s \in live \cap live' :
    /\ Segs(heap, s) = Segs(heap', s)
    /\ heap.of[s].live = heap'.of[s].live /\ heap.of[s].init = heap'.of[s].init]_vars
=============================================================================
