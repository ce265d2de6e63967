# A TLA+ development for dvbipitools

dvbipitools is a set of DVB-IPI tools in C: head ends, a proxy (dipixy), a
fast-channel-change and retransmission server (dipifccret), recorders,
announcers and converters, on top of shared libraries.  This development models
the part of it where correctness depends on the order of events: the FCC/RET
server, whose threads share lock-striped and lock-free tables, the FCC and
RET clients, which put a stream back in order from unreliable sockets, and the
core of dipixy, whose pump threads hand captured streams to reactor workers
through lock-free snapshots, reference counts and quiescent states.

## 1. Inventory

### dipifccret, the server

Threads: one *capture* thread (the only writer of channels, their caches and
rings), several *listen workers* (RTCP requests from clients), one *pacer*
(FCC bursts), an *RSI pacer* and a *metrics* thread (readers), and the main
thread, which stops and joins the others and frees the tables.

| Part | State | Operations | Shared with | What is hard | What makes it correct |
|---|---|---|---|---|---|
| Burst table (`fcc/burst_table.c`, `fcc/burst.c`, `run/pacer.c`, `run/dispatch.c`) | slots, stripe locks, free lists, client index, high water mark, reference counted bursts | RAMS-R (create, swap, claim, reject), RAMS-T, NACK feedback, pacer acquire / tick / release, shutdown | workers, pacer, main | ticks run outside the lock while workers swap; references move between four holders; addresses are reused | exact references, no lost or doubly used slot, a result never applied to another burst, sessions end |
| FCC cache (`channel/ring.c`, `lib/helper/seqlock.h`) | ring of packets under per-entry seqlocks, `write_count`, `rap_write_count`, generation | append, pin, read by position, recycle | capture writes, workers and pacer read without a lock | two counters loaded apart, lapping writers, a memset under readers, a writer stalled at an odd generation | no torn packet, no older packet, wait-free reads |
| Channel table (`channel/channel.c`, `channel/hash.c`) | channel slots; three open-addressed indexes with tombstones: key, SSRC, resolve slot | lookup-or-claim, store, reap step, rebuilds | capture writes, all read | long sequences of claims, tombstones and rebuilds; unbounded probe loops | one channel per key, probes end, indexes agree with the channels |
| RET path (`ret/ret.c`, `ret/rtx_session_table.c`, RET ring in `channel/ring.c`) | ring by sequence number, RTX sequence numbers per client, dedup state | store, find, NACK handling, eviction | capture, workers | generations are reset when a channel is recycled; eviction under use | a repair is the packet asked for; sequence numbers of a session do not repeat |
| Multicast repair sockets (`ret/mcsend.c`) | current and retired socket per channel | ensure, get, send | capture, workers, RSI pacer | a retired socket is closed one replacement later | no send on a closed descriptor |
| Rate limits (`ret/ratelimit.c`) | token buckets, per-client table | consume, refill, evict | workers | refill arithmetic, prepaid tokens | budgets hold |
| HNED tracking (`channel/channel.c`) | two bounded tables per channel | observe, collide, evict | workers, capture | bounded eviction | a collision is detected within its window |
| Listeners, capture, RSI, metrics, configuration | sockets, packet filter, text | I/O and formatting | | | |

### The clients in lib/fccret (used by dipixy, the recorder and others)

| Part | State | Operations | What is hard | What makes it correct |
|---|---|---|---|---|
| RET client (`ret_client.c`) | expected sequence number, hold window, NACK times, output queue | `ret_client_read` over three sockets | originals, unicast and multicast repairs in any order, repeated and late; wrap of 16 bits; retries and deadlines | in order, nothing twice, nothing it holds forgotten, gaps do not block for ever |
| FCC client (`fcc_client.c`) | burst position, RAMS-T state, multicast buffer | `fcc_client_read` over two sockets, rejection | burst and multicast meet; full buffer; silent server | a clean splice, an eventual hand-over |

### dipixy, the proxy

Threads: *reactor workers* (HTTP), *pumps* (read the captured streams, feed the
segmenters; pump 0 also does maintenance), *lifecycle threads* (open and free captures),
and a builder of the channel list.

| Part | State | Operations | Shared with | What is hard | What makes it correct |
|---|---|---|---|---|---|
| QSBR (`reactor/qsbr.c`) | a counter per worker or pump | online, offline, quiescent, mark, passed | all | what may be freed when | nothing is freed under a reader |
| Segment store (`segstore/`) | store slots, a snapshot each, retiring snapshots, the retire list | open, find, close, pushes, low latency switch, sweep | workers read, pump and workers write, maintenance closes | slots are recycled under workers that found them; nodes that cannot be allocated; two sweeps at once | one owner per snapshot, a slot keeps its key while it is looked at |
| Snapshot contents (`snapshot.c`, `pool.c`, `push.c`) | reference counted rings and buffers | clone, copy on write, free, zero-copy sends | pump, workers | the in-place edit when the count is 1; buffers are recycled | exact counts, published data never changes |
| Segmenter (`segment/`) | muxed and track stores, parts in progress, sequence floor | fragments, parts, program changes, idle close, reopening | pump, workers | several stores change one after the other; low latency comes on in the middle | names are never reused, tracks aligned, no part lost |
| Low latency DASH (`dash/lldash/`) | subscriber table, chains per store, rings | subscribe, attach, part, segment end, store close, read, close | pump walks, workers link and recycle | catch-up against callbacks; slots recycled under a walk | every part once and in order, a clean end means complete, every stream ends |
| Capture contexts (`ts/capture/`) | list, reference counts, snapshots of the list, open jobs, retired contexts | open, try_ref, close, job submit, take, cancel, pin, retire, reap | all | references dropped without the lock; pins against unlinking; allocation failure | exact references, no use after free, one context per source |

### The rest

The remaining parts of dipixy (reactor, TS push, HLS/DASH texts, HTTP/2 and 3, DLNA),
the head ends, the conditional-access and scrambler libraries, parsers and
builders, announcers and bridges are listed one by one in `PROJECT.json` with
the reason they are not modelled: byte formats, I/O, third-party stacks, or
planned (section 2).

### How the parts interact

`capture_cb` (capture thread) reaps a slice of the channel table, looks the
group up, stores the packet (SSRC index, RET ring) and appends to the FCC cache.
`rams_r_cb` (worker) creates a burst, which pins its cursor in the cache, gives
it to `burst_table_start` and answers with RAMS-I.  The pacer snapshots the
table, ticks every burst (reads through the cache's seqlocks), and clears the
slot of a finished one.  `nack_cb` (worker) answers from the RET ring and feeds
the burst table's congestion logic.  On the receiving side dipixy's
`capture_read_dispatch` reads through the FCC client until it is done, then
through the RET client.

In dipixy a request takes a reference on a capture context, or submits a job that opens one.
Pumps walk a snapshot of the contexts, pin each and feed its segmenters, which push
fragments into stores.  A store's snapshot is what workers render playlists and
segments from, and its callbacks drive the low latency DASH subscribers.  Three
domains of quiescent states decide when a replaced snapshot, a closed slot or an unlinked
context goes: the workers' for stores, the pumps' for captures and for subscriber slots.

## 2. Plan

Done, in this order: `BurstTable` with `BurstTableProofs`, `RapCache` with
`RapCacheProofs`, `ChannelMap` / `ChannelTable`, `RetClient`, `FccClient`; then dipixy:
`SegStore`, `SegHeap`, `SegSnapshot` / `SegTimeline`, `LlDash`, `CaptureLife`; then the theorems of
`BurstTableProofs`, `RapCacheProofs`, `FccClientProofs`, `SegStoreProofs`, `CaptureLifeProofs`,
`SegTimelineProofs`, `SegHeapProofs` and `LlDashProofs`.  `SegSnapshot` is the common part of
`SegTimeline` and `LlDash`: what each store operation makes of a snapshot.

Next, by importance:

1. `RetRing`: the RET ring's seqlock by sequence number against a recycle that
   resets generations to 0 (`channel.c:156-159`), which can make a generation
   repeat under a reader; `RtxSessions`: striped sessions with eviction.
2. `McSend`: `mcsend_ensure` / `mcsend_get` with the close deferred by one replacement.
3. The waiter lists of LL-HLS (`llhls_flush_waiters`) and `ts_push`'s lapped readers.
4. `RateLimit` and `HnedTrack`: bounded tables, token arithmetic.
5. Composition: `ChannelTable` with `RapCache`, so that a burst's channel is
   found, recycled and refilled by the same writer steps.

## 3. Modules

Every definition that translates code is listed under `map` in `PROJECT.json`
with its lines.  Definitions such as `TakeRefLost`, `EntryNext` or `ClosePushFree`, each with a
comment on what it does wrong, are deliberately wrong variants of the definition
after them, used only to see that the properties can fail.

### BurstTable (burst_table.c, burst.c, pacer.c, dispatch.c, serve.c)

A critical section under a stripe lock is one action; what a thread does outside
the lock is a step of its own.  A worker goes `idle -> start -> (terminateOld ->
releaseOld) -> reply -> idle`, or handles RAMS-T and NACK in one locked step.  The
pacer goes `sleep -> scan -> tick -> send -> release -> notify -> dropSlot ->
dropSnap` for each snapshotted slot.  `Bursts` are heap addresses: `free()` makes an address
available again, so a stale pointer may meet a new object.  `cuts` counts halvings of
the rate and `elapsed` pacer cycles, both saturated; everything else is the code's state.
What a tick sends is left to RapCache: here it ends or not, and meets congestion or not.

### RapCache (ring.c, seqlock.h, burst.c, channel.c)

One channel's cache, its writer and one burst.  Every load and store that
another thread can observe is its own step: begin generation, header, body,
commit, publish for the writer; the three loads of the pin; generation, end, bounds
check, slot computation, seqlock begin, header, body and check for the reader.
Recycling is modelled in the code's order: the memset (which also clears `cap`), the
restored capacity, the restored generation.  Memory is sequentially consistent: the
fences of the seqlock and the release/acquire pair on `write_count` order what is
modelled; the relaxed `rap_write_count` may in reality be staler still.

### ChannelMap and ChannelTable (channel.c, hash.c, dispatch.c)

`ChannelMap` is the promise: a key keeps one slot from its first packet until it
is reaped, two keys never share one, and a packet is turned away only if no slot
is idle.  `ChannelTable` is the code: buckets with 0, tombstone or index + 1,
linear probing, claims that take the first tombstone, rebuilds at three
quarters, the SSRC index with `channel_store`'s order of writes, resolve slots and
the reap cursor.  A packet (`capture_cb`) is one action, since the writer is a single
thread; the index of a reader is what `Find` returns.  The refinement maps
`owner` to `found`, the result of probing for every key.

### RetClient and FccClient (lib/fccret)

A call of `ret_client_read` or `fcc_client_read` is one action, taking at most one
datagram from each socket in the code's order.  A packet is its number in the
sender's stream, and carries that number modulo `SeqSpace`; distances are the
code's signed 16-bit differences.  The network is external: it loses,
delays and repeats originals and repairs within `Late` and `Jump`; burst and
multicast sockets lose packets and keep their order.  Two assumptions
are made of it: a sender that restarts takes a new SSRC and does not return to
the old one, and the burst trails the multicast (section 6 says what happens without them).
The buffer of the FCC client may fill, and a multicast packet may be too long for a slot of it:
the client then cuts over and hands this packet out at once; `cut` remembers which one it was.

### SegStore (qsbr.c, store.c, retire.c, segment.c, reactor_loop.c)

Workers go `top -> wait -> batch`, with the QSBR counter odd while online.  In a batch a worker
finds stores, loads snapshots, switches low latency on, opens stores and sweeps.  A push publishes
and then retires under the store's lock; the low latency switch publishes under it
and retires after it.  Maintenance unlinks an idle segmenter, waits for the pump, claims the
slot (`OPEN -> CLOSING`), takes its snapshots and pushes a node with the mark; a sweep takes the whole
list off, checks node by node and puts back what has to wait.  `wk[w].held` is the set of snapshots a
worker has loaded in its batch.  Allocation of a retire node may fail (`leaked`), and a
close that gets none leaves the store open.  `hls_store_open` is one step: its transient
state OPENING is seen by nobody but another open of the same key, which g_mtx excludes.  A `VIEW` takes
counters relative to the marks that are compared with them, so that the state space is finite.

### SegHeap (snapshot.c, pool.c, push.c)

The heap behind one store's snapshots: which ring, live and init buffer a snapshot refers to, the
counts of rings and buffers, and the buffers of zero-copy sends.  `hls_push_segment_at`,
`hls_push_segment_ll_at`, the part, init segment, parameter and discontinuity writers are translated with
their order of clone, copy on write and unreference.  When a replaced snapshot goes is
`SegStore`'s matter; here it may go at any time, which is the stronger environment.

### SegSnapshot and SegTimeline (push.c, mux.c, demux.c, segment.c)

`SegSnapshot` has what each writer makes of a snapshot: window, sequence numbers, parts in progress, live
edge, epoch, timeline position, anchor.  `SegTimeline` is a segmenter with the muxed store and one track store: a feed
is a sequence `todo` of store operations, executed one by one, so that a reader or the worker that
switches low latency on sees the stores between them.  `n` is the segmenter's own count of parts, with
which it keeps the last part slot for the part that ends the segment.  `floor` is
`g_seq_floor`, which closes of other stores raise too (`ForeignClose`).  The track muxers may come to nothing:
a store that does not open, a store that is synchronised and gets no muxer (`CreateTodo`).  A sweep closes the muxed store
and then the track stores, and a touch that raced it may switch low latency on before, between and after the closes.
Data are the numbers of fragments; names of segments ever served are kept in `seen`.

### LlDash (dash/lldash/, http2_dashchunk.c, http3_dashchunk.c, reactor_dashchunk.c)

The pump publishes, then walks the chain: head, look (next and state read without the
subscriber's lock), call.  A worker subscribes in two steps (read the live number, link), attaches and catches
up under the subscriber's lock, reads the ring in the steps of the read callback, and
closes: `CLOSING`, unlinked, deferred until the pumps are quiescent.  The protocols differ: HTTP/1 is written to at once and
ended by `sub_end`, HTTP/2 resets a stream whose ring is in error, HTTP/3 ends it as if it were complete.  `hls_store_close`
gives the slot back before it calls the closing callback (`store.c:139-141`), so the slot may be open for another key
when the callback walks it: that walk is `stale`, and `early` names the two openings concerned.  `hist` keeps what was pushed per opening and
number, `got` what the client received, `late` whether the ring was used while the read callback was past
its look at it.  `Chain` is what the head leads to, the least set of
slots closed under `next` (`Reach`); a catch-up emits all parts the snapshot has in one expression (`EmitAll`).

### CaptureLife (ts/capture/)

Requests, list builders, lifecycle threads and pumps.  Reference counts are atomics, so that a section under
`g_lock` takes several steps: the fast path of `unref_unlink_ctx` without the lock, the test, the
subtraction, the unlinking with its new snapshot.  A pump loads the snapshot, pins entry by
entry (`try_pin` skips a count of 0), drains, which may find the source dead, and releases.  The three ways
out of an allocation failure are there: no snapshot (the reference is kept), no retire
node (the caller waits for the pumps; a pump frees its own at once).  A job is taken, run, done, cancelled.

## 4. Runs

| Run | Instance | Shows |
|---|---|---|
| `burst_table` | 2 clients, 2 workers, 3 burst addresses, 1 slot, threshold 3 (911 k states) | references, index and free list are exact; a clear concerns only its own burst; the rate is halved at most once; nothing is left at exit |
| `burst_ends` | 2 stripes of 1 slot, 2 clients, 1 worker, fair | sessions are in their client's stripe and under the scan mark; every burst leaves its slot |
| `rap_cache` | ring of 2, 4 packets, 2 incarnations, 2 tries, fair (1.5 M states) | never torn, never older than the cursor or from an earlier channel; ticks return |
| `channel_map` | 3 keys (2 colliding), 2 channels, 4 buckets, 2 SSRCs, reap slice 1 | probes end, counters are exact, indexes agree with the channels, the table implements ChannelMap |
| `ret_client` | window 3, sequence numbers wrap after two packets, 2 SSRCs, one oversized packet, fair | order, NACK budget, no queue overflow, nothing forgotten, gaps move |
| `fcc_splice` | 7 packets across the wrap, a buffer of 3, one packet too long for it, fair | order but for the packet that finds no room, a clean splice, hand-over |
| `seg_store` | 2 workers, 1 slot, 2 keys, 3 snapshots, retire depth 1, 1 failed node (624 k states) | no snapshot freed under a worker, no slot given to another key under one, one owner per snapshot, closing slots freed once |
| `seg_heap` | 3 snapshots, a window of 2, 1 send (192 k states) | counts exact, published snapshots never change |
| `seg_timeline` | window 2, 2 parts per segment, 3 fragments, 1 program change, 2 openings, 1 raise of the floor (3.8 M states) | names once, tracks aligned and ready together, no part refused, availability sticks |
| `lldash` | 2 subscribers of the three protocols, ring of 1, 2 parts, 1 cut, 2 of these at most, 2 openings (6.8 M states) | parts once and in order, a clean end has reached the client whole but for two named ways, finalised segments end their streams |
| `capture` | 1 request, 1 builder, 1 lifecycle thread, 1 pump, 2 contexts, 3 snapshots, 1 job, 1 failed allocation (3.5 M states) | no use after free, counts exact, one context per source |
| `capture_zero` | the same | violated: a count reaches 0 while the context is linked |

**Bounds.** One slot is enough for claim, swap, rejection and reuse to collide,
and three addresses for a stale pointer to meet a new object; two stripes for a slot to be in the
wrong one.  A ring of two with four writes wraps twice, so that the writer laps a
reader both during and between its loads; two incarnations give one recycle at every
point of a read.  Two channels, four buckets and overlapping probe runs reach
tombstones in front of, behind and between live entries, and both rebuilds.  A
window of three holds a gap, a held packet in the middle and an
extension; numbers 14..20 modulo 16 cross the wrap inside a gap.
One store slot wanted by two keys makes every open a recycle; three snapshots are the published one, a
retired one and one more in a node.  A retire depth of 1 reaches the full array with the
second push.  Two parts per segment make every second part the reserved one; three fragments fill a
window of two and push one out.  One raise of the floor by another store is enough to put a track store off its muxed
one; `TrackNamesOnce` (section 6) takes two.  A buffer of three for seven packets fills before the burst has caught up,
and a packet that is too long meets it empty, half full and full.  In `lldash`, `MaxMoves` = 2 lets the pump
push two parts, or one part and one discontinuity in either order, in one opening or spread over both: a full ring, a part pushed during a
catch-up and a cut segment are all within it, and the closing walk may be overtaken at each of its steps.  Two subscribers give a walk a node that is unlinked and recycled between
its look and its call.  In `capture` the builder opens the source a job is opening, and the source's
death lets the same key have a second context while the first is still pinned.
`Symmetry` permutes interchangeable values (clients, workers and addresses in `burst_table`; workers and snapshots,
subscribers, contexts in the dipixy runs); none of these runs has a liveness property.
`KeySymmetry` exchanges the two keys with equal hashes in `channel_map`, whose properties are all safety properties.
`CHECK_DEADLOCK FALSE` stands where the system really stops: after shutdown, at
the last packet of a bound, after the client is closed.

**Fairness.** `burst_ends`: weak fairness of the pacer, whose loop only sleeps and
never waits for a client, and of a worker inside a handler; strong fairness of a
worker's exit, since it tests the stop flag after every datagram; none of requests.
`rap_cache`: weak fairness of the burst's steps only; the capture thread
may stall anywhere.  `ret_client`, `fcc_splice`: the caller calls read again, the poll times out
when nothing arrives, and time passes; nothing is assumed of the network.

## 5. Proofs

TLAPS checks every obligation in `BurstTableProofs`, `RapCacheProofs`, `FccClientProofs`,
`SegStoreProofs`, `CaptureLifeProofs`, `SegTimelineProofs`, `SegHeapProofs` and `LlDashProofs`; the theorems
hold for all values of the constants that satisfy the named assumptions, so for any number of clients, workers, slots, packets, contexts.
Where type correctness is a theorem it is not repeated as an invariant of a run.

**BurstTableProofs.** Assumed: at least one slot, `stripe_init`'s free lists hold each slot
of their stripe once, hash and stripe maps are functions.  Proved: `TypeCorrect`,
`RefsCorrect`, `IndexCorrect`, `FreeListCorrect`, `SlotsCorrect`, `NoLeakCorrect`, `RateCutCorrect`,
`ClearCorrect`.
`RefsExact` is not inductive alone: a release is safe only if the reference
released is the one counted.  `IInv` therefore adds that slot ownership of a burst is in one
place only (`OwnerOK`: the creating worker, one slot, the worker that
swapped it out, or the pacer that cleared it), that a burst is snapshotted at
most once and at its own slot's index, the program counters' invariants
(`WorkerOK`, `PacerOK`) and that the table is freed only after every thread has
left (`FreedOK`).  One lemma per action (`Step...`) shows the conjuncts it can disturb; the
others follow from the `Keep...` lemmas.  The two action properties take a second invariant, `EndInv`:
what the pacer's tick has concluded about the burst in its hand is still true of that burst when the slot is cleared.

**RapCacheProofs.** Assumed: a non-empty ring, at least one try, a word wider than the
positions used.  Proved: `TypeCorrect`, `NoTornCorrect` and `NeverOlderCorrect`.  The invariant is the seqlock argument:
a generation is odd exactly at the entry the writer is in (`OddOK`), a stable
entry holds one packet (`EntryOK`), and what a reader has copied is still
in the entry unless its generation has moved on (`ReaderOK`), which needs that
generations only grow, also across recycles of the channel: `rap_cache`'s entries
keep theirs, unlike the RET ring's.  `NeverOlder` adds `AgeInv`: the packets in the ring are the last
ones written in their order, and a position a reader has checked against `write_count` can only be overwritten by a
packet one or more laps younger.

**FccClientProofs.** Assumed: the bounds are natural numbers, the numbers in use span less than
half the sequence space, `None` is no integer.  Proved: `CleanSpliceCorrect` and `InOrderCorrect`, for a buffer of any
size, full or not, and packets of any length.  With a full buffer the code delivers the newest multicast packet before the
buffered ones (`fcc_client.c:128`, section 6); `InOrder` excepts that packet (`cut`) and no other, and there
is at most one, since the client is done with it.  The invariant says that the last number delivered, the buffered
multicast numbers, the packet cut and what is still in the socket increase in this order.

**SegStoreProofs.** Assumed: the retire depth and the bound on leaks are natural numbers, slots are positive
numbers, finitely many snapshots, and the null values are no members of the sets they stand beside.
Proved: `TypeCorrect`, `NoUseAfterFreeCorrect`, `SlotStableCorrect`, `OneOwnerCorrect` and
`ClosingCorrect`.  The argument is that of quiescent states: the mark of a retire node
is taken after the pointer is gone, so a worker that still holds the pointer has been online since before the mark
and its counter has not moved (`HeldOK`, for slots `AtOK`).  Freeing once needs that every live snapshot has
one place among the slots, their retiring arrays, the nodes and the threads' hands (`OneOwner`, with
`RetiringOnce` and `NodePlaces` for the nodes in the list, in a sweep and on the way to the list), what each
thread's program counter says about its hands (`ThreadsOK`), and the account of closing slots (`ClosingOK`).

**CaptureLifeProofs.** Assumed: the roles (requests, builders, lifecycle threads, pumps) are disjoint finite
sets (`ActorAssumption`).  Proved: `NoUseAfterFreeCorrect`, `RefsExactCorrect` and `OneSourceCorrect`, for any
number of threads of each role and of contexts.  `IInv` counts: a linked context's references are exactly those the
actors hold and the pumps' pins (`Counts`, with `HeldOK`, `AwayOK` and `AwayCounts` for contexts out of the
list).  A context in a pump's walk is in the list, or on its way out with this pump in the mark still to be
waited for, or retired under a mark that includes the pump (`WalkOK`, `SnapOwners`, `Published`); an inline free by a
pump concerns its own shard and happens between walks (`ShardOK`).  `PinOK` says that a pump has released
everything before it loads a snapshot again.  Neither `g_lock` nor the number of free
snapshots is needed by the argument: counts and marks suffice.

**SegTimelineProofs.** Assumed: a window and a part limit of at least 1, bounds in `Nat`.  Proved:
`SegNamesCorrect`, `TracksAlignedCorrect`, `ReadyCorrect`, `NoPartLostCorrect` and the action property
`AvailableSticksCorrect`.  The invariants speak of moments between two feeds or of a reader at any moment, so the invariant has to say where the stores stand inside a
feed: what is left in `todo` is one of twenty-two scripts (`Plan`), each a phase, and `Good(ph)` relates the stores in that
phase.  `AlignOK` says that the track store is where the muxed one is, or where the operations left will take it;
`LiveOK` that the store has no more parts than the segmenter counts; `EmptyOK` that without a muxer the muxed store
lists nothing, which makes a sync's position a complete description of it.  `MuxedNamesOK` and
`TrackNamesOK` bound the numbers served by the next one.  The operation lemmas (`FullFacts`, `PartFacts`, `SyncFacts`, ...)
state once what each writer makes of a snapshot, the `Same...` lemmas that an operation done to both stores keeps
them together; `hls_llhls_enable` changes nothing that `Same` compares, so a worker may do it at any moment.
The stores close one by one (`StepCloseTrack`): in between the muxed store is gone and the track store still there; each
close raises the floor, so that the names served stay below the next number of either store (`Below`, `Raised`).
The attempt to prove names unique for the track store without a condition found the race in section 6
(`TrackNamesOnce`); `SegNamesOnce` states what holds.
`AvailableSticks` needs one more invariant, `WindowOK`: the window ends where the segment in progress
starts, so that the parts in progress, when they become a segment, are found under the number they had at the
live edge.  `Sticks` states it of one publication, with a lemma per writer (`StickPart`, `StickSeg`, ...).

**SegHeapProofs.** Assumed: a window of at least 1, finitely many snapshots and sends, the null values are no
members of the sets they stand beside.  Proved: `TypeCorrect`, `RefsExactCorrect` and `FrozenCorrect`.
A writer is a sequence of edits, and `RefsExact` is false between them: a reference is taken before there is a
pointer that holds it.  The proof therefore follows the slack of a buffer, its count less the uses by snapshots and
rings; `Effect` says what an edit of one snapshot and one ring's list does to it, each helper has a lemma that
moves it by one (`RefOne`, `UnrefOne`, `AppendOK`, `SetLive`, ...), and every writer ends where it started (`Safe`).  Between
two operations the slack is the number of sends (`IInv`).  `HeapOK` adds that rings are counted exactly and that a
free ring is empty.  `FrozenCorrect` needs that a list is only written in a ring counted once (`Alone`), which is what
`ring_cow` establishes (`Cow`); that there is a ring to copy to is the pigeonhole of `FreeRingExists`: rings are as many as
snapshots, and a shared one leaves another free.

**LlDashProofs.** Assumed: 0 is no slot, a protocol is HTTP/1, 2 or 3, the bounds are natural numbers and the store
is opened at least once.  Proved: `SegmentEndsCorrect`, `PartsInOrderCorrect` and `EndedWholeCorrect`, for any number of slots,
any ring, window and part limit.  The hard part is the pump's walk over a chain that workers change under it.  What the chain leads
to is a least closed set, so that no induction along it is needed: a link at the head adds one slot (`LinkChain`), an
unlink takes one out and leaves what lies behind it reachable, also from the slot that was unlinked (`BypassReach`,
`UnlinkChain`).  `IInv` says that the snapshot shows the history of what was pushed (`SnapOK`), that the chain is a line of
slots holding every subscriber of the present opening (`ChainOK`), that the walk meets no slot that was given back and
reports what is published (`WalkOK`), and of each subscriber that it was sent a prefix of its segment's history, where what is
missing, or the end, is on its way: the walk has the subscriber still ahead of it (`SubOK`, `StreamOK`, `Told`, `Ahead`).
`CleanOK` says what a client whose response ended cleanly has received, with the two exceptions in `EndedWhole`.  `StaleOK`
confines a closing walk that was overtaken by the next opening: it meets subscribers of the two openings in `early` only, so that
`PartsInOrder` and `EndedWhole` hold of every other (`Kept`, `OfKept`), and `SegmentEnds` of all.
There is one lemma per action; `Settled` says of the slot a walk step leaves that nothing more is owed to it.

**Only model-checked:** liveness (`BurstEnds`, `TickReturns`, `GapMoves`, `HandsOver`), which is beyond the prover
under fairness; `ChannelTable` with its refinement of `ChannelMap`, and `RetClient`
(`InOrder`, `NackBudget`, `OutqNeverFull`, `NothingForgotten`): the rebuild of an index and the shift of the hold window are
folds, so that what they compute needs induction over data, which the provers cannot do.

## 6. Where code and documentation disagree

`capture_zero`: `unref_unlink_ctx` tests `refcount > 1` under `g_lock` (`ctx.c:85`) and subtracts without
looking at the result (`ctx.c:86`), while the lock-free path of another closer or of a pump's
release (`ctx.c:81`) takes the count from 2 to 1.  The count is then 0 in a context that is still
linked, against "drop to 0 under g_lock" (`ctx.c:74`): pumps skip it, nobody retires it, and a later
lookup brings it back with a count of 1.  Nothing is freed too early (`NoUseAfterFree` and `RefsExact` hold);
the source is never closed if no request comes back to it.

The following are states of the models that a comment or an expectation excludes.  The formulas
named are in the modules, with the reason in their comment, and are not invariants; checking one of them with the
bounds given prints the trace.

- `BurstTable!ReplyReadsLive`: `rams_r_cb` reads the burst (`dispatch.c:226`) after
  `burst_table_start` published it; the pacer may have ended and freed it.
- `RapCache!SendsItsPacket` (1 incarnation): a writer one lap ahead replaces the packet under the cursor between the check
  of `write_count` and the read (`ring.c:207`).  `PinnedToRap`: the pin subtracts a
  `rap_write_count` loaded after `write_count` (`ring.c:193`), and the unsigned difference wraps.  `NoZeroCapacity`:
  recycling clears `cap` under a reader that is about to divide by it (`channel.c:143`).
- `ChannelTable!SsrcFound` (3 SSRCs): a rebuild inside the insertion (`hash.c:165`) runs before the channel's SSRC is
  stored and drops the new entry.
- `FccClient!InOrder` without its exception (`last` set by every packet): with a full buffer the newest multicast packet
  is delivered before the buffered ones (`fcc_client.c:128`), against "burst-then-multicast TS payload" (`fcc_client.h:28`).
- `LlDash!PartsInOrder` and `EndedWhole` over `Streaming` instead of `Kept`: a slot opened for another key between
  `slot_retire_push` and the closing callback (`store.c:139-141`) is walked with the new chain.  The new store's subscribers are
  ended in the middle of a segment; the old store's are missed and wait, or attach and are sent the new store's parts.
- `LlDash!EofDrained`: the read callback finds the ring empty and then the segment
  finalised (`http2_dashchunk.c:22`, `http3_dashchunk.c:26`); a part and the end that come in between are cut off
  by a clean end, against "EOF once finalized and drained" (`http2_dashchunk.c:12`).
- `SegTimeline!TrackNamesOnce` (2 raises of the floor): `hls_store_sync_at` finds no snapshot of the muxed store (`push.c:373`)
  and will start the track store at the floor; a worker's `hls_llhls_enable` then gives the muxed store its first
  snapshot at the present floor, other stores close and raise it, and the track store starts above the muxed
  one.  The next program change takes it back to the muxed store's number (`push.c:390`), below numbers it has served,
  against "seq and ETags stay unique" (`snapshot.c:37`).
- `SegTimeline!LiveEdge`: a feed that read a part target of 0 pushes a whole segment after a worker
  switched low latency on, so `live_msn` stays behind `next_seq` (`segstore_int.h:81`:
  "live_msn == next_seq while this segment is in progress") until the next part ends.

Smaller observations, without a run:

- `nack_cb` sends RAMS-I 502 at the NACK threshold (`dispatch.c:137`), while
  `burst.h:28` calls the code "local sendto() EAGAIN/ENOBUFS during a tick, no NACK/RR-based detection".
- `outq_push`'s backstop (`ret_client.c:66-68`, "can't happen per the call-site accounting") is
  reached when two senders' SSRCs take turns on a group and late repairs of the first are already
  queued: one read then makes RET_GAP_MAX + 2 pushes.  `RetClient` assumes senders do not return.
- If the burst is ahead of the first multicast packet read, `fcc_check_splice` accepts it and the
  buffered packets up to the burst's position are delivered twice.  `FccClient` assumes the burst trails.
- Segment numbers are unique across reopening, part and init names are not: they start over.
- A discontinuity of a store without live parts, and `hls_store_sync_at` on a track store, call no
  `segment_done`: a low latency DASH subscriber of that segment waits until the store closes.
- An HTTP/1 subscriber gets a clean terminator of an unfinished segment when its store closes or the program
  changes.  HTTP/3's read callback answers a ring in error, one that overflowed included, with a clean end of the response
  (`http3_dashchunk.c:20-22`) where HTTP/2's resets the stream: the client cannot tell that parts are missing.  `EndedWhole` excepts it.
- Between reading the live number and linking its slot, a subscriber is protected from a close of the store only by
  the idle time a store must have before it is swept.

## 7. Not modelled

Byte layouts (RTP, RTCP, RAMS TLVs, BPF), logging, metrics and allocation failure
except `burst_new`'s, retire nodes', and those of the capture contexts; weak memory beyond sequential consistency; several concurrent
writers of the channel table (`hash_writer_enter`, the claim marker), which production
never runs; starting and stopping dipixy's threads, the hold-off of failed HTTP sources, and shards of more than 4096 sources;
the TS container's segmenter (it has one store and no tracks); the space of an HTTP/3 ring, which is held until the data are acked
(the model frees it when it is read; an overflow is possible at any fill either way, since `RingCap` is arbitrary); a closer of captures
that is itself a pump and sweeps (pump 0, left out of its own mark); loads of the FCC cache that no other step can separate to an effect the
properties see (`burst.c:43` and `:69`, the bounds in `ring.c:193-207`, the memset of a recycle); a repair of length 0, after which
`ret_client_read` goes on to poll; two requests that switch low latency on at one store at a time, which count as one; playlist texts; HNED and RET state inside a channel; the packets' rate (a tick sends some
number of packets); all the tools and libraries listed as `not_modelled`:
most of the repository is byte formats, tables and I/O, where there is no order of events to check and where a
model would only repeat the code.
