----------------------------- MODULE SegTimeline -----------------------------
(***************************************************************************)
(* The stores one fMP4 segmenter of dipixy writes: the muxed store M and a *)
(* track store T that DASH lists beside it (video and audio stores behave  *)
(* alike).  The pump thread closes fragments, creates the track muxers and *)
(* relocks on a program change, each a sequence of store operations; a     *)
(* reactor worker switches low latency on while it does; maintenance       *)
(* closes the stores of an idle segmenter and a later request opens them   *)
(* again.  (src/src/dipixy/segment/mux.c, segment/demux.c, segstore/.)     *)
(***************************************************************************)
EXTENDS SegSnapshot

CONSTANTS
    MaxFrags,     \* bound: fragments closed
    MaxRelocks,   \* bound: program changes
    MaxOpens,     \* bound: times the segmenter is created
    MaxForeign    \* bound: raises of the sequence floor by other stores

ASSUME SegTimelineAssumption ==
    {MaxFrags, MaxRelocks, MaxOpens, MaxForeign} \subseteq Nat

VARIABLES
    M, T,        \* snapshots of the muxed and of the track store
    seg,         \* the segmenter: registered, part_target > 0, track store
                 \* open, muxer there, track muxer there,
                 \* n_parts (its count of the parts in progress)
    todo,        \* store operations the pump has still to do in this feed
    pos,         \* muxed timeline read by a sync in progress
    enable,      \* the stores workers are about to switch to low latency
    floor,       \* g_seq_floor
    seen,        \* per store: segments ever served, by sequence number
    used         \* fragments, relocks, opens and foreign raises so far

vars == <<M, T, seg, todo, pos, enable, floor, seen, used>>

Closed == [on |-> FALSE, ll |-> FALSE, topen |-> FALSE, mux |-> FALSE, tracks |-> FALSE,
           n |-> 0]

Init ==
    /\ M = NoSnap /\ T = NoSnap /\ seg = Closed
    /\ todo = <<>> /\ pos = NoSnap /\ enable = {} /\ floor = 0
    /\ seen = [M |-> {}, T |-> {}]
    /\ used = [frags |-> 0, relocks |-> 0, opens |-> 0, foreign |-> 0]

PublishM(sn) ==
    /\ M' = sn /\ seen' = [seen EXCEPT !.M = @ \cup SegNames(sn)]
    /\ UNCHANGED T
PublishT(sn) ==
    /\ T' = sn /\ seen' = [seen EXCEPT !.T = @ \cup SegNames(sn)]
    /\ UNCHANGED M

Max2(a, b) == IF a > b THEN a ELSE b
MaxNext(f, sn) == IF sn = NoSnap THEN f ELSE Max2(f, sn.next)

-----------------------------------------------------------------------------
(* Reactor workers (hls_seg_touch).                                        *)

\* a request creates the segmenter and opens the muxed store, once the sweep
\* has closed all of the old ones (closing_pending_locked)
TouchCreate ==
    /\ ~seg.on /\ ~seg.topen /\ used.opens < MaxOpens
    /\ \E ll \in BOOLEAN :
          /\ seg' = [Closed EXCEPT !.on = TRUE, !.ll = ll]
          /\ enable' = enable \cup (IF ll THEN {"M"} ELSE {})
    /\ used' = [used EXCEPT !.opens = @ + 1]
    /\ UNCHANGED <<M, T, todo, pos, floor, seen>>

\* touch_pinned: the first low latency request sets the segmenter's part
\* target, the stores follow
TouchLowLatency ==
    /\ seg.on /\ ~seg.ll
    /\ seg' = [seg EXCEPT !.ll = TRUE]
    /\ enable' = enable \cup {"M"}
    /\ UNCHANGED <<M, T, todo, pos, floor, seen, used>>

\* The muxed store, then the track store; a store that is not open is not
\* found, and without the muxed one the track store is not looked for.
\* (Workers that are at the same store are taken as one.)
EnableStore ==
    \/ /\ "M" \in enable
       /\ IF seg.on THEN PublishM(hls_llhls_enable(snap_clone(M, floor)))
          ELSE UNCHANGED <<M, T, seen>>
       /\ enable' = (enable \ {"M"}) \cup (IF seg.on THEN {"T"} ELSE {})
       /\ UNCHANGED <<seg, todo, pos, floor, used>>
    \/ /\ "T" \in enable
       /\ IF seg.topen THEN PublishT(hls_llhls_enable(snap_clone(T, floor)))
          ELSE UNCHANGED <<M, T, seen>>
       /\ enable' = enable \ {"T"}
       /\ UNCHANGED <<seg, todo, pos, floor, used>>

-----------------------------------------------------------------------------
(* The pump thread.  What it reads of the segmenter's part target decides  *)
(* the operations of the whole feed.                                       *)

Idle == seg.on /\ todo = <<>>
Ops(store, ops) == [i \in DOMAIN ops |-> <<store, ops[i]>>]

FragmentOps(ends) ==
    IF ~seg.ll THEN <<"full">> ELSE IF ends THEN <<"part", "seg">> ELSE <<"part">>

\* the muxed store first
FragmentTodoMuxedFirst(ends) ==
    Ops("M", FragmentOps(ends)) \o (IF seg.tracks THEN Ops("T", FragmentOps(ends)) ELSE <<>>)

\* track stores first: a ready muxed store implies listed tracks
FragmentTodo(ends) ==
    (IF seg.tracks THEN Ops("T", FragmentOps(ends)) ELSE <<>>) \o Ops("M", FragmentOps(ends))

\* the last place is not kept for the part that ends the segment
ChunkNowLate == seg.ll /\ seg.n < MaxParts

\* a chunk is cut only while the part that ends the segment keeps its place;
\* without low latency a fragment is a segment
ChunkNow == seg.ll /\ seg.n < MaxParts - 1

fmp4_close_fragment ==
    /\ Idle /\ seg.mux /\ used.frags < MaxFrags
    /\ \E ends \in BOOLEAN :
          /\ ends \/ ChunkNow
          /\ todo' = FragmentTodo(ends)
          /\ seg' = [seg EXCEPT !.n = IF ~seg.ll THEN @ ELSE IF ends THEN 0 ELSE @ + 1]
    /\ used' = [used EXCEPT !.frags = @ + 1]
    /\ UNCHANGED <<M, T, pos, enable, floor, seen>>

\* first keyframe of a segment run: media time 0 gets its wall clock
Anchor ==
    /\ Idle
    /\ todo' = <<<<"M", "anchor">>>> \o (IF seg.topen THEN <<<<"T", "anchor">>>> ELSE <<>>)
    /\ UNCHANGED <<M, T, seg, pos, enable, floor, seen, used>>

CreateTodo(got) ==
    CASE got = "tracks" -> <<<<"M", "read">>, <<"T", "sync">>, <<"T", "init">>, <<"M", "init">>>>
      [] got = "synced" -> <<<<"M", "read">>, <<"T", "sync">>, <<"M", "init">>>>
      [] OTHER -> <<<<"M", "init">>>>

\* The muxer of a program is created; with audio the track store is opened,
\* synced and gets its init segment first.  If the other track store is
\* missing the track store is left as it is, and if a track muxer is
\* missing it is only synced: the output is muxed only.
try_create_fmux ==
    /\ Idle /\ ~seg.mux
    /\ \E got \in {"muxed", "store", "synced", "tracks"} :
          /\ seg' = [seg EXCEPT !.mux = TRUE, !.tracks = (got = "tracks"),
                                !.topen = @ \/ got # "muxed"]
          /\ todo' = CreateTodo(got)
    /\ UNCHANGED <<M, T, pos, enable, floor, seen, used>>

\* the track stores keep their segments
relock_program_nosync ==
    /\ Idle /\ used.relocks < MaxRelocks
    /\ todo' = <<<<"M", "disc">>>>
    /\ seg' = [seg EXCEPT !.mux = FALSE]
    /\ used' = [used EXCEPT !.relocks = @ + 1]
    /\ UNCHANGED <<M, T, pos, enable, floor, seen>>

\* program change: the track stores that exist follow the break
relock_program ==
    /\ Idle /\ used.relocks < MaxRelocks
    /\ todo' = <<<<"M", "disc">>>> \o
               (IF seg.topen THEN <<<<"M", "read">>, <<"T", "sync">>>> ELSE <<>>)
    /\ seg' = [seg EXCEPT !.mux = FALSE, !.tracks = FALSE]
    /\ used' = [used EXCEPT !.relocks = @ + 1]
    /\ UNCHANGED <<M, T, pos, enable, floor, seen>>

\* fragment and wall clock numbers
Frag == used.frags
Wall == 1 + used.frags

Write(op, sn) ==
    CASE op = "full"   -> hls_push_segment_at(sn, Frag)
      [] op = "part"   -> hls_push_part_at(sn, Frag)
      [] op = "seg"    -> hls_push_segment_ll_at(sn)
      [] op = "anchor" -> hls_store_anchor_at(sn, Wall)
      [] op = "init"   -> hls_set_init_segment_at(sn)
      [] op = "disc"   -> hls_store_discontinuity_at(sn)

\* one store operation of the feed
PumpStep ==
    LET store == Head(todo)[1]
        op == Head(todo)[2]
    IN  /\ todo # <<>>
        /\ todo' = Tail(todo)
        /\ CASE op = "read" -> pos' = M /\ UNCHANGED <<M, T, seen>>
             [] op = "sync" -> pos' = NoSnap /\ PublishT(hls_store_sync_at(T, pos, floor))
             [] op = "disc" /\ M = NoSnap -> UNCHANGED <<M, T, seen, pos>>
             [] OTHER -> /\ IF store = "M" THEN PublishM(Write(op, snap_clone(M, floor)))
                            ELSE PublishT(Write(op, snap_clone(T, floor)))
                         /\ UNCHANGED pos
        /\ UNCHANGED <<seg, enable, floor, used>>

-----------------------------------------------------------------------------
(* Maintenance (hls_seg_sweep_idle): the stores are closed one after the   *)
(* other, each raising the floor to its next sequence number.  A request   *)
(* that touched the segmenter just before may still be on its way to       *)
(* hls_llhls_enable, whatever is closed or opened meanwhile.               *)

hls_store_close_nofloor ==
    /\ Idle
    /\ M' = NoSnap /\ seg' = [Closed EXCEPT !.topen = seg.topen]
    /\ UNCHANGED <<T, todo, pos, enable, floor, seen, used>>

hls_store_close ==
    /\ Idle
    /\ floor' = MaxNext(floor, M)
    /\ M' = NoSnap /\ seg' = [Closed EXCEPT !.topen = seg.topen]
    /\ UNCHANGED <<T, todo, pos, enable, seen, used>>

CloseTrack ==
    /\ ~seg.on /\ seg.topen
    /\ floor' = MaxNext(floor, T)
    /\ T' = NoSnap /\ seg' = Closed
    /\ UNCHANGED <<M, todo, pos, enable, seen, used>>

\* another segmenter's store is closed
ForeignClose ==
    /\ used.foreign < MaxForeign
    /\ floor' = floor + 1
    /\ used' = [used EXCEPT !.foreign = @ + 1]
    /\ UNCHANGED <<M, T, seg, todo, pos, enable, seen>>

Next ==
    \/ TouchCreate \/ TouchLowLatency \/ EnableStore
    \/ fmp4_close_fragment \/ Anchor \/ try_create_fmux \/ relock_program
    \/ PumpStep
    \/ hls_store_close \/ CloseTrack \/ ForeignClose

Spec == Init /\ [][Next]_vars

-----------------------------------------------------------------------------
(* Properties.                                                             *)

Open(sn) == sn # NoSnap
InStep(sn) == sn.msn = sn.next
Starts(sn) == [i \in DOMAIN sn.segs |-> sn.segs[i].start]

NamesOnce(names) == \A a, b \in names : a.seq = b.seq => a.data = b.data

\* A sequence number of the muxed store never names two different segments,
\* not even across program changes and after the store was closed and opened
\* again (snapshot.c:37, the floor for reopened stores); neither does one of
\* the track store as long as no other store raised the floor.
SegNamesOnce == NamesOnce(seen.M) /\ (used.foreign = 0 => NamesOnce(seen.T))

\* The same of the track store without that condition.  Not an invariant with
\* two raises: a worker gives the muxed store its first snapshot after
\* hls_store_sync_at found none, the floor rises, and the track store starts
\* above the muxed one; the next program change takes it back below numbers
\* it has served (push.c:374, push.c:390).
TrackNamesOnce == NamesOnce(seen.T)

\* Whenever the pump is between two feeds the track store lists the same
\* media times as the muxed one, in the same epoch and with the same anchor,
\* however low latency was switched on meanwhile.
TracksAligned == todo = <<>> /\ seg.tracks =>
    /\ Open(M) /\ Open(T)
    /\ Starts(T) = Starts(M) /\ T.cum = M.cum /\ Len(T.live) = Len(M.live)
    /\ T.epoch = M.epoch /\ T.base = M.base /\ T.avail = M.avail

\* A muxed store with segments implies track stores with segments, at every
\* instant a reader may look (mux.c:329).
ReadyImpliesTracks == seg.tracks /\ Open(M) /\ M.segs # <<>> => Open(T) /\ T.segs # <<>>

\* No part is ever refused for want of room: the segmenter's own count keeps
\* a place for the part that ends the segment, across program changes and
\* reopened stores (priv.h:174).
NoPartLost == \A i \in DOMAIN todo :
    todo[i][2] = "part" => ~PartRefused(snap_clone(IF todo[i][1] = "M" THEN M ELSE T, floor))

\* A part that a low latency reader was told is available stays available
\* until its segment leaves the window, wherever the live edge is in step (a
\* feed that read its part target before low latency came on leaves it behind,
\* see LiveEdge).
AvailableSticks == [][Open(M) /\ Open(M') /\ M.pt /\ InStep(M) /\ InStep(M') =>
    \A seq \in M.oldest..M.next, part \in -1..MaxParts :
       hls_part_available(M, seq, part) =>
          hls_part_available(M', seq, part) \/ seq < M'.oldest]_vars

\* live_msn is the number of the segment in progress, next_seq, wherever low
\* latency is on (segstore_int.h:81).
LiveEdge == \A sn \in {M, T} : Open(sn) /\ sn.pt => sn.msn = sn.next
=============================================================================
