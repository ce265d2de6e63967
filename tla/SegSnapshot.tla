----------------------------- MODULE SegSnapshot -----------------------------
(***************************************************************************)
(* The contents of a dipixy segment store snapshot and what the writers in *)
(* src/src/dipixy/segstore/push.c make of it, as operators from a snapshot *)
(* to the one published in its place.                                      *)
(*                                                                         *)
(* Media data is a number naming the fragment; a segment is the sequence   *)
(* of its fragments.  Durations are one unit of media time per segment.    *)
(***************************************************************************)
EXTENDS Integers, Sequences

CONSTANTS
    MaxSegs,     \* max_segs of every store: segments in the window
    MaxParts     \* HLS_MAX_PARTS: parts of the segment in progress

ASSUME SegSnapshotAssumption == MaxSegs \in Nat \ {0} /\ MaxParts \in Nat \ {0}

NoSnap == [null |-> TRUE]     \* a NULL snapshot pointer

\* snap_clone(NULL): an empty store starts at the sequence floor
Fresh(floor) ==
    [next |-> floor, oldest |-> floor, msn |-> floor,   \* next_seq, oldest_seq, live_msn
     segs |-> <<>>, live |-> <<>>,                      \* ring and live parts
     pt |-> FALSE,                                      \* part_target > 0
     cum |-> 0, epoch |-> 0, disc |-> FALSE, base |-> 0, avail |-> 0, gen |-> 0]

snap_clone(sn, floor) == IF sn = NoSnap THEN Fresh(floor) ELSE sn

\* hls_push_segment_at and hls_push_segment_ll_at append a segment, after
\* the oldest one of a full window is dropped
AppendSegment(sn, data, parts) ==
    LET full == Len(sn.segs) >= MaxSegs
        new == [seq |-> sn.next, start |-> sn.cum, data |-> data, parts |-> parts, disc |-> sn.disc]
    IN  [sn EXCEPT !.segs = Append(IF full THEN Tail(@) ELSE @, new),
                   !.oldest = IF full THEN @ + 1 ELSE @,
                   !.next = @ + 1, !.cum = @ + 1, !.disc = FALSE]

hls_push_segment_at(sn, d) == AppendSegment(sn, <<d>>, 0)

\* a part too many is refused: the snapshot stays as it is
PartRefused(sn) == Len(sn.live) >= MaxParts
hls_push_part_at(sn, d) == IF PartRefused(sn) THEN sn ELSE [sn EXCEPT !.live = Append(@, d)]

\* the parts of the closed segment are forgotten
hls_push_segment_ll_noparts(sn) ==
    [AppendSegment(sn, sn.live, 0) EXCEPT !.live = <<>>, !.msn = sn.next + 1]

hls_push_segment_ll_at(sn) ==
    [AppendSegment(sn, sn.live, Len(sn.live)) EXCEPT !.live = <<>>, !.msn = sn.next + 1]

hls_llhls_enable(sn) == [sn EXCEPT !.pt = TRUE, !.msn = sn.next]

hls_store_discontinuity_at(sn) ==
    [sn EXCEPT !.segs = <<>>, !.live = <<>>,
               !.next = @ + 1, !.oldest = sn.next + 1,
               !.msn = IF sn.pt THEN sn.next + 1 ELSE @,
               !.epoch = @ + 1, !.disc = TRUE, !.base = sn.cum]

\* dst restarts empty on src's timeline; pos is src as it was read
hls_store_sync_at(dst, pos, floor) ==
    LET f == Fresh(floor)
        ns == IF pos = NoSnap THEN f
              ELSE [f EXCEPT !.next = pos.next, !.oldest = pos.next, !.cum = pos.cum,
                             !.epoch = pos.epoch, !.disc = pos.disc, !.base = pos.base,
                             !.avail = pos.avail, !.pt = pos.pt,
                             !.msn = IF pos.pt THEN pos.next ELSE @]
    IN  [ns EXCEPT !.gen = IF dst = NoSnap THEN 0 ELSE dst.gen]

\* the first anchor wins
hls_store_anchor_at(sn, wall) == IF sn.avail = 0 THEN [sn EXCEPT !.avail = wall] ELSE sn

hls_set_init_segment_at(sn) == [sn EXCEPT !.gen = @ + 1]

-----------------------------------------------------------------------------
(* Readers.                                                                *)

InWindow(sn, seq) == sn.segs # <<>> /\ seq >= sn.oldest /\ seq < sn.oldest + Len(sn.segs)
SegAt(sn, seq) == sn.segs[seq - sn.oldest + 1]

\* a part index one past the end of a closed segment is the first part of
\* the next one: the reader loops at most once more
hls_part_available(sn, seq, part) ==
    IF part < 0 THEN seq < sn.msn
    ELSE IF sn.msn = seq THEN Len(sn.live) > part
    ELSE /\ InWindow(sn, seq)
         /\ LET parts == SegAt(sn, seq).parts
            IN  \/ parts > part
                \/ part = 0 /\ parts = 0
                \/ /\ parts = part
                   /\ IF sn.msn = seq + 1 THEN sn.live # <<>> ELSE InWindow(sn, seq + 1)

\* what a snapshot serves under a name: segments by sequence number, parts by
\* sequence number and index
SegNames(sn) == IF sn = NoSnap THEN {} ELSE
    {[seq |-> sn.segs[i].seq, data |-> sn.segs[i].data] : i \in DOMAIN sn.segs}
PartNames(sn) == IF sn = NoSnap THEN {} ELSE
    {[seq |-> sn.msn, part |-> i, data |-> sn.live[i]] : i \in DOMAIN sn.live}
=============================================================================
