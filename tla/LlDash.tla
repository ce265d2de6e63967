------------------------------- MODULE LlDash -------------------------------
(***************************************************************************)
(* Low latency DASH output of dipixy (src/src/dipixy/dash/lldash/): a      *)
(* client asks for the segment in progress and is sent its parts as the    *)
(* pump pushes them.  Subscribers sit in a table and are chained to their  *)
(* store; the pump walks the chain without a lock after it has published,  *)
(* while reactor workers subscribe, attach (replaying what was missed from *)
(* the published snapshot) and close.  A closed slot is used again only    *)
(* after the pumps have passed a quiescent point.                          *)
(*                                                                         *)
(* One store of one segmenter that has low latency on from the start; it   *)
(* may be closed, and its slot opened again for another key, even before   *)
(* the callback of the close has come by the subscribers.  HTTP/1          *)
(* subscribers are written to directly, HTTP/2 and HTTP/3 ones through a   *)
(* bounded ring that a read callback of their worker drains.               *)
(***************************************************************************)
EXTENDS SegSnapshot, SequencesExt

CONSTANTS
    Subs,        \* slots of g_lldash_subs
    Protos,      \* "H1", "H2", "H3"
    RingCap,     \* parts that fit in a subscriber's ring
    MaxPushes,   \* bound: parts pushed
    MaxCuts,     \* bound: discontinuities
    MaxMoves,    \* bound: parts and discontinuities together
    MaxOpens     \* bound: times the store is opened

ASSUME LlDashAssumption ==
    /\ 0 \notin Subs /\ Protos \subseteq {"H1", "H2", "H3"}
    /\ {RingCap, MaxPushes, MaxCuts, MaxMoves} \subseteq Nat /\ MaxOpens \in Nat \ {0}

None == 0        \* -1 in the code

VARIABLES
    snap,    \* the store's snapshot, NoSnap once closed
    head,    \* lldash_sub_head
    floor,   \* g_seq_floor
    sub,     \* the subscriber table
    walk,    \* the callback the pump is in and where it stands in the chain
    hist,    \* per opening and sequence number: the parts pushed so far
    done,    \* <<opening, sequence number>> of the segments finalised
    used,    \* openings, parts and discontinuities so far
    stale,   \* the closing callback of a store whose slot was opened again
    early    \* the openings such a slot was opened between

vars == <<snap, head, floor, sub, walk, hist, done, used, stale, early>>

NoWalk == [kind |-> "none", pc |-> "head", seq |-> 0, part |-> 0, data |-> 0, at |-> None, next |-> None]

FreeSub ==
    [alive |-> "FREE", want |-> 0, opening |-> 0, proto |-> "H1", next |-> None,
     attached |-> FALSE, sent |-> 0, ended |-> FALSE, aborted |-> FALSE,
     ring |-> <<>>, errored |-> FALSE, read |-> "idle",
     got |-> <<>>, end |-> "open",    \* what the client received
     late |-> FALSE]                  \* the ring was used while it was read

Seqs == 0..(MaxPushes + MaxCuts)
Opened == hls_llhls_enable(Fresh(0))

Init ==
    /\ snap = Opened /\ head = None /\ floor = 0
    /\ sub = [i \in Subs |-> FreeSub]
    /\ walk = NoWalk
    /\ hist = [o \in 1..MaxOpens |-> [q \in Seqs |-> <<>>]]
    /\ done = {}
    /\ used = [opens |-> 1, pushes |-> 0, cuts |-> 0]
    /\ stale = NoWalk /\ early = {}

-----------------------------------------------------------------------------
(* What is done to a subscriber under its lock.                            *)

\* the read callback has passed its look at the error flag
Late(s) == s.late \/ s.read # "idle"

sub_emit(s, d) ==
    IF s.proto = "H1" THEN [s EXCEPT !.got = Append(@, d)]
    ELSE IF Len(s.ring) < RingCap THEN [s EXCEPT !.ring = Append(@, d), !.late = Late(s)]
    ELSE [s EXCEPT !.errored = TRUE, !.late = Late(s)]

\* HTTP/1 gets the last chunk; the others see the end in their read callback
sub_end(s) ==
    IF s.ended THEN s
    ELSE [s EXCEPT !.ended = TRUE, !.end = IF s.proto = "H1" THEN "clean" ELSE @]

sub_abort(s) ==
    IF s.proto # "H1" THEN [s EXCEPT !.ended = TRUE, !.errored = TRUE, !.late = Late(s)]
    ELSE IF s.ended THEN s
    ELSE [s EXCEPT !.ended = TRUE, !.end = "killed"]

\* sub_emit for every part not sent yet: of what is meant for a ring, the
\* parts that still fit are queued and any other is an error
EmitAll(s, parts) ==
    LET rest == SubSeq(parts, s.sent + 1, Len(parts))
        room == RingCap - Len(s.ring)
        now == IF Len(parts) > s.sent THEN Len(parts) ELSE s.sent
    IN  IF s.proto = "H1" THEN [s EXCEPT !.got = @ \o rest, !.sent = now]
        ELSE IF Len(rest) <= room THEN [s EXCEPT !.ring = @ \o rest, !.sent = now]
        ELSE [s EXCEPT !.ring = @ \o SubSeq(rest, 1, room), !.errored = TRUE, !.sent = now]

sub_catch_up(s) ==
    IF s.aborted \/ snap = NoSnap THEN sub_abort(s)
    ELSE IF snap.msn = s.want THEN EmitAll(s, snap.live)
    ELSE IF InWindow(snap, s.want) THEN sub_end(EmitAll(s, SegAt(snap, s.want).data))
    ELSE sub_abort(s)

-----------------------------------------------------------------------------
(* Reactor workers.                                                        *)

\* dash_lldash_subscribe: the segment in progress is read from a snapshot ...
SubscribeLoad(i) ==
    /\ sub[i].alive = "FREE" /\ snap # NoSnap
    /\ \E p \in Protos :
          sub' = [sub EXCEPT ![i] = [FreeSub EXCEPT !.alive = "LOADED", !.proto = p,
                                                    !.want = snap.msn, !.opening = used.opens]]
    /\ UNCHANGED <<snap, head, floor, walk, hist, done, used, stale, early>>

\* ... and a slot linked to the store afterwards
SubscribeLink(i) ==
    /\ sub[i].alive = "LOADED"
    /\ sub' = [sub EXCEPT ![i].alive = "ALIVE", ![i].next = head]
    /\ head' = i
    /\ UNCHANGED <<snap, floor, walk, hist, done, used, stale, early>>

sub_attach(i) ==
    /\ sub[i].alive = "ALIVE" /\ ~sub[i].attached
    /\ sub' = [sub EXCEPT ![i] = sub_catch_up([@ EXCEPT !.attached = TRUE])]
    /\ UNCHANGED <<snap, head, floor, walk, hist, done, used, stale, early>>

\* the read callback of a stream: the error flag, the ring, then the end
Reading(i) == sub[i].alive = "ALIVE" /\ sub[i].attached /\ sub[i].proto # "H1" /\ sub[i].end = "open"

\* HTTP/2 resets the stream, HTTP/3 ends it as if it were complete
ReadErrored(i) ==
    /\ Reading(i) /\ sub[i].read = "idle"
    /\ \/ /\ sub[i].errored
          /\ sub' = [sub EXCEPT ![i].end = IF sub[i].proto = "H2" THEN "killed" ELSE "clean"]
       \/ /\ ~sub[i].errored
          /\ sub' = [sub EXCEPT ![i].read = "ring"]
    /\ UNCHANGED <<snap, head, floor, walk, hist, done, used, stale, early>>

ReadRing(i) ==
    /\ Reading(i) /\ sub[i].read = "ring"
    /\ sub' = [sub EXCEPT ![i].read = IF sub[i].ring = <<>> THEN "end" ELSE "idle",
                          ![i].late = @ /\ sub[i].ring = <<>>,
                          ![i].got = @ \o sub[i].ring, ![i].ring = <<>>]
    /\ UNCHANGED <<snap, head, floor, walk, hist, done, used, stale, early>>

ReadEnd(i) ==
    /\ Reading(i) /\ sub[i].read = "end"
    /\ sub' = [sub EXCEPT ![i].read = "idle", ![i].late = @ /\ sub[i].ended,
                          ![i].end = IF sub[i].ended THEN "clean" ELSE @]
    /\ UNCHANGED <<snap, head, floor, walk, hist, done, used, stale, early>>

\* the connection goes or the response is over; nothing reads the other
\* fields before the next subscribe sets them
dash_lldash_sub_close(i) ==
    /\ sub[i].alive = "ALIVE"
    /\ sub' = [sub EXCEPT ![i] = [FreeSub EXCEPT !.alive = "CLOSING", !.next = sub[i].next]]
    /\ UNCHANGED <<snap, head, floor, walk, hist, done, used, stale, early>>

\* subscribers the chain leads to from a: the least set that holds a and,
\* with a subscriber, the one its next names
Closed(table, a, C) ==
    /\ a # None => a \in C
    /\ \A j \in C : table[j].next # None => table[j].next \in C
Reach(table, a) == {j \in Subs : \A C \in SUBSET Subs : Closed(table, a, C) => j \in C}
Chain == Reach(sub, head)

Unlinked(i, state) ==
    [j \in Subs |-> IF j = i THEN [sub[j] EXCEPT !.alive = state]
                    ELSE IF head # i /\ j \in Chain /\ sub[j].next = i
                    THEN [sub[j] EXCEPT !.next = sub[i].next]
                    ELSE sub[j]]

\* the slot is given back without waiting for the pumps
unlink_store_chain_now(i) ==
    /\ sub[i].alive = "CLOSING"
    /\ head' = IF head = i THEN sub[i].next ELSE head
    /\ sub' = Unlinked(i, "FREE")
    /\ UNCHANGED <<snap, floor, walk, hist, done, used, stale, early>>

\* unlinked, then deferred until the pumps are quiescent
unlink_store_chain(i) ==
    /\ sub[i].alive = "CLOSING"
    /\ head' = IF head = i THEN sub[i].next ELSE head
    /\ sub' = Unlinked(i, "DEFERRED")
    /\ UNCHANGED <<snap, floor, walk, hist, done, used, stale, early>>

-----------------------------------------------------------------------------
(* The pump thread: publish, then call back.                               *)

Start(kind, seq, part, data) ==
    walk' = [NoWalk EXCEPT !.kind = kind, !.seq = seq, !.part = part, !.data = data]

PumpIdle == walk = NoWalk /\ snap # NoSnap
MovesLeft == used.pushes + used.cuts < MaxMoves

PushPart ==
    /\ PumpIdle /\ MovesLeft /\ used.pushes < MaxPushes /\ ~PartRefused(snap)
    /\ used' = [used EXCEPT !.pushes = @ + 1]
    /\ snap' = hls_push_part_at(snap, used'.pushes)
    /\ hist' = [hist EXCEPT ![used.opens][snap.msn] = Append(@, used'.pushes)]
    /\ Start("part", snap.msn, Len(snap.live), used'.pushes)
    /\ UNCHANGED <<head, floor, sub, done, stale, early>>

PushSegment ==
    /\ PumpIdle /\ snap.live # <<>>
    /\ snap' = hls_push_segment_ll_at(snap)
    /\ done' = done \cup {<<used.opens, snap.next>>}
    /\ Start("done", snap.next, 0, 0)
    /\ UNCHANGED <<head, floor, sub, hist, used, stale, early>>

\* a segment without parts is dropped silently
Discontinuity ==
    /\ PumpIdle /\ MovesLeft /\ used.cuts < MaxCuts
    /\ used' = [used EXCEPT !.cuts = @ + 1]
    /\ snap' = hls_store_discontinuity_at(snap)
    /\ IF snap.live # <<>> THEN Start("done", snap.msn, 0, 0) ELSE UNCHANGED walk
    /\ UNCHANGED <<head, floor, sub, hist, done, stale, early>>

\* The store is idle: a request in progress has just touched it.  The one
\* pump that sweeps closes a store only when the last callback has returned.
StoreClose ==
    /\ PumpIdle /\ stale = NoWalk /\ \A i \in Subs : sub[i].alive # "LOADED"
    /\ snap' = NoSnap
    /\ floor' = IF snap.next > floor THEN snap.next ELSE floor
    /\ Start("closing", 0, 0, 0)
    /\ UNCHANGED <<head, sub, hist, done, used, stale, early>>

\* the slot was given back before the closing callback, which may be still
\* to come or be anywhere in the chain the slot had
StoreOpen ==
    /\ snap = NoSnap /\ used.opens < MaxOpens
    /\ used' = [used EXCEPT !.opens = @ + 1]
    /\ snap' = hls_llhls_enable(Fresh(floor))
    /\ head' = None
    /\ stale' = walk /\ walk' = NoWalk
    /\ early' = IF walk = NoWalk THEN early ELSE early \cup {used.opens, used'.opens}
    /\ UNCHANGED <<floor, sub, hist, done>>

Go(w, i) == IF i = None THEN NoWalk ELSE [w EXCEPT !.pc = "look", !.at = i]

WalkHead ==
    /\ walk.kind # "none" /\ walk.pc = "head"
    /\ walk' = Go(walk, head)
    /\ UNCHANGED <<snap, head, floor, sub, hist, done, used, stale, early>>

\* the next subscriber is read first, this one's state without its lock
WalkLook ==
    LET s == sub[walk.at]
    IN  /\ walk.pc = "look"
        /\ walk' = IF s.alive = "ALIVE" /\ (walk.kind = "closing" \/ s.want = walk.seq)
                   THEN [walk EXCEPT !.pc = "call", !.next = s.next]
                   ELSE Go(walk, s.next)
        /\ UNCHANGED <<snap, head, floor, sub, hist, done, used, stale, early>>

\* a part the catch-up has already sent is sent again
on_part_pushed_again(s) ==
    IF s.attached /\ ~s.ended THEN [sub_emit(s, walk.data) EXCEPT !.sent = @ + 1] ELSE s

on_part_pushed(s) ==
    IF s.attached /\ ~s.ended /\ walk.part = s.sent
    THEN [sub_emit(s, walk.data) EXCEPT !.sent = @ + 1] ELSE s

\* an unattached subscriber is ended as well
on_segment_done_all(s) == sub_end(s)

on_segment_done(s) == IF s.attached THEN sub_end(s) ELSE s

on_store_closing(s) ==
    IF ~s.attached THEN [s EXCEPT !.aborted = TRUE]
    ELSE IF s.proto = "H1" THEN sub_end(s) ELSE sub_abort(s)

WalkCall ==
    /\ walk.pc = "call"
    /\ sub' = [sub EXCEPT ![walk.at] = CASE walk.kind = "part" -> on_part_pushed(@)
                                         [] walk.kind = "done" -> on_segment_done(@)
                                         [] walk.kind = "closing" -> on_store_closing(@)]
    /\ walk' = Go(walk, walk.next)
    /\ UNCHANGED <<snap, head, floor, hist, done, used, stale, early>>

\* a closing callback that finds the slot opened again asks no subscriber
\* which store it is of
StaleHead ==
    /\ stale.kind # "none" /\ stale.pc = "head"
    /\ stale' = Go(stale, head)
    /\ UNCHANGED <<snap, head, floor, sub, walk, hist, done, used, early>>

StaleLook ==
    LET s == sub[stale.at]
    IN  /\ stale.pc = "look"
        /\ stale' = IF s.alive = "ALIVE" THEN [stale EXCEPT !.pc = "call", !.next = s.next]
                    ELSE Go(stale, s.next)
        /\ UNCHANGED <<snap, head, floor, sub, walk, hist, done, used, early>>

StaleCall ==
    /\ stale.pc = "call"
    /\ sub' = [sub EXCEPT ![stale.at] = on_store_closing(@)]
    /\ stale' = Go(stale, stale.next)
    /\ UNCHANGED <<snap, head, floor, walk, hist, done, used, early>>

\* capture_pump_tick ends: the deferred slots are free from here on
dashchunk_finish_sub_close ==
    /\ walk = NoWalk /\ stale = NoWalk
    /\ \E i \in Subs : sub[i].alive = "DEFERRED"
    /\ sub' = [i \in Subs |-> IF sub[i].alive = "DEFERRED" THEN FreeSub ELSE sub[i]]
    /\ UNCHANGED <<snap, head, floor, walk, hist, done, used, stale, early>>

-----------------------------------------------------------------------------
Worker(i) ==
    \/ SubscribeLoad(i) \/ SubscribeLink(i) \/ sub_attach(i)
    \/ ReadErrored(i) \/ ReadRing(i) \/ ReadEnd(i)
    \/ dash_lldash_sub_close(i) \/ unlink_store_chain(i)

Next ==
    \/ \E i \in Subs : Worker(i)
    \/ PushPart \/ PushSegment \/ Discontinuity \/ StoreClose \/ StoreOpen
    \/ WalkHead \/ WalkLook \/ WalkCall \/ StaleHead \/ StaleLook \/ StaleCall
    \/ dashchunk_finish_sub_close

Spec == Init /\ [][Next]_vars

-----------------------------------------------------------------------------
(* Properties.                                                             *)

Pushed(s) == hist[s.opening][s.want]
Streaming == {s \in {sub[i] : i \in Subs} : s.opening > 0}

\* subscribers whose slot was not opened again under a closing callback:
\* there a callback may end streams of the new store, miss those of the old
\* one and leave them to be sent the new one's parts
Kept == {s \in Streaming : s.opening \notin early}

\* A client receives the parts of the segment it asked for in order, each
\* once and none left out, whenever it attached, whatever the pump was
\* publishing then and however the slots and the chain were reused meanwhile.
\* (A stream whose ring overflowed is ended by the read after next.)
PartsInOrder == \A s \in Kept :
    s.errored \/ IsPrefix(s.got \o s.ring, Pushed(s))

\* A response that ended as if complete has reached its client with every
\* part that was ever pushed under its number, also when the end came from a
\* store that closed or a program that changed.  Only two ways lead to less.
\* The ring was used while the last read callback was past its look at it
\* (http2_dashchunk.c:19-22): what is still in the ring is missing, or the
\* ring was put in error.  Or the ring of an HTTP/3 stream was in error, which
\* its callback answers with the end of the response (http3_dashchunk.c:20-22).
EndedWhole == \A s \in Kept : s.end = "clean" =>
    \/ s.got = Pushed(s)
    \/ s.late /\ (s.errored \/ s.got \o s.ring = Pushed(s))
    \/ s.proto = "H3" /\ s.errored

\* A stream ends "once finalized and drained" (http2_dashchunk.c:12).  This
\* is not an invariant: a part pushed and finalised between the reading of
\* the ring and the look at the end is lost.
EofDrained == \A s \in Streaming : s.end = "clean" => s.ring = <<>>

\* When the pump has left its callback, every attached subscriber of a segment
\* that was finalised has been told the end: none is skipped by a chain that
\* changed under the walk, none attaches between the publication and the
\* callback and waits for ever.
SegmentEnds == \A i \in Subs :
    walk = NoWalk /\ sub[i].attached /\ <<sub[i].opening, sub[i].want>> \in done => sub[i].ended
=============================================================================
