---------------------------- MODULE LlDashProofs ----------------------------
(***************************************************************************)
(* Proofs about the low latency DASH output (LlDash): clients receive the  *)
(* parts of their segment in order and once, a clean end means that all of *)
(* them arrived but for the cases EndedWhole names, and a finalised segment *)
(* ends for every subscriber, for any number of subscriber slots, any ring *)
(* and any window.                                                         *)
(*                                                                         *)
(* The argument has three parts.  What the chain leads to survives the     *)
(* links and unlinks made under the pump's walk (Reach, ChainOK); the walk *)
(* therefore still has every live subscriber it owes a call ahead of it    *)
(* (Ahead, WalkOK, SubOK); and what a subscriber was sent is the part of   *)
(* the segment's history that the snapshot and the walk say (SnapOK,       *)
(* StreamOK).  Where a slot is opened again under its closing callback the *)
(* third part is lost for the two openings (early), and only for these:    *)
(* the overtaken callback meets nobody else (StaleOK).                     *)
(***************************************************************************)
EXTENDS LlDash, SequenceTheorems, TLAPS

-----------------------------------------------------------------------------
(* What a table of subscribers leads to.                                   *)

Links(table) == \A j \in Subs : table[j].next \in Subs \cup {None}

\* the same next pointers on a set of slots
SameLinks(t, u, S) == \A j \in S : u[j].next = t[j].next

\* what Reach holds is closed
LEMMA ReachClosed ==
    ASSUME NEW t, Links(t), NEW a \in Subs \cup {None}
    PROVE  /\ Reach(t, a) \subseteq Subs
           /\ Closed(t, a, Reach(t, a))
PROOF
<1>1. Reach(t, a) \subseteq Subs
  BY DEF Reach
<1>2. a # None => a \in Reach(t, a)
  BY DEF Reach, Closed
<1>3. ASSUME NEW j \in Reach(t, a), t[j].next # None
      PROVE  t[j].next \in Reach(t, a)
  <2>1. t[j].next \in Subs
    BY <1>1, <1>3 DEF Links
  <2>2. ASSUME NEW C \in SUBSET Subs, Closed(t, a, C)
        PROVE  t[j].next \in C
    <3>1. j \in C
      BY <2>2 DEF Reach
    <3> QED BY <3>1, <2>2, <1>3 DEF Closed
  <2> QED BY <2>1, <2>2 DEF Reach
<1> QED BY <1>1, <1>2, <1>3 DEF Closed

\* and it is the least such set
LEMMA ReachLeast ==
    ASSUME NEW t, NEW a, NEW C \in SUBSET Subs, Closed(t, a, C)
    PROVE  Reach(t, a) \subseteq C
PROOF
  BY DEF Reach

\* nothing is reached from the end of the chain
LEMMA ReachNone ==
    ASSUME NEW t
    PROVE  Reach(t, None) = {}
PROOF
<1>1. Closed(t, None, {})
  BY DEF Closed
<1> QED BY <1>1, ReachLeast

\* a subscriber is followed by what its next leads to
LEMMA ReachStep ==
    ASSUME NEW t, Links(t), NEW a \in Subs
    PROVE  Reach(t, a) = {a} \cup Reach(t, t[a].next)
PROOF
<1> DEFINE n == t[a].next
<1>0. n \in Subs \cup {None} /\ a # None
  BY LlDashAssumption DEF Links, None
<1>1. Reach(t, n) \subseteq Subs /\ Closed(t, n, Reach(t, n))
  BY <1>0, ReachClosed
<1>2. Reach(t, a) \subseteq Subs /\ Closed(t, a, Reach(t, a))
  BY ReachClosed
<1>3. Closed(t, a, {a} \cup Reach(t, n))
  BY <1>0, <1>1 DEF Closed
<1>4. Closed(t, n, Reach(t, a))
  BY <1>0, <1>2 DEF Closed
<1>5. Reach(t, a) \subseteq {a} \cup Reach(t, n)
  BY <1>1, <1>3, ReachLeast
<1>6. Reach(t, n) \subseteq Reach(t, a)
  BY <1>2, <1>4, ReachLeast
<1> QED BY <1>0, <1>2, <1>5, <1>6 DEF Closed

\* slots off the way may change
LEMMA ReachSame ==
    ASSUME NEW t, NEW u, Links(t), Links(u), NEW a \in Subs \cup {None},
           SameLinks(t, u, Reach(t, a))
    PROVE  Reach(u, a) = Reach(t, a)
PROOF
<1>1. Reach(t, a) \subseteq Subs /\ Closed(t, a, Reach(t, a))
  BY ReachClosed
<1>2. Reach(u, a) \subseteq Subs /\ Closed(u, a, Reach(u, a))
  BY ReachClosed
<1>3. Closed(u, a, Reach(t, a))
  BY <1>1 DEF Closed, SameLinks
<1>4. Reach(u, a) \subseteq Reach(t, a)
  BY <1>1, <1>3, ReachLeast
<1>5. Closed(t, a, Reach(u, a))
  BY <1>2, <1>4 DEF Closed, SameLinks
<1> QED BY <1>2, <1>4, <1>5, ReachLeast

-----------------------------------------------------------------------------
(* Unlinking x: some subscribers that named it name the one after it.      *)

Bypass(t, u, x) == \A j \in Subs :
    \/ u[j].next = t[j].next
    \/ j # x /\ t[j].next = x /\ u[j].next = t[x].next

\* a walker that stands anywhere still meets everyone but x, and nobody new
LEMMA BypassReach ==
    ASSUME NEW t, NEW u, Links(t), Links(u), NEW a \in Subs \cup {None},
           NEW x \in Subs, Bypass(t, u, x)
    PROVE  /\ Reach(u, a) \subseteq Reach(t, a)
           /\ Reach(t, a) \ {x} \subseteq Reach(u, a)
PROOF
<1>0. x # None
  BY LlDashAssumption DEF None
<1>1. Reach(t, a) \subseteq Subs /\ Closed(t, a, Reach(t, a))
  BY ReachClosed
<1>2. Reach(u, a) \subseteq Subs /\ Closed(u, a, Reach(u, a))
  BY ReachClosed
<1>3. Closed(u, a, Reach(t, a))
  <2>1. ASSUME NEW j \in Reach(t, a), u[j].next # None
        PROVE  u[j].next \in Reach(t, a)
    <3>1. CASE u[j].next = t[j].next
      BY <3>1, <2>1, <1>1 DEF Closed
    <3>2. CASE t[j].next = x /\ u[j].next = t[x].next
      BY <3>2, <2>1, <1>0, <1>1 DEF Closed
    <3> QED BY <3>1, <3>2, <1>1 DEF Bypass
  <2> QED BY <2>1, <1>1 DEF Closed
<1>4. Reach(u, a) \subseteq Reach(t, a)
  BY <1>1, <1>3, ReachLeast
<1>5. CASE \E j \in Reach(u, a) : u[j].next # t[j].next
  <2>1. PICK j \in Reach(u, a) : u[j].next # t[j].next
    BY <1>5
  <2>2. u[j].next = t[x].next
    BY <2>1, <1>2 DEF Bypass
  <2>3. t[x].next # None => t[x].next \in Reach(u, a)
    BY <2>2, <1>2 DEF Closed
  <2>4. Closed(t, a, Reach(u, a) \cup {x})
    BY <2>3, <1>2 DEF Closed, Bypass
  <2> QED BY <1>2, <1>4, <2>4, ReachLeast
<1>6. CASE \A j \in Reach(u, a) : u[j].next = t[j].next
  <2>1. Closed(t, a, Reach(u, a))
    BY <1>6, <1>2 DEF Closed
  <2> QED BY <1>2, <1>4, <2>1, ReachLeast
<1> QED BY <1>5, <1>6

-----------------------------------------------------------------------------
(* The chain is a line: nobody is named twice, and its head by nobody.     *)

Linear(t, h) ==
    /\ \A j, k \in Reach(t, h) : t[j].next = t[k].next /\ t[j].next # None => j = k
    /\ \A j \in Reach(t, h) : t[j].next = h => h = None

\* SubscribeLink puts a subscriber that is not in the chain at its head
LEMMA LinkChain ==
    ASSUME NEW t, NEW u, Links(t), Links(u), NEW h \in Subs \cup {None}, Linear(t, h),
           NEW i \in Subs, i \notin Reach(t, h), u[i].next = h, SameLinks(t, u, Subs \ {i})
    PROVE  /\ Reach(u, i) = {i} \cup Reach(t, h)
           /\ Linear(u, i)
PROOF
<1>0. i # None
  BY LlDashAssumption DEF None
<1>1. Reach(t, h) \subseteq Subs /\ Closed(t, h, Reach(t, h))
  BY ReachClosed
<1>2. SameLinks(t, u, Reach(t, h))
  BY <1>1 DEF SameLinks
<1>3. Reach(u, h) = Reach(t, h)
  BY <1>2, ReachSame
<1>4. Reach(u, i) = {i} \cup Reach(t, h)
  BY <1>3, ReachStep
<1>5. ASSUME NEW j \in Reach(t, h)
      PROVE  u[j].next = t[j].next /\ u[j].next # i
  BY <1>0, <1>1, <1>2 DEF SameLinks, Closed
<1>6. h # i
  BY <1>0, <1>1 DEF Closed
<1>7. ASSUME NEW j \in Reach(u, i), NEW k \in Reach(u, i), u[j].next = u[k].next, u[j].next # None
      PROVE  j = k
  <2>1. CASE j \in Reach(t, h) /\ k \in Reach(t, h)
    BY <2>1, <1>5, <1>7 DEF Linear
  <2>2. CASE j = i /\ k \in Reach(t, h)
    BY <2>2, <1>5, <1>7 DEF Linear
  <2>3. CASE k = i /\ j \in Reach(t, h)
    BY <2>3, <1>5, <1>7 DEF Linear
  <2> QED BY <2>1, <2>2, <2>3, <1>4
<1>8. ASSUME NEW j \in Reach(u, i)
      PROVE  u[j].next # i
  BY <1>4, <1>5, <1>6
<1> QED BY <1>4, <1>7, <1>8 DEF Linear

\* what unlink_store_chain makes of the pointers
AfterUnlink(t, u, h, x) == \A j \in Subs :
    u[j].next = IF j # x /\ h # x /\ j \in Reach(t, h) /\ t[j].next = x
                THEN t[x].next ELSE t[j].next

HeadAfter(t, h, x) == IF h = x THEN t[x].next ELSE h

\* it takes x out of the chain, wherever it was, and no one else
LEMMA UnlinkChain ==
    ASSUME NEW t, NEW u, Links(t), Links(u), NEW h \in Subs \cup {None}, Linear(t, h),
           NEW x \in Subs, AfterUnlink(t, u, h, x)
    PROVE  /\ Reach(u, HeadAfter(t, h, x)) = Reach(t, h) \ {x}
           /\ Linear(u, HeadAfter(t, h, x))
           /\ Bypass(t, u, x)
PROOF
<1> DEFINE R == Reach(t, h)
           h2 == HeadAfter(t, h, x)
<1>0. x # None
  BY LlDashAssumption DEF None
<1>1. R \subseteq Subs /\ Closed(t, h, R)
  BY ReachClosed
<1>2. Bypass(t, u, x)
  BY DEF AfterUnlink, Bypass
<1>3. h2 \in Subs \cup {None}
  BY DEF HeadAfter, Links
<1>4. Closed(u, h2, R \ {x})
  <2>1. CASE h = x
    <3>1. x \in R
      BY <2>1, <1>0, <1>1 DEF Closed
    <3>2. t[x].next # x
      BY <2>1, <3>1, <1>0 DEF Linear
    <3>3. h2 # None => h2 \in R \ {x}
      BY <2>1, <3>1, <3>2, <1>1 DEF Closed, HeadAfter
    <3>4. ASSUME NEW j \in R \ {x}, u[j].next # None
          PROVE  u[j].next \in R \ {x}
      <4>1. u[j].next = t[j].next
        BY <2>1, <1>1 DEF AfterUnlink
      <4>2. t[j].next # x
        BY <2>1, <1>0 DEF Linear
      <4> QED BY <4>1, <4>2, <3>4, <1>1 DEF Closed
    <3> QED BY <3>3, <3>4 DEF Closed
  <2>2. CASE h # x
    <3>1. h2 # None => h2 \in R \ {x}
      BY <2>2, <1>1 DEF Closed, HeadAfter
    <3>2. ASSUME NEW j \in R \ {x}, u[j].next # None
          PROVE  u[j].next \in R \ {x}
      <4>1. CASE t[j].next = x
        <5>1. u[j].next = t[x].next
          BY <4>1, <2>2, <1>1 DEF AfterUnlink
        <5>2. x \in R
          BY <4>1, <1>0, <1>1 DEF Closed
        <5>3. t[x].next # x
          BY <4>1, <5>2, <1>0 DEF Linear
        <5> QED BY <5>1, <5>2, <5>3, <3>2, <1>1 DEF Closed
      <4>2. CASE t[j].next # x
        BY <4>2, <3>2, <1>1 DEF AfterUnlink, Closed
      <4> QED BY <4>1, <4>2
    <3> QED BY <3>1, <3>2 DEF Closed
  <2> QED BY <2>1, <2>2
<1>5. Reach(u, h2) \subseteq R \ {x}
  BY <1>1, <1>4, ReachLeast
<1>6. R \ {x} \subseteq Reach(u, h2)
  <2>1. CASE h = x
    <3>1. R = {x} \cup Reach(t, h2)
      BY <2>1, ReachStep DEF HeadAfter
    <3>2. Reach(t, h2) \ {x} \subseteq Reach(u, h2)
      BY <1>2, <1>3, BypassReach
    <3> QED BY <3>1, <3>2
  <2>2. CASE h # x
    <3>1. h2 = h
      BY <2>2 DEF HeadAfter
    <3>2. R \ {x} \subseteq Reach(u, h)
      BY <1>2, BypassReach
    <3> QED BY <3>1, <3>2
  <2> QED BY <2>1, <2>2
<1>7. ASSUME NEW j \in R \ {x}, NEW k \in R \ {x}, u[j].next = u[k].next, u[j].next # None
      PROVE  j = k
  <2>1. CASE h = x
    BY <2>1, <1>1, <1>7 DEF AfterUnlink, Linear
  <2>2. CASE h # x
    <3>1. CASE t[j].next = x /\ t[k].next = x
      BY <3>1, <1>0 DEF Linear
    <3>2. CASE t[j].next = x /\ t[k].next # x
      <4>1. u[j].next = t[x].next /\ u[k].next = t[k].next
        BY <3>2, <2>2, <1>1 DEF AfterUnlink
      <4>2. x \in R
        BY <3>2, <1>0, <1>1 DEF Closed
      <4> QED BY <4>1, <4>2, <1>7 DEF Linear
    <3>3. CASE t[j].next # x /\ t[k].next = x
      <4>1. u[k].next = t[x].next /\ u[j].next = t[j].next
        BY <3>3, <2>2, <1>1 DEF AfterUnlink
      <4>2. x \in R
        BY <3>3, <1>0, <1>1 DEF Closed
      <4> QED BY <4>1, <4>2, <1>7 DEF Linear
    <3>4. CASE t[j].next # x /\ t[k].next # x
      BY <3>4, <1>1, <1>7 DEF AfterUnlink, Linear
    <3> QED BY <3>1, <3>2, <3>3, <3>4
  <2> QED BY <2>1, <2>2
<1>8. ASSUME NEW j \in R \ {x}, u[j].next = h2
      PROVE  h2 = None
  <2>1. CASE h = x
    <3>1. x \in R
      BY <2>1, <1>0, <1>1 DEF Closed
    <3>2. u[j].next = t[j].next /\ h2 = t[x].next
      BY <2>1, <1>1 DEF AfterUnlink, HeadAfter
    <3> QED BY <3>1, <3>2, <1>8 DEF Linear
  <2>2. CASE h # x
    <3>1. h2 = h
      BY <2>2 DEF HeadAfter
    <3>2. CASE t[j].next = x
      <4>1. u[j].next = t[x].next /\ x \in R
        BY <3>2, <2>2, <1>0, <1>1 DEF AfterUnlink, Closed
      <4> QED BY <4>1, <3>1, <1>8 DEF Linear
    <3>3. CASE t[j].next # x
      BY <3>3, <3>1, <1>1, <1>8 DEF AfterUnlink, Linear
    <3> QED BY <3>2, <3>3
  <2> QED BY <2>1, <2>2
<1>9. Reach(u, h2) = R \ {x}
  BY <1>5, <1>6
<1>10. Linear(u, h2)
  BY <1>7, <1>8, <1>9 DEF Linear
<1> QED BY <1>2, <1>9, <1>10

-----------------------------------------------------------------------------
(* The inductive invariant.                                                *)

SubRec ==
    [alive : {"FREE", "LOADED", "ALIVE", "CLOSING", "DEFERRED"}, want : Nat, opening : Nat,
     proto : {"H1", "H2", "H3"}, next : Subs \cup {None}, attached : BOOLEAN, sent : Nat,
     ended : BOOLEAN, aborted : BOOLEAN, ring : Seq(Nat), errored : BOOLEAN,
     read : {"idle", "ring", "end"}, got : Seq(Nat), end : {"open", "clean", "killed"}, late : BOOLEAN]

WalkRec ==
    [kind : {"none", "part", "done", "closing"}, pc : {"head", "look", "call"}, seq : Nat,
     part : Nat, data : Nat, at : Subs \cup {None}, next : Subs \cup {None}]

SegRec == [seq : Nat, start : Nat, data : Seq(Nat), parts : Nat, disc : BOOLEAN]

\* low latency is on: part_target is set
SnapRec ==
    [next : Nat, oldest : Nat, msn : Nat, segs : Seq(SegRec), live : Seq(Nat), pt : {TRUE},
     cum : Nat, epoch : Nat, disc : BOOLEAN, base : Nat, avail : Nat, gen : Nat]

TypeOK ==
    /\ snap \in SnapRec \cup {NoSnap} /\ head \in Subs \cup {None} /\ floor \in Nat
    /\ sub \in [Subs -> SubRec] /\ walk \in WalkRec
    /\ hist \in [1..MaxOpens -> [Seqs -> Seq(Nat)]]
    /\ used \in [opens : 1..MaxOpens, pushes : 0..MaxPushes, cuts : 0..MaxCuts]
    /\ stale \in WalkRec /\ early \in SUBSET Nat

\* The snapshot shows the history of this opening: the live parts are all
\* that was pushed under the number in progress, a segment of the window all
\* that was pushed under its number, and nothing has a later number.  No
\* number of an earlier opening is given out again.
SnapShows ==
    /\ floor <= snap.next
    /\ snap.msn = snap.next /\ snap.oldest + Len(snap.segs) = snap.next
    /\ snap.msn <= used.pushes + used.cuts
    /\ snap.live # <<>> => snap.msn < used.pushes + used.cuts
    /\ snap.live = hist[used.opens][snap.msn]
    /\ \A k \in 1..Len(snap.segs) : snap.segs[k].data = hist[used.opens][snap.oldest + k - 1]
    /\ \A q \in Seqs : q > snap.msn => hist[used.opens][q] = <<>>
    /\ \A q \in Nat : <<used.opens, q>> \in done => q < snap.next

SnapOK ==
    /\ floor <= used.pushes + used.cuts
    /\ \A o \in 1..MaxOpens, q \in Seqs : o > used.opens => hist[o][q] = <<>>
    /\ \A o, q \in Nat : <<o, q>> \in done => o <= used.opens
    /\ \A o, q \in Nat : <<o, q>> \in done /\ (o < used.opens \/ snap = NoSnap) => q < floor
    /\ snap # NoSnap => SnapShows

\* subscribers a walk has still to come by
AheadOf(w, table, h) ==
    IF w.kind = "none" THEN {}
    ELSE IF w.pc = "head" THEN Reach(table, h)
    ELSE IF w.pc = "look" THEN Reach(table, w.at)
    ELSE {w.at} \cup Reach(table, w.next)

Ahead == AheadOf(walk, sub, head)
StaleAhead == AheadOf(stale, sub, head)

\* The chain is a line of slots in use that has every subscriber of the
\* store as it is open now.
ChainOK ==
    /\ Linear(sub, head)
    /\ \A j \in Chain : sub[j].alive \in {"ALIVE", "CLOSING"} /\ sub[j].opening \in {0, used.opens}
    /\ \A j \in Subs : sub[j].alive = "ALIVE" /\ sub[j].opening = used.opens => j \in Chain

\* The walk meets no slot that was given back, calls whom it may call, and
\* reports what is published.
WalkOK ==
    /\ walk.kind = "none" => walk = NoWalk
    /\ walk.pc # "head" => walk.at # None
    /\ \A j \in Ahead : sub[j].alive \notin {"FREE", "LOADED"} /\ sub[j].opening \in {0, used.opens}
    /\ walk.pc = "call" /\ walk.kind # "closing" /\ sub[walk.at].alive = "ALIVE"
           => sub[walk.at].want = walk.seq
    /\ walk.kind = "part" => /\ snap # NoSnap /\ walk.seq = snap.msn
                             /\ Len(snap.live) = walk.part + 1
                             /\ snap.live[walk.part + 1] = walk.data
    /\ walk.kind = "done" => snap # NoSnap /\ walk.seq < snap.msn
    /\ walk.kind = "closing" => snap = NoSnap

\* A callback that was overtaken by the next opening of the slot meets only
\* subscribers of the openings it lies between.
StaleOK ==
    /\ stale.kind \in {"none", "closing"}
    /\ stale.kind = "none" => stale = NoWalk
    /\ stale.pc # "head" => stale.at # None
    /\ \A j \in StaleAhead : sub[j].alive \notin {"FREE", "LOADED"} /\ sub[j].opening \in early \cup {0}
    /\ stale # NoWalk => used.opens \in early /\ snap # NoSnap

Waiting(s) == s.attached /\ ~s.ended
Live(s) == s.alive = "ALIVE" /\ (Waiting(s) \/ (~s.attached /\ ~s.aborted))
Over(s) == s.opening < used.opens \/ snap = NoSnap \/ s.want < snap.msn
Finished(s) == s.ended /\ ~s.errored /\ (s.proto # "H1" \/ s.end = "clean")

SlotOK(s) ==
    /\ s.alive \in {"LOADED", "ALIVE"} => s.opening \in 1..used.opens /\ s.want \in Seqs
    /\ s.alive \notin {"LOADED", "ALIVE"} => s.opening = 0 /\ ~s.attached
    /\ s.alive = "LOADED" => ~s.attached /\ s.opening = used.opens /\ snap # NoSnap
    /\ ~s.attached => /\ s.got = <<>> /\ s.ring = <<>> /\ s.sent = 0 /\ ~s.ended
                      /\ ~s.errored /\ s.read = "idle"
    /\ s.proto = "H1" => s.ring = <<>> /\ ~s.errored
    /\ s.end = "clean" => s.ended \/ (s.proto = "H3" /\ s.errored)
    /\ s.read # "idle" /\ s.errored => s.late
    /\ s.read = "end" /\ s.ring # <<>> => s.late

\* the end of a segment has been told, or the walk is on its way with it
Told(s, ahead) ==
    Waiting(s) /\ <<s.opening, s.want>> \in done => walk.kind = "done" /\ walk.seq = s.want /\ ahead

\* what a client that saw its response end has received
CleanOK(s) == s.end = "clean" =>
    \/ s.got = Pushed(s) /\ Over(s)
    \/ s.late /\ s.errored
    \/ s.late /\ s.got \o s.ring = Pushed(s) /\ Over(s)
    \/ s.proto = "H3" /\ s.errored

\* What a stream was sent is what its segment had up to some part.  Unless it
\* is over, that is everything, or the walk is on its way with the one part
\* that is missing; in the same way the end of the store has been told or is
\* on its way.
StreamOK(s, ahead) ==
    /\ s.sent <= Len(Pushed(s))
    /\ ~s.errored => s.got \o s.ring = SubSeq(Pushed(s), 1, s.sent)
    /\ Live(s) => s.opening = used.opens /\ (snap # NoSnap \/ (walk.kind = "closing" /\ ahead))
    /\ Waiting(s) => \/ s.sent = Len(Pushed(s))
                     \/ walk.kind = "part" /\ walk.seq = s.want /\ ahead /\ s.sent = walk.part
    /\ Finished(s) => s.sent = Len(Pushed(s)) /\ Over(s)
    /\ CleanOK(s)

\* a subscriber of a slot that was not opened again too early
OfKept(s) == s.opening > 0 /\ s.opening \notin early

SubInv(s, ahead) == SlotOK(s) /\ Told(s, ahead) /\ (OfKept(s) => StreamOK(s, ahead))

SubOK == \A i \in Subs : SubInv(sub[i], i \in Ahead)

IInv == TypeOK /\ SnapOK /\ ChainOK /\ WalkOK /\ StaleOK /\ SubOK

-----------------------------------------------------------------------------
(* Types.                                                                  *)

LEMMA ConstantTypes ==
    /\ None \notin Subs /\ Protos \subseteq {"H1", "H2", "H3"}
    /\ RingCap \in Nat /\ MaxPushes \in Nat /\ MaxCuts \in Nat /\ MaxOpens \in Nat \ {0}
    /\ MaxSegs \in Nat \ {0} /\ MaxParts \in Nat \ {0}
PROOF
  BY LlDashAssumption, SegSnapshotAssumption DEF None

LEMMA FreeSubType == FreeSub \in SubRec
PROOF
  BY DEF FreeSub, SubRec

LEMMA NoWalkType == NoWalk \in WalkRec
PROOF
  BY DEF NoWalk, WalkRec

\* a snapshot is no null pointer
LEMMA SnapNotNull ==
    ASSUME NEW sn \in SnapRec
    PROVE  sn # NoSnap
PROOF
<1>1. "next" \in DOMAIN sn
  BY DEF SnapRec
<1>2. "next" \notin DOMAIN NoSnap
  BY DEF NoSnap
<1> QED BY <1>1, <1>2

LEMMA EmitType ==
    ASSUME NEW s \in SubRec, NEW d \in Nat
    PROVE  sub_emit(s, d) \in SubRec
PROOF
<1>1. PICK g \in Seq(Nat) : g = Append(s.got, d)
  BY AppendProperties DEF SubRec
<1>2. PICK r \in Seq(Nat) : r = Append(s.ring, d)
  BY AppendProperties DEF SubRec
<1>3. Late(s) \in BOOLEAN
  BY DEF Late, SubRec
<1>4. CASE s.proto = "H1"
  BY <1>1, <1>4 DEF sub_emit, SubRec
<1>5. CASE s.proto # "H1" /\ Len(s.ring) < RingCap
  <2>1. sub_emit(s, d) = [s EXCEPT !.ring = r, !.late = Late(s)]
    BY <1>2, <1>5 DEF sub_emit
  <2> QED BY <1>3, <2>1 DEF SubRec
<1>6. CASE s.proto # "H1" /\ ~(Len(s.ring) < RingCap)
  <2>1. sub_emit(s, d) = [s EXCEPT !.errored = TRUE, !.late = Late(s)]
    BY <1>6 DEF sub_emit
  <2> QED BY <1>3, <2>1 DEF SubRec
<1> QED BY <1>4, <1>5, <1>6

LEMMA EndType ==
    ASSUME NEW s \in SubRec
    PROVE  sub_end(s) \in SubRec /\ sub_abort(s) \in SubRec
PROOF
<1>1. Late(s) \in BOOLEAN
  BY DEF Late, SubRec
<1> QED BY <1>1, ZenonT(60) DEF sub_end, sub_abort, SubRec

LEMMA EmitAllType ==
    ASSUME NEW s \in SubRec, NEW parts \in Seq(Nat)
    PROVE  EmitAll(s, parts) \in SubRec
PROOF
<1> DEFINE rest == SubSeq(parts, s.sent + 1, Len(parts))
           room == RingCap - Len(s.ring)
           now == IF Len(parts) > s.sent THEN Len(parts) ELSE s.sent
           fit == SubSeq(rest, 1, room)
<1>1. Len(parts) \in Nat /\ s.sent \in Nat /\ Len(s.ring) \in Nat /\ s.got \in Seq(Nat) /\ s.ring \in Seq(Nat)
  BY DEF SubRec
<1>2. rest \in Seq(Nat)
  <2>1. \A k \in s.sent + 1 .. Len(parts) : parts[k] \in Nat
    BY <1>1, ElementOfSeq
  <2> QED BY <2>1, <1>1, SubSeqProperties
<1>3. now \in Nat /\ room \in Int
  BY <1>1, ConstantTypes
<1> HIDE DEF rest, room, now
<1>4. Len(rest) > room => fit \in Seq(Nat)
  <2>1. SUFFICES ASSUME Len(rest) > room PROVE fit \in Seq(Nat)
    OBVIOUS
  <2>2. \A k \in 1 .. room : rest[k] \in Nat
    BY <2>1, <1>2, <1>3, ElementOfSeq
  <2> QED BY <2>2, <1>3, SubSeqProperties
<1> HIDE DEF fit
<1>5. CASE s.proto = "H1"
  <2>1. PICK g \in Seq(Nat) : g = s.got \o rest
    BY <1>1, <1>2, ConcatProperties
  <2>2. EmitAll(s, parts) = [s EXCEPT !.got = g, !.sent = now]
    BY <1>5, <2>1 DEF EmitAll, rest, now
  <2> QED BY <2>2, <1>3 DEF SubRec
<1>6. CASE s.proto # "H1" /\ Len(rest) <= room
  <2>1. PICK r \in Seq(Nat) : r = s.ring \o rest
    BY <1>1, <1>2, ConcatProperties
  <2>2. EmitAll(s, parts) = [s EXCEPT !.ring = r, !.sent = now]
    BY <1>6, <2>1 DEF EmitAll, rest, now, room
  <2> QED BY <2>2, <1>3 DEF SubRec
<1>7. CASE s.proto # "H1" /\ ~(Len(rest) <= room)
  <2>0. fit \in Seq(Nat)
    <3>1. PICK n \in Nat : n = Len(rest)
      BY <1>2, LenProperties
    <3>2. n > room
      BY <1>3, <1>7, <3>1
    <3> QED BY <3>1, <3>2, <1>4
  <2>1. PICK r \in Seq(Nat) : r = s.ring \o fit
    BY <1>1, <2>0, ConcatProperties
  <2>2. EmitAll(s, parts) = [s EXCEPT !.ring = r, !.errored = TRUE, !.sent = now]
    BY <1>7, <2>1 DEF EmitAll, rest, now, room, fit
  <2> QED BY <2>2, <1>3 DEF SubRec
<1> QED BY <1>5, <1>6, <1>7

-----------------------------------------------------------------------------
(* The snapshots the pump publishes.                                       *)

LEMMA OpenedSnap ==
    ASSUME NEW f \in Nat
    PROVE  LET ns == hls_llhls_enable(Fresh(f))
           IN  /\ ns \in SnapRec
               /\ ns.next = f /\ ns.oldest = f /\ ns.msn = f
               /\ ns.segs = <<>> /\ ns.live = <<>>
PROOF
<1> DEFINE ns == hls_llhls_enable(Fresh(f))
           Off == [next : Nat, oldest : Nat, msn : Nat, segs : Seq(SegRec), live : Seq(Nat), pt : BOOLEAN,
                   cum : Nat, epoch : Nat, disc : BOOLEAN, base : Nat, avail : Nat, gen : Nat]
<1>1. PICK s0 \in Seq(SegRec), l0 \in Seq(Nat) : s0 = <<>> /\ l0 = <<>>
  BY EmptySeq
<1>2. PICK fr : fr = Fresh(f)
  OBVIOUS
<1>3. fr = [next |-> f, oldest |-> f, msn |-> f, segs |-> s0, live |-> l0, pt |-> FALSE,
            cum |-> 0, epoch |-> 0, disc |-> FALSE, base |-> 0, avail |-> 0, gen |-> 0]
  BY <1>1, <1>2, Zenon DEF Fresh
<1>4. fr \in Off /\ fr.next = f /\ fr.oldest = f /\ fr.segs = s0 /\ fr.live = l0
  BY <1>3
<1>5. ns = [fr EXCEPT !.pt = TRUE, !.msn = f]
  BY <1>2, <1>4, Zenon DEF hls_llhls_enable
<1>6. ns \in SnapRec /\ ns.next = f /\ ns.oldest = f /\ ns.msn = f /\ ns.segs = s0 /\ ns.live = l0
  BY <1>4, <1>5 DEF SnapRec
<1> QED BY <1>1, <1>6

LEMMA PartSnap ==
    ASSUME NEW sn \in SnapRec, NEW d \in Nat, ~PartRefused(sn)
    PROVE  LET ns == hls_push_part_at(sn, d)
           IN  /\ ns \in SnapRec
               /\ ns.next = sn.next /\ ns.oldest = sn.oldest /\ ns.msn = sn.msn
               /\ ns.segs = sn.segs /\ ns.live = Append(sn.live, d)
PROOF
<1>1. PICK l \in Seq(Nat) : l = Append(sn.live, d)
  BY AppendProperties DEF SnapRec
<1>2. hls_push_part_at(sn, d) = [sn EXCEPT !.live = l]
  BY <1>1 DEF hls_push_part_at
<1> QED BY <1>1, <1>2 DEF SnapRec

LEMMA DiscontinuitySnap ==
    ASSUME NEW sn \in SnapRec
    PROVE  LET ns == hls_store_discontinuity_at(sn)
           IN  /\ ns \in SnapRec
               /\ ns.next = sn.next + 1 /\ ns.oldest = sn.next + 1 /\ ns.msn = sn.next + 1
               /\ ns.segs = <<>> /\ ns.live = <<>>
PROOF
<1> DEFINE ns == hls_store_discontinuity_at(sn)
<1>1. PICK n \in Nat, e \in Nat, b \in Nat : n = sn.next + 1 /\ e = sn.epoch + 1 /\ b = sn.cum
  BY SMTT(60) DEF SnapRec
<1>2. PICK s0 \in Seq(SegRec), l0 \in Seq(Nat) : s0 = <<>> /\ l0 = <<>>
  BY EmptySeq
<1>3. ns = [sn EXCEPT !.segs = s0, !.live = l0, !.next = n, !.oldest = n, !.msn = n,
                      !.epoch = e, !.disc = TRUE, !.base = b]
  BY <1>1, <1>2 DEF hls_store_discontinuity_at, SnapRec
<1>4. ns \in SnapRec /\ ns.next = n /\ ns.oldest = n /\ ns.msn = n /\ ns.segs = s0 /\ ns.live = l0
  BY <1>3, ZenonT(60) DEF SnapRec
<1> QED BY <1>1, <1>2, <1>4

\* the window after a segment was appended: the new one last, the others
\* under the numbers they had
Slid(sn, ns) == \A k \in 1..Len(ns.segs) :
    \/ ns.oldest + k - 1 = sn.next /\ ns.segs[k].data = sn.live
    \/ \E m \in 1..Len(sn.segs) : sn.oldest + m - 1 = ns.oldest + k - 1 /\ ns.segs[k].data = sn.segs[m].data

LEMMA SegmentSnap ==
    ASSUME NEW sn \in SnapRec, sn.oldest + Len(sn.segs) = sn.next
    PROVE  LET ns == hls_push_segment_ll_at(sn)
           IN  /\ ns \in SnapRec
               /\ ns.next = sn.next + 1 /\ ns.msn = sn.next + 1
               /\ ns.segs # <<>> /\ ns.live = <<>>
               /\ ns.oldest + Len(ns.segs) = ns.next
               /\ Slid(sn, ns)
PROOF
<1> DEFINE full == Len(sn.segs) >= MaxSegs
           new == [seq |-> sn.next, start |-> sn.cum, data |-> sn.live, parts |-> Len(sn.live), disc |-> sn.disc]
           kept == IF full THEN Tail(sn.segs) ELSE sn.segs
           first == IF full THEN sn.oldest + 1 ELSE sn.oldest
           segs == Append(kept, new)
           ns == hls_push_segment_ll_at(sn)
<1>0. /\ sn.segs \in Seq(SegRec) /\ sn.live \in Seq(Nat) /\ Len(sn.segs) \in Nat /\ Len(sn.live) \in Nat
      /\ sn.next \in Nat /\ sn.oldest \in Nat /\ sn.cum \in Nat /\ sn.disc \in BOOLEAN
  BY LenProperties DEF SnapRec
<1>1. new \in SegRec /\ new.data = sn.live
  BY <1>0 DEF SegRec
<1>2. /\ kept \in Seq(SegRec) /\ Len(kept) = (IF full THEN Len(sn.segs) - 1 ELSE Len(sn.segs))
      /\ \A k \in 1..Len(kept) : kept[k] = sn.segs[k + first - sn.oldest]
      /\ first \in Nat /\ first + Len(kept) = sn.next
  <2>1. CASE full
    <3>1. sn.segs # <<>>
      BY <2>1, <1>0, ConstantTypes, EmptySeq
    <3>2. /\ Tail(sn.segs) \in Seq(SegRec) /\ Len(Tail(sn.segs)) = Len(sn.segs) - 1
          /\ \A k \in 1..Len(Tail(sn.segs)) : Tail(sn.segs)[k] = sn.segs[k + 1]
      BY <3>1, <1>0, HeadTailProperties
    <3>3. \A k \in Int : k + (sn.oldest + 1) - sn.oldest = k + 1
      BY <1>0
    <3>4. kept = Tail(sn.segs) /\ first = sn.oldest + 1
      BY <2>1
    <3> HIDE DEF kept, first
    <3>5. ASSUME NEW k \in 1..Len(kept)
          PROVE  kept[k] = sn.segs[k + first - sn.oldest]
      <4>1. k + first - sn.oldest = k + 1
        BY <3>4, <1>0
      <4>2. kept[k] = sn.segs[k + 1]
        BY <3>2, <3>4
      <4> QED BY <4>1, <4>2
    <3>6. Len(kept) = Len(sn.segs) - 1 /\ kept \in Seq(SegRec)
      BY <3>2, <3>4
    <3>7. first \in Nat /\ first + Len(kept) = sn.next
      BY <3>4, <3>6, <1>0
    <3> QED BY <2>1, <3>5, <3>6, <3>7
  <2>2. CASE ~full
    <3>1. kept = sn.segs /\ first = sn.oldest
      BY <2>2
    <3>2. \A k \in Int : k + sn.oldest - sn.oldest = k
      BY <1>0
    <3> HIDE DEF kept, first
    <3> QED BY <2>2, <3>1, <3>2, <1>0
  <2> QED BY <2>1, <2>2
<1> HIDE DEF new, kept, first
<1>3. /\ segs \in Seq(SegRec) /\ Len(segs) = Len(kept) + 1
      /\ segs[Len(kept) + 1] = new /\ \A k \in 1..Len(kept) : segs[k] = kept[k]
  BY <1>1, <1>2, AppendProperties
<1> HIDE DEF segs
<1>4a. PICK n1 \in Nat, c1 \in Nat : n1 = sn.next + 1 /\ c1 = sn.cum + 1
  BY <1>0
<1>4. PICK l0 \in Seq(Nat) : l0 = <<>>
  BY EmptySeq
<1>5. /\ ns \in SnapRec
      /\ ns.next = sn.next + 1 /\ ns.msn = sn.next + 1 /\ ns.live = <<>>
      /\ ns.segs = segs /\ ns.oldest = first
  <2>1. ns = [AppendSegment(sn, sn.live, Len(sn.live)) EXCEPT !.live = l0, !.msn = n1]
    BY <1>4, <1>4a DEF hls_push_segment_ll_at
  <2>2. AppendSegment(sn, sn.live, Len(sn.live)) =
          [sn EXCEPT !.segs = segs, !.oldest = first, !.next = n1, !.cum = c1, !.disc = FALSE]
    BY <1>4a DEF AppendSegment, segs, kept, first, new
  <2>3. ns = [sn EXCEPT !.segs = segs, !.oldest = first, !.next = n1, !.cum = c1,
                        !.disc = FALSE, !.live = l0, !.msn = n1]
    BY <2>1, <2>2
  <2>4. ns \in SnapRec /\ ns.next = n1 /\ ns.msn = n1 /\ ns.live = l0 /\ ns.segs = segs /\ ns.oldest = first
    BY <2>3, <1>2, <1>3, ZenonT(60) DEF SnapRec
  <2> QED BY <2>4, <1>4, <1>4a
<1> HIDE DEF ns
<1>6. PICK n \in Nat : n = Len(kept)
  BY <1>2, LenProperties
<1>7. ns.segs # <<>> /\ ns.oldest + Len(ns.segs) = ns.next
  <2>1. Len(segs) = n + 1 /\ first + n = sn.next
    BY <1>2, <1>3, <1>6
  <2>2. segs # <<>>
    BY <2>1, EmptySeq
  <2>3. first \in Nat /\ sn.next \in Nat
    BY <1>0, <1>2
  <2>4. first + (n + 1) = sn.next + 1
    BY <2>1, <2>3
  <2>5. ns.oldest + Len(ns.segs) = ns.next
    BY <2>1, <2>4, <1>5
  <2> QED BY <2>2, <2>5, <1>5
<1>8. Slid(sn, ns)
  <2>1. SUFFICES ASSUME NEW k \in 1..(n + 1)
                 PROVE  \/ first + k - 1 = sn.next /\ segs[k].data = sn.live
                        \/ \E m \in 1..Len(sn.segs) : sn.oldest + m - 1 = first + k - 1 /\ segs[k].data = sn.segs[m].data
    BY <1>3, <1>5, <1>6 DEF Slid
  <2>2. CASE k = n + 1
    BY <2>2, <1>0, <1>1, <1>2, <1>3, <1>6
  <2>3. CASE k \in 1..n
    <3>1. PICK m \in Int : m = k + first - sn.oldest
      BY <1>0, <1>2
    <3>2. m \in 1..Len(sn.segs) /\ sn.oldest + m - 1 = first + k - 1
      <4>1. first >= sn.oldest /\ first + n = sn.oldest + Len(sn.segs)
        BY <1>0, <1>2, <1>6 DEF first
      <4>2. PICK ln \in Nat : ln = Len(sn.segs)
        BY <1>0
      <4>3. first \in Nat /\ sn.oldest \in Nat
        BY <1>0, <1>2
      <4> QED BY <4>1, <4>2, <4>3, <3>1, <2>3, SMTT(60)
    <3>3. segs[k] = sn.segs[m]
      BY <3>1, <2>3, <1>2, <1>3, <1>6
    <3> QED BY <3>2, <3>3
  <2> QED BY <2>2, <2>3, <1>6, SMTT(60)
<1> QED BY <1>5, <1>7, <1>8 DEF ns

-----------------------------------------------------------------------------
(* Every step keeps the types.                                             *)

\* the segment the catch-up finds in the window
LEMMA WindowData ==
    ASSUME NEW sn \in SnapRec, NEW w \in Nat, InWindow(sn, w)
    PROVE  /\ w - sn.oldest + 1 \in 1..Len(sn.segs)
           /\ SegAt(sn, w).data \in Seq(Nat)
PROOF
<1>1. sn.oldest \in Nat /\ sn.segs \in Seq(SegRec)
  BY DEF SnapRec
<1>2. PICK n \in Nat : n = Len(sn.segs)
  BY <1>1, LenProperties
<1>3. w >= sn.oldest /\ w < sn.oldest + n
  BY <1>2 DEF InWindow
<1>4. w - sn.oldest + 1 \in 1..Len(sn.segs)
  BY <1>1, <1>2, <1>3
<1>5. SegAt(sn, w) \in SegRec
  BY <1>1, <1>4, ElementOfSeq DEF SegAt
<1> QED BY <1>4, <1>5 DEF SegRec

LEMMA CatchUpType ==
    ASSUME NEW s \in SubRec, snap \in SnapRec \cup {NoSnap}
    PROVE  sub_catch_up(s) \in SubRec
PROOF
<1>1. CASE s.aborted \/ snap = NoSnap
  BY <1>1, EndType DEF sub_catch_up
<1>2. CASE ~(s.aborted \/ snap = NoSnap)
  <2>0. snap \in SnapRec /\ s.want \in Nat /\ snap.live \in Seq(Nat)
    BY <1>2 DEF SnapRec, SubRec
  <2>1. CASE snap.msn = s.want
    BY <1>2, <2>0, <2>1, EmitAllType DEF sub_catch_up
  <2>2. CASE snap.msn # s.want /\ InWindow(snap, s.want)
    <3>1. SegAt(snap, s.want).data \in Seq(Nat)
      BY <2>0, <2>2, WindowData
    <3>2. EmitAll(s, SegAt(snap, s.want).data) \in SubRec
      BY <3>1, EmitAllType
    <3> QED BY <1>2, <2>2, <3>2, EndType DEF sub_catch_up
  <2>3. CASE snap.msn # s.want /\ ~InWindow(snap, s.want)
    BY <1>2, <2>3, EndType DEF sub_catch_up
  <2> QED BY <2>1, <2>2, <2>3
<1> QED BY <1>1, <1>2

LEMMA CallbackType ==
    ASSUME NEW s \in SubRec, walk \in WalkRec
    PROVE  on_part_pushed(s) \in SubRec /\ on_segment_done(s) \in SubRec /\ on_store_closing(s) \in SubRec
PROOF
<1>1. on_part_pushed(s) \in SubRec
  <2>1. PICK e \in SubRec : e = sub_emit(s, walk.data)
    BY EmitType DEF WalkRec
  <2>2. PICK n \in Nat : n = e.sent + 1
    BY DEF SubRec
  <2>3. [e EXCEPT !.sent = @ + 1] = [e EXCEPT !.sent = n]
    BY <2>2
  <2>4. [e EXCEPT !.sent = n] \in SubRec
    BY DEF SubRec
  <2> QED BY <2>1, <2>3, <2>4 DEF on_part_pushed
<1>2. on_segment_done(s) \in SubRec
  BY EndType DEF on_segment_done
<1>3. on_store_closing(s) \in SubRec
  <2>1. [s EXCEPT !.aborted = TRUE] \in SubRec
    BY DEF SubRec
  <2> QED BY <2>1, EndType DEF on_store_closing
<1> QED BY <1>1, <1>2, <1>3

\* what changes is one slot
LEMMA TypeOneSub ==
    ASSUME TypeOK, NEW i \in Subs, NEW r \in SubRec, sub' = [sub EXCEPT ![i] = r],
           UNCHANGED <<snap, floor, hist, used, early>>, head' \in Subs \cup {None}, walk' \in WalkRec,
           stale' \in WalkRec
    PROVE  TypeOK'
PROOF
  BY DEF TypeOK

\* what changes is the walk
LEMMA StartType ==
    ASSUME NEW k \in {"part", "done", "closing"}, NEW q \in Nat, NEW p \in Nat, NEW d \in Nat, Start(k, q, p, d)
    PROVE  /\ walk' \in WalkRec /\ walk'.kind = k /\ walk'.pc = "head"
           /\ walk'.seq = q /\ walk'.part = p /\ walk'.data = d
PROOF
<1>1. PICK w \in WalkRec : w = NoWalk /\ w.pc = "head"
  BY NoWalkType DEF NoWalk
<1>2. walk' = [w EXCEPT !.kind = k, !.seq = q, !.part = p, !.data = d]
  BY <1>1 DEF Start
<1> QED BY <1>1, <1>2 DEF WalkRec

LEMMA GoType ==
    ASSUME NEW w \in WalkRec, NEW n \in Subs \cup {None}
    PROVE  Go(w, n) \in WalkRec
PROOF
  BY NoWalkType DEF Go, WalkRec

\* what a worker makes of its subscriber
LEMMA WorkerType ==
    ASSUME IInv, NEW i \in Subs, Worker(i)
    PROVE  TypeOK'
PROOF
<1>0. TypeOK /\ sub[i] \in SubRec
  BY DEF IInv, TypeOK
<1>1. CASE SubscribeLoad(i)
  <2>1. PICK p \in Protos : sub' = [sub EXCEPT ![i] = [FreeSub EXCEPT !.alive = "LOADED", !.proto = p,
                                                    !.want = snap.msn, !.opening = used.opens]]
    BY <1>1, Zenon DEF SubscribeLoad
  <2>2. snap.msn \in Nat /\ used.opens \in Nat /\ p \in {"H1", "H2", "H3"}
    <3>1. snap \in SnapRec /\ used.opens \in 1..MaxOpens
      BY <1>0, <1>1 DEF SubscribeLoad, TypeOK
    <3>2. snap.msn \in Nat
      BY <3>1 DEF SnapRec
    <3>3. used.opens \in Nat
      BY <3>1, ConstantTypes
    <3> QED BY <3>2, <3>3, ConstantTypes
  <2>3. PICK f \in SubRec : f = FreeSub
    BY FreeSubType
  <2>4. [f EXCEPT !.alive = "LOADED", !.proto = p, !.want = snap.msn, !.opening = used.opens] \in SubRec
    BY <2>2 DEF SubRec
  <2> QED BY <1>0, <1>1, <2>1, <2>3, <2>4, TypeOneSub DEF SubscribeLoad, TypeOK
<1>2. CASE SubscribeLink(i)
  <2>1. [sub[i] EXCEPT !.alive = "ALIVE", !.next = head] \in SubRec
    BY <1>0 DEF TypeOK, SubRec
  <2>2. sub' = [sub EXCEPT ![i] = [sub[i] EXCEPT !.alive = "ALIVE", !.next = head]]
    BY <1>0, <1>2 DEF SubscribeLink, TypeOK
  <2> QED BY <1>0, <1>2, <2>1, <2>2, TypeOneSub DEF SubscribeLink, TypeOK
<1>3. CASE sub_attach(i)
  <2>1. [sub[i] EXCEPT !.attached = TRUE] \in SubRec
    BY <1>0 DEF SubRec
  <2>2. sub_catch_up([sub[i] EXCEPT !.attached = TRUE]) \in SubRec
    BY <1>0, <2>1, CatchUpType DEF TypeOK
  <2>3. sub' = [sub EXCEPT ![i] = sub_catch_up([sub[i] EXCEPT !.attached = TRUE])]
    BY <1>3 DEF sub_attach
  <2> QED BY <1>0, <1>3, <2>2, <2>3, TypeOneSub DEF sub_attach, TypeOK
<1>4. CASE ReadErrored(i)
  <2>1. CASE sub[i].errored
    <3>1. PICK e \in {"clean", "killed"} : e = IF sub[i].proto = "H2" THEN "killed" ELSE "clean"
      OBVIOUS
    <3>2. sub' = [sub EXCEPT ![i] = [sub[i] EXCEPT !.end = e]]
      BY <1>0, <1>4, <2>1, <3>1 DEF ReadErrored, TypeOK
    <3>3. [sub[i] EXCEPT !.end = e] \in SubRec
      BY <1>0 DEF SubRec
    <3> QED BY <1>0, <1>4, <3>2, <3>3, TypeOneSub DEF ReadErrored, TypeOK
  <2>2. CASE ~sub[i].errored
    <3>1. sub' = [sub EXCEPT ![i] = [sub[i] EXCEPT !.read = "ring"]]
      BY <1>0, <1>4, <2>2 DEF ReadErrored, TypeOK
    <3>2. [sub[i] EXCEPT !.read = "ring"] \in SubRec
      BY <1>0 DEF SubRec
    <3> QED BY <1>0, <1>4, <3>1, <3>2, TypeOneSub DEF ReadErrored, TypeOK
  <2> QED BY <2>1, <2>2
<1>5. CASE ReadRing(i)
  <2>1. PICK g \in Seq(Nat), e \in Seq(Nat) : g = sub[i].got \o sub[i].ring /\ e = <<>>
    BY <1>0, ConcatProperties, EmptySeq DEF SubRec
  <2>0. PICK l \in BOOLEAN : l = (sub[i].late /\ sub[i].ring = <<>>)
    BY Zenon
  <2>2. [sub[i] EXCEPT !.read = IF sub[i].ring = <<>> THEN "end" ELSE "idle", !.late = l, !.got = g, !.ring = e] \in SubRec
    BY <1>0 DEF SubRec
  <2>3. sub' = [sub EXCEPT ![i] = [sub[i] EXCEPT !.read = IF sub[i].ring = <<>> THEN "end" ELSE "idle",
                                                 !.late = l, !.got = g, !.ring = e]]
    BY <1>0, <1>5, <2>0, <2>1 DEF ReadRing, TypeOK
  <2> QED BY <1>0, <1>5, <2>2, <2>3, TypeOneSub DEF ReadRing, TypeOK
<1>6. CASE ReadEnd(i)
  <2>0. PICK l \in BOOLEAN : l = (sub[i].late /\ sub[i].ended)
    BY Zenon
  <2>1. [sub[i] EXCEPT !.read = "idle", !.late = l, !.end = IF sub[i].ended THEN "clean" ELSE @] \in SubRec
    BY <1>0 DEF SubRec
  <2>2. sub' = [sub EXCEPT ![i] = [sub[i] EXCEPT !.read = "idle", !.late = l,
                                                 !.end = IF sub[i].ended THEN "clean" ELSE @]]
    BY <1>0, <1>6, <2>0 DEF ReadEnd, TypeOK
  <2> QED BY <1>0, <1>6, <2>1, <2>2, TypeOneSub DEF ReadEnd, TypeOK
<1>7. CASE dash_lldash_sub_close(i)
  <2>1. PICK f \in SubRec : f = FreeSub
    BY FreeSubType
  <2>2. [f EXCEPT !.alive = "CLOSING", !.next = sub[i].next] \in SubRec
    BY <1>0 DEF SubRec
  <2>3. sub' = [sub EXCEPT ![i] = [f EXCEPT !.alive = "CLOSING", !.next = sub[i].next]]
    BY <1>7, <2>1 DEF dash_lldash_sub_close
  <2> QED BY <1>0, <1>7, <2>2, <2>3, TypeOneSub DEF dash_lldash_sub_close, TypeOK
<1>8. CASE unlink_store_chain(i)
  <2>1. ASSUME NEW j \in Subs
        PROVE  Unlinked(i, "DEFERRED")[j] \in SubRec
    <3>1. sub[j] \in SubRec /\ sub[i].next \in Subs \cup {None}
      BY <1>0 DEF TypeOK, SubRec
    <3>2. [sub[j] EXCEPT !.alive = "DEFERRED"] \in SubRec /\ [sub[j] EXCEPT !.next = sub[i].next] \in SubRec
      BY <3>1 DEF SubRec
    <3> QED BY <3>1, <3>2 DEF Unlinked
  <2>2. Unlinked(i, "DEFERRED") \in [Subs -> SubRec]
    BY <2>1 DEF Unlinked
  <2>3. head' \in Subs \cup {None}
    BY <1>0, <1>8 DEF unlink_store_chain, TypeOK, SubRec
  <2> QED BY <1>0, <1>8, <2>2, <2>3 DEF unlink_store_chain, TypeOK
<1> QED BY <1>1, <1>2, <1>3, <1>4, <1>5, <1>6, <1>7, <1>8 DEF Worker

\* the bounds on the pump bound the numbers it gives out
LEMMA SeqInBounds ==
    ASSUME TypeOK, NEW q \in Nat, q <= used.pushes + used.cuts
    PROVE  q \in Seqs
PROOF
<1>1. used.pushes \in 0..MaxPushes /\ used.cuts \in 0..MaxCuts
  BY DEF TypeOK
<1> QED BY <1>1, ConstantTypes DEF Seqs

\* what the pump publishes, and its walk
LEMMA PumpType ==
    ASSUME IInv, PushPart \/ PushSegment \/ Discontinuity \/ StoreClose \/ StoreOpen
    PROVE  TypeOK'
PROOF
<1>0. /\ TypeOK /\ used.opens \in Nat /\ used.pushes \in Nat /\ used.cuts \in Nat
      /\ walk \in WalkRec /\ floor \in Nat
  BY ConstantTypes DEF IInv, TypeOK
<1>1. ASSUME snap # NoSnap
      PROVE  /\ snap \in SnapRec /\ SnapShows
             /\ snap.next \in Nat /\ snap.msn \in Nat /\ snap.live \in Seq(Nat) /\ Len(snap.live) \in Nat
  <2>1. snap \in SnapRec /\ SnapShows
    BY <1>1 DEF IInv, TypeOK, SnapOK
  <2> QED BY <2>1, LenProperties DEF SnapRec
<1>2. CASE PushPart
  <2>1. snap # NoSnap /\ ~PartRefused(snap) /\ used.pushes < MaxPushes
    BY <1>2 DEF PushPart, PumpIdle
  <2>2. PICK d \in 0..MaxPushes : d = used.pushes + 1
    BY <1>0, <2>1, ConstantTypes
  <2>3. used' = [used EXCEPT !.pushes = d] /\ used'.pushes = d
    BY <1>0, <1>2, <2>2 DEF PushPart, TypeOK
  <2>4. d \in Nat
    BY ConstantTypes
  <2>5. snap' \in SnapRec
    BY <1>1, <1>2, <2>1, <2>3, <2>4, PartSnap DEF PushPart
  <2>6. walk' \in WalkRec
    BY <1>1, <1>2, <2>1, <2>3, <2>4, StartType DEF PushPart
  <2>7. hist' \in [1..MaxOpens -> [Seqs -> Seq(Nat)]]
    <3>1. used.opens \in 1..MaxOpens /\ hist[used.opens] \in [Seqs -> Seq(Nat)]
      BY <1>0 DEF TypeOK
    <3>2. snap.msn \in Seqs
      BY <1>0, <1>1, <2>1, SeqInBounds DEF SnapShows
    <3>3. PICK l \in Seq(Nat) : l = Append(hist[used.opens][snap.msn], d)
      BY <3>1, <3>2, <2>4, AppendProperties
    <3>4. hist' = [hist EXCEPT ![used.opens] = [hist[used.opens] EXCEPT ![snap.msn] = l]]
      BY <1>0, <1>2, <2>3, <3>1, <3>2, <3>3 DEF PushPart, TypeOK
    <3> QED BY <1>0, <3>1, <3>2, <3>4 DEF TypeOK
  <2>8. used' \in [opens : 1..MaxOpens, pushes : 0..MaxPushes, cuts : 0..MaxCuts]
    BY <1>0, <2>3 DEF TypeOK
  <2> QED BY <1>0, <1>2, <2>5, <2>6, <2>7, <2>8 DEF PushPart, TypeOK
<1>3. CASE PushSegment
  <2>1. snap # NoSnap
    BY <1>3 DEF PushSegment, PumpIdle
  <2>2. snap' \in SnapRec
    BY <1>1, <1>3, <2>1, SegmentSnap DEF PushSegment, SnapShows
  <2>3. walk' \in WalkRec
    BY <1>1, <1>3, <2>1, StartType DEF PushSegment
  <2> QED BY <1>0, <1>3, <2>2, <2>3 DEF PushSegment, TypeOK
<1>4. CASE Discontinuity
  <2>1. snap # NoSnap /\ used.cuts < MaxCuts
    BY <1>4 DEF Discontinuity, PumpIdle
  <2>2. snap' \in SnapRec
    BY <1>1, <1>4, <2>1, DiscontinuitySnap DEF Discontinuity
  <2>3. walk' \in WalkRec
    <3>1. CASE snap.live # <<>>
      <4>1. Start("done", snap.msn, 0, 0)
        BY <1>4, <3>1 DEF Discontinuity
      <4> QED BY <4>1, <1>1, <2>1, StartType
    <3>2. CASE snap.live = <<>>
      BY <1>0, <1>4, <3>2 DEF Discontinuity
    <3> QED BY <3>1, <3>2
  <2>4. PICK c \in 0..MaxCuts : c = used.cuts + 1
    BY <1>0, <2>1, ConstantTypes
  <2>5. used' = [used EXCEPT !.cuts = c]
    BY <1>4, <2>4 DEF Discontinuity
  <2>6. used' \in [opens : 1..MaxOpens, pushes : 0..MaxPushes, cuts : 0..MaxCuts]
    BY <1>0, <2>5 DEF TypeOK
  <2> QED BY <1>0, <1>4, <2>2, <2>3, <2>6 DEF Discontinuity, TypeOK
<1>5. CASE StoreClose
  <2>1. snap # NoSnap
    BY <1>5 DEF StoreClose, PumpIdle
  <2>2. walk' \in WalkRec
    BY <1>5, StartType DEF StoreClose
  <2>3. floor' \in Nat
    BY <1>0, <1>1, <1>5, <2>1 DEF StoreClose
  <2> QED BY <1>0, <1>5, <2>2, <2>3 DEF StoreClose, TypeOK
<1>6. CASE StoreOpen
  <2>1. snap' \in SnapRec
    BY <1>0, <1>6, OpenedSnap DEF StoreOpen
  <2>2. PICK o \in 1..MaxOpens : o = used.opens + 1
    BY <1>0, <1>6, ConstantTypes DEF StoreOpen
  <2>3. used' = [used EXCEPT !.opens = o]
    BY <1>6, <2>2 DEF StoreOpen
  <2>4. used' \in [opens : 1..MaxOpens, pushes : 0..MaxPushes, cuts : 0..MaxCuts]
    BY <1>0, <2>3 DEF TypeOK
  <2>5. walk' \in WalkRec /\ stale' \in WalkRec
    BY <1>0, <1>6, NoWalkType DEF StoreOpen
  <2>6. early' \in SUBSET Nat
    <3>1. o \in Nat /\ used'.opens = o
      BY <1>0, <2>2, <2>3, ConstantTypes DEF TypeOK
    <3> QED BY <1>0, <1>6, <3>1 DEF StoreOpen, TypeOK
  <2> QED BY <1>0, <1>6, <2>1, <2>4, <2>5, <2>6 DEF StoreOpen, TypeOK
<1> QED BY <1>2, <1>3, <1>4, <1>5, <1>6

LEMMA WalkType ==
    ASSUME IInv, \/ WalkHead \/ WalkLook \/ WalkCall \/ StaleHead \/ StaleLook \/ StaleCall
                 \/ dashchunk_finish_sub_close
    PROVE  TypeOK'
PROOF
<1>0. TypeOK /\ walk \in WalkRec /\ stale \in WalkRec
  BY DEF IInv, TypeOK
<1>1. CASE WalkHead
  <2>1. walk' \in WalkRec
    BY <1>0, <1>1, GoType DEF WalkHead, TypeOK
  <2> QED BY <1>0, <1>1, <2>1 DEF WalkHead, TypeOK
<1>2. CASE WalkLook
  <2>1. walk.at \in Subs
    BY <1>0, <1>2 DEF IInv, WalkOK, WalkLook, WalkRec
  <2>2. sub[walk.at].next \in Subs \cup {None}
    BY <1>0, <2>1 DEF TypeOK, SubRec
  <2>3. Go(walk, sub[walk.at].next) \in WalkRec
    BY <1>0, <2>2, GoType
  <2>4. [walk EXCEPT !.pc = "call", !.next = sub[walk.at].next] \in WalkRec
    BY <1>0, <2>2 DEF WalkRec
  <2>5. walk' \in WalkRec
    BY <1>2, <2>3, <2>4 DEF WalkLook
  <2> QED BY <1>0, <1>2, <2>5 DEF WalkLook, TypeOK
<1>3. CASE WalkCall
  <2>1. walk.at \in Subs /\ walk.kind \in {"part", "done", "closing"}
    BY <1>0, <1>3 DEF IInv, WalkOK, WalkCall, WalkRec, NoWalk
  <2>2. sub[walk.at] \in SubRec
    BY <1>0, <2>1 DEF TypeOK
  <2>3. PICK r \in SubRec : sub' = [sub EXCEPT ![walk.at] = r]
    <3>1. CASE walk.kind = "part"
      BY <1>0, <1>3, <2>2, <3>1, CallbackType DEF WalkCall
    <3>2. CASE walk.kind = "done"
      BY <1>0, <1>3, <2>2, <3>2, CallbackType DEF WalkCall
    <3>3. CASE walk.kind = "closing"
      BY <1>0, <1>3, <2>2, <3>3, CallbackType DEF WalkCall
    <3> QED BY <2>1, <3>1, <3>2, <3>3
  <2>4. walk' \in WalkRec
    BY <1>0, <1>3, GoType DEF WalkCall, WalkRec
  <2> QED BY <1>0, <1>3, <2>1, <2>3, <2>4, TypeOneSub DEF WalkCall, TypeOK
<1>4. CASE dashchunk_finish_sub_close
  BY <1>0, <1>4, FreeSubType DEF dashchunk_finish_sub_close, TypeOK
<1>5. CASE StaleHead
  <2>1. stale' \in WalkRec
    BY <1>0, <1>5, GoType DEF StaleHead, TypeOK
  <2> QED BY <1>0, <1>5, <2>1 DEF StaleHead, TypeOK
<1>6. CASE StaleLook
  <2>1. stale.at \in Subs
    BY <1>0, <1>6 DEF IInv, StaleOK, StaleLook, WalkRec
  <2>2. sub[stale.at].next \in Subs \cup {None}
    BY <1>0, <2>1 DEF TypeOK, SubRec
  <2>3. Go(stale, sub[stale.at].next) \in WalkRec
    BY <1>0, <2>2, GoType
  <2>4. [stale EXCEPT !.pc = "call", !.next = sub[stale.at].next] \in WalkRec
    BY <1>0, <2>2 DEF WalkRec
  <2>5. stale' \in WalkRec
    BY <1>6, <2>3, <2>4 DEF StaleLook
  <2> QED BY <1>0, <1>6, <2>5 DEF StaleLook, TypeOK
<1>7. CASE StaleCall
  <2>1. stale.at \in Subs
    BY <1>0, <1>7 DEF IInv, StaleOK, StaleCall, WalkRec
  <2>2. sub[stale.at] \in SubRec
    BY <1>0, <2>1 DEF TypeOK
  <2>3. PICK r \in SubRec : sub' = [sub EXCEPT ![stale.at] = r]
    BY <1>0, <1>7, <2>2, CallbackType DEF StaleCall
  <2>4. stale' \in WalkRec
    BY <1>0, <1>7, GoType DEF StaleCall, WalkRec
  <2> QED BY <1>0, <1>7, <2>1, <2>3, <2>4, TypeOneSub DEF StaleCall, TypeOK
<1> QED BY <1>1, <1>2, <1>3, <1>4, <1>5, <1>6, <1>7

LEMMA TypeStep ==
    ASSUME IInv, Next
    PROVE  TypeOK'
PROOF
  BY WorkerType, PumpType, WalkType DEF Next

-----------------------------------------------------------------------------
(* Every step keeps the snapshot in line with the history.                 *)

\* what the snapshot's type gives
LEMMA SnapFacts ==
    ASSUME IInv
    PROVE  /\ used.opens \in 1..MaxOpens /\ used.opens \in Nat
           /\ used.pushes \in Nat /\ used.cuts \in Nat /\ floor \in Nat
           /\ snap # NoSnap => /\ snap \in SnapRec /\ SnapShows
                               /\ snap.next \in Nat /\ snap.msn \in Seqs /\ snap.msn \in Nat /\ snap.oldest \in Nat
                               /\ snap.live \in Seq(Nat) /\ Len(snap.live) \in Nat
                               /\ snap.segs \in Seq(SegRec) /\ Len(snap.segs) \in Nat
PROOF
<1>0. TypeOK /\ used.opens \in 1..MaxOpens /\ used.pushes \in 0..MaxPushes /\ used.cuts \in 0..MaxCuts /\ floor \in Nat
  BY DEF IInv, TypeOK
<1>1. used.opens \in Nat /\ used.pushes \in Nat /\ used.cuts \in Nat
  BY <1>0, ConstantTypes
<1>2. ASSUME snap # NoSnap
      PROVE  /\ snap \in SnapRec /\ SnapShows
             /\ snap.next \in Nat /\ snap.msn \in Seqs /\ snap.msn \in Nat /\ snap.oldest \in Nat
             /\ snap.live \in Seq(Nat) /\ Len(snap.live) \in Nat
             /\ snap.segs \in Seq(SegRec) /\ Len(snap.segs) \in Nat
  <2>1. snap \in SnapRec /\ SnapShows
    BY <1>2 DEF IInv, TypeOK, SnapOK
  <2>2. /\ snap.next \in Nat /\ snap.msn \in Nat /\ snap.oldest \in Nat
        /\ snap.live \in Seq(Nat) /\ snap.segs \in Seq(SegRec)
    BY <2>1 DEF SnapRec
  <2>3. snap.msn \in Seqs
    BY <2>1, <2>2, <1>0, SeqInBounds DEF SnapShows
  <2> QED BY <2>1, <2>2, <2>3, LenProperties
<1> QED BY <1>0, <1>1, <1>2

\* what the pump's counters say after a part
LEMMA PushPartFacts ==
    ASSUME IInv, PushPart
    PROVE  /\ used'.pushes = used.pushes + 1 /\ used'.opens = used.opens /\ used'.cuts = used.cuts
           /\ snap # NoSnap /\ snap' # NoSnap /\ snap' \in SnapRec
           /\ snap'.next = snap.next /\ snap'.oldest = snap.oldest /\ snap'.msn = snap.msn
           /\ snap'.segs = snap.segs /\ snap'.live = Append(snap.live, used.pushes + 1)
           /\ walk' \in WalkRec /\ walk'.kind = "part" /\ walk'.pc = "head" /\ walk'.seq = snap.msn
           /\ walk'.part = Len(snap.live) /\ walk'.data = used.pushes + 1
           /\ \A o \in 1..MaxOpens, q \in Seqs :
                hist'[o][q] = IF o = used.opens /\ q = snap.msn
                              THEN Append(hist[o][q], used.pushes + 1) ELSE hist[o][q]
PROOF
<1>0. /\ snap # NoSnap /\ ~PartRefused(snap) /\ snap \in SnapRec /\ snap.msn \in Nat /\ Len(snap.live) \in Nat
      /\ used.pushes \in Nat /\ used.opens \in 1..MaxOpens /\ snap.msn \in Seqs
  BY SnapFacts DEF PushPart, PumpIdle
<1>1. PICK d \in Nat : d = used.pushes + 1
  BY <1>0
<1>2. used' = [used EXCEPT !.pushes = d] /\ used'.pushes = d /\ used'.opens = used.opens /\ used'.cuts = used.cuts
  BY <1>1 DEF PushPart, IInv, TypeOK
<1>3. snap' = hls_push_part_at(snap, d)
  BY <1>2 DEF PushPart
<1>4. /\ snap' \in SnapRec
      /\ snap'.next = snap.next /\ snap'.oldest = snap.oldest /\ snap'.msn = snap.msn
      /\ snap'.segs = snap.segs /\ snap'.live = Append(snap.live, d)
  BY <1>0, <1>3, PartSnap
<1>5. snap' # NoSnap
  BY <1>4, SnapNotNull
<1>6. Start("part", snap.msn, Len(snap.live), d)
  BY <1>2 DEF PushPart
<1>7. /\ walk' \in WalkRec /\ walk'.kind = "part" /\ walk'.pc = "head" /\ walk'.seq = snap.msn
      /\ walk'.part = Len(snap.live) /\ walk'.data = d
  BY <1>0, <1>6, StartType
<1>8. ASSUME NEW o \in 1..MaxOpens, NEW q \in Seqs
      PROVE  hist'[o][q] = IF o = used.opens /\ q = snap.msn THEN Append(hist[o][q], d) ELSE hist[o][q]
  <2>1. hist' = [hist EXCEPT ![used.opens][snap.msn] = Append(@, d)]
    BY <1>2 DEF PushPart
  <2> QED BY <2>1, <1>0 DEF IInv, TypeOK
<1> QED BY <1>0, <1>1, <1>2, <1>4, <1>5, <1>7, <1>8

LEMMA PushPartSnap ==
    ASSUME IInv, PushPart
    PROVE  SnapOK'
PROOF
<1> DEFINE d == used.pushes + 1
<1>0. /\ snap # NoSnap /\ snap.msn \in Seqs /\ snap.msn \in Nat /\ used.opens \in 1..MaxOpens /\ used.opens \in Nat
      /\ used.pushes \in Nat /\ used.cuts \in Nat /\ floor \in Nat /\ SnapShows /\ SnapOK
      /\ snap.next \in Nat /\ snap.oldest \in Nat /\ Len(snap.segs) \in Nat
  BY SnapFacts, PushPartFacts DEF IInv
<1>1. /\ used'.pushes = d /\ used'.opens = used.opens /\ used'.cuts = used.cuts /\ snap' # NoSnap
      /\ snap'.next = snap.next /\ snap'.oldest = snap.oldest /\ snap'.msn = snap.msn
      /\ snap'.segs = snap.segs /\ snap'.live = Append(snap.live, d)
  BY PushPartFacts
<1>2. \A o \in 1..MaxOpens, q \in Seqs :
          hist'[o][q] = IF o = used.opens /\ q = snap.msn THEN Append(hist[o][q], d) ELSE hist[o][q]
  BY PushPartFacts
<1>3. floor' = floor /\ done' = done
  BY DEF PushPart
<1> DEFINE n == used.pushes + used.cuts
<1>4. n \in Nat /\ used'.pushes + used'.cuts = n + 1
  BY <1>0, <1>1, SMTT(60)
<1>5. floor' <= used'.pushes + used'.cuts
  BY <1>0, <1>3, <1>4 DEF SnapOK
<1>6. ASSUME NEW o \in 1..MaxOpens, NEW q \in Seqs, o > used'.opens
      PROVE  hist'[o][q] = <<>>
  BY <1>0, <1>1, <1>2, <1>6, SMTT(60) DEF SnapOK
<1>7. \A o, q \in Nat : <<o, q>> \in done' => o <= used'.opens
  BY <1>0, <1>1, <1>3 DEF SnapOK
<1>8. SnapShows'
  <2>1. snap'.msn = snap'.next /\ snap'.oldest + Len(snap'.segs) = snap'.next
    BY <1>0, <1>1 DEF SnapShows
  <2>2. snap'.msn <= used'.pushes + used'.cuts /\ snap'.msn < used'.pushes + used'.cuts
    BY <1>0, <1>1, <1>4 DEF SnapShows
  <2>3. snap'.live = hist'[used'.opens][snap'.msn]
    BY <1>0, <1>1, <1>2 DEF SnapShows
  <2>4. ASSUME NEW k \in 1..Len(snap'.segs)
        PROVE  snap'.segs[k].data = hist'[used'.opens][snap'.oldest + k - 1]
    <3>1. PICK q \in Int : q = snap.oldest + k - 1
      BY <1>0, <1>1
    <3>2. k \in 1..Len(snap.segs) /\ q < snap.msn /\ q >= 0
      BY <1>0, <1>1, <3>1, SMTT(60) DEF SnapShows
    <3>3. q \in Seqs
      BY <1>0, <3>2, ConstantTypes DEF Seqs
    <3>4. hist'[used.opens][q] = hist[used.opens][q]
      BY <1>0, <1>2, <3>2, <3>3
    <3>5. snap.segs[k].data = hist[used.opens][q]
      BY <1>0, <3>1, <3>2 DEF SnapShows
    <3> QED BY <1>1, <3>1, <3>4, <3>5
  <2>5. ASSUME NEW q \in Seqs, q > snap'.msn
        PROVE  hist'[used'.opens][q] = <<>>
    <3>1. q > snap.msn /\ q # snap.msn
      BY <1>0, <1>1, <2>5
    <3> QED BY <1>0, <1>1, <1>2, <3>1, SMTT(60) DEF SnapShows
  <2>6. \A q \in Nat : <<used'.opens, q>> \in done' => q < snap'.next
    BY <1>0, <1>1, <1>3 DEF SnapShows
  <2>7. floor' <= snap'.next
    BY <1>0, <1>1, <1>3 DEF SnapShows
  <2> QED BY <2>1, <2>2, <2>3, <2>4, <2>5, <2>6, <2>7 DEF SnapShows
<1>9. \A o, q \in Nat : <<o, q>> \in done' /\ (o < used'.opens \/ snap' = NoSnap) => q < floor'
  BY <1>0, <1>1, <1>3 DEF SnapOK
<1> QED BY <1>5, <1>6, <1>7, <1>8, <1>9 DEF SnapOK

\* the end of a segment, with or without parts, leaves the history alone
LEMMA PushSegmentFacts ==
    ASSUME IInv, PushSegment
    PROVE  /\ snap # NoSnap /\ snap' # NoSnap /\ snap' \in SnapRec
           /\ snap'.next = snap.next + 1 /\ snap'.msn = snap.next + 1 /\ snap'.live = <<>>
           /\ snap'.oldest + Len(snap'.segs) = snap'.next /\ Slid(snap, snap')
           /\ walk' \in WalkRec /\ walk'.kind = "done" /\ walk'.pc = "head" /\ walk'.seq = snap.next
PROOF
<1>0. snap # NoSnap /\ snap \in SnapRec /\ snap.next \in Nat /\ snap.oldest + Len(snap.segs) = snap.next
  BY SnapFacts DEF PushSegment, PumpIdle, SnapShows
<1>1. snap' = hls_push_segment_ll_at(snap) /\ Start("done", snap.next, 0, 0)
  BY DEF PushSegment
<1>2. /\ snap' \in SnapRec
      /\ snap'.next = snap.next + 1 /\ snap'.msn = snap.next + 1 /\ snap'.live = <<>>
      /\ snap'.oldest + Len(snap'.segs) = snap'.next /\ Slid(snap, snap')
  BY <1>0, <1>1, SegmentSnap
<1>3. walk' \in WalkRec /\ walk'.kind = "done" /\ walk'.pc = "head" /\ walk'.seq = snap.next
  BY <1>0, <1>1, StartType
<1> QED BY <1>0, <1>2, <1>3, SnapNotNull

LEMMA PushSegmentSnap ==
    ASSUME IInv, PushSegment
    PROVE  SnapOK'
PROOF
<1>0. /\ snap # NoSnap /\ snap.msn \in Seqs /\ snap.msn \in Nat /\ used.opens \in 1..MaxOpens /\ used.opens \in Nat
      /\ used.pushes \in Nat /\ used.cuts \in Nat /\ floor \in Nat /\ SnapShows /\ SnapOK
      /\ snap.next \in Nat /\ snap.oldest \in Nat /\ Len(snap.segs) \in Nat /\ TypeOK
  BY SnapFacts, PushSegmentFacts DEF IInv
<1>1. /\ snap' # NoSnap /\ snap' \in SnapRec
      /\ snap'.next = snap.next + 1 /\ snap'.msn = snap.next + 1 /\ snap'.live = <<>>
      /\ snap'.oldest + Len(snap'.segs) = snap'.next /\ Slid(snap, snap')
  BY PushSegmentFacts
<1>2. /\ floor' = floor /\ hist' = hist /\ used' = used /\ done' = done \cup {<<used.opens, snap.next>>}
      /\ snap.live # <<>>
  BY DEF PushSegment
<1>3. snap.msn = snap.next /\ snap.next + 1 <= used.pushes + used.cuts
  BY <1>0, <1>2 DEF SnapShows
<1>4. snap.next + 1 \in Seqs
  BY <1>0, <1>3, SeqInBounds
<1>5. SnapShows'
  <2>1. snap'.live = hist'[used'.opens][snap'.msn]
    BY <1>0, <1>1, <1>2, <1>3, <1>4, SMTT(60) DEF SnapShows
  <2>2. ASSUME NEW k \in 1..Len(snap'.segs)
        PROVE  snap'.segs[k].data = hist'[used'.opens][snap'.oldest + k - 1]
    <3>1. CASE snap'.oldest + k - 1 = snap.next /\ snap'.segs[k].data = snap.live
      BY <3>1, <1>0, <1>2, <1>3 DEF SnapShows
    <3>2. CASE \E m \in 1..Len(snap.segs) : snap.oldest + m - 1 = snap'.oldest + k - 1 /\ snap'.segs[k].data = snap.segs[m].data
      BY <3>2, <1>0, <1>2 DEF SnapShows
    <3> QED BY <3>1, <3>2, <1>1 DEF Slid
  <2>3. ASSUME NEW q \in Seqs, q > snap'.msn
        PROVE  hist'[used'.opens][q] = <<>>
    <3>1. q > snap.msn
      BY <1>0, <1>1, <1>3, <2>3, ConstantTypes DEF Seqs
    <3> QED BY <3>1, <1>0, <1>2 DEF SnapShows
  <2>4. ASSUME NEW q \in Nat, <<used'.opens, q>> \in done'
        PROVE  q < snap'.next
    <3>1. CASE <<used.opens, q>> \in done
      BY <3>1, <1>0, <1>1 DEF SnapShows
    <3>2. CASE <<used.opens, q>> = <<used.opens, snap.next>>
      BY <3>2, <1>0, <1>1
    <3> QED BY <3>1, <3>2, <2>4, <1>2
  <2>5. floor' <= snap'.next
    BY <1>0, <1>1, <1>2 DEF SnapShows
  <2> QED BY <2>1, <2>2, <2>3, <2>4, <2>5, <1>1, <1>2, <1>3 DEF SnapShows
<1>6. ASSUME NEW o \in Nat, NEW q \in Nat, <<o, q>> \in done'
      PROVE  o <= used'.opens
  <2>1. CASE <<o, q>> \in done
    BY <2>1, <1>0, <1>2 DEF SnapOK
  <2>2. CASE <<o, q>> = <<used.opens, snap.next>>
    BY <2>2, <1>0, <1>2
  <2> QED BY <2>1, <2>2, <1>2, <1>6
<1>7. ASSUME NEW o \in Nat, NEW q \in Nat, <<o, q>> \in done', o < used'.opens \/ snap' = NoSnap
      PROVE  q < floor'
  <2>1. o < used.opens /\ o # used.opens
    BY <1>7, <1>0, <1>1, <1>2
  <2>2. <<o, q>> \in done
    BY <2>1, <1>7, <1>2
  <2> QED BY <2>1, <2>2, <1>0, <1>2 DEF SnapOK
<1> QED BY <1>0, <1>2, <1>5, <1>6, <1>7 DEF SnapOK

LEMMA DiscontinuityFacts ==
    ASSUME IInv, Discontinuity
    PROVE  /\ snap # NoSnap /\ snap' # NoSnap /\ snap' \in SnapRec
           /\ snap'.next = snap.next + 1 /\ snap'.oldest = snap.next + 1 /\ snap'.msn = snap.next + 1
           /\ snap'.segs = <<>> /\ snap'.live = <<>>
           /\ used'.opens = used.opens /\ used'.pushes = used.pushes /\ used'.cuts = used.cuts + 1
           /\ \/ snap.live = <<>> /\ walk' = walk
              \/ walk' \in WalkRec /\ walk'.kind = "done" /\ walk'.pc = "head" /\ walk'.seq = snap.msn
PROOF
<1>0. snap # NoSnap /\ snap \in SnapRec /\ snap.next \in Nat /\ snap.msn \in Nat
  BY SnapFacts DEF Discontinuity, PumpIdle
<1>1. snap' = hls_store_discontinuity_at(snap) /\ used' = [used EXCEPT !.cuts = @ + 1]
  BY DEF Discontinuity
<1>2. /\ snap' \in SnapRec
      /\ snap'.next = snap.next + 1 /\ snap'.oldest = snap.next + 1 /\ snap'.msn = snap.next + 1
      /\ snap'.segs = <<>> /\ snap'.live = <<>>
  BY <1>0, <1>1, DiscontinuitySnap
<1>3. used'.opens = used.opens /\ used'.pushes = used.pushes /\ used'.cuts = used.cuts + 1
  BY <1>1 DEF IInv, TypeOK
<1>4. \/ snap.live = <<>> /\ walk' = walk
      \/ walk' \in WalkRec /\ walk'.kind = "done" /\ walk'.pc = "head" /\ walk'.seq = snap.msn
  <2>1. CASE snap.live # <<>>
    <3>1. Start("done", snap.msn, 0, 0)
      BY <2>1 DEF Discontinuity
    <3> QED BY <3>1, <1>0, StartType
  <2>2. CASE snap.live = <<>>
    BY <2>2 DEF Discontinuity
  <2> QED BY <2>1, <2>2
<1> QED BY <1>0, <1>2, <1>3, <1>4, SnapNotNull

LEMMA DiscontinuitySnapOK ==
    ASSUME IInv, Discontinuity
    PROVE  SnapOK'
PROOF
<1>0. /\ snap # NoSnap /\ used.opens \in 1..MaxOpens /\ used.opens \in Nat
      /\ used.pushes \in Nat /\ used.cuts \in Nat /\ floor \in Nat /\ SnapShows /\ SnapOK
      /\ snap.next \in Nat
  BY SnapFacts, DiscontinuityFacts DEF IInv
<1>1. /\ snap' # NoSnap
      /\ snap'.next = snap.next + 1 /\ snap'.oldest = snap.next + 1 /\ snap'.msn = snap.next + 1
      /\ snap'.segs = <<>> /\ snap'.live = <<>>
      /\ used'.opens = used.opens /\ used'.pushes = used.pushes /\ used'.cuts = used.cuts + 1
  BY DiscontinuityFacts
<1>2. floor' = floor /\ hist' = hist /\ done' = done
  BY DEF Discontinuity
<1>3. snap.msn = snap.next /\ snap.next + 1 <= used'.pushes + used'.cuts
  BY <1>0, <1>1 DEF SnapShows
<1>4. TypeOK'
  BY PumpType
<1>5. snap.next + 1 \in Seqs
  <2>1. ASSUME NEW q \in Nat, q <= used'.pushes + used'.cuts
        PROVE  q \in Seqs
    <3>1. used'.pushes \in 0..MaxPushes /\ used'.cuts \in 0..MaxCuts
      BY <1>4 DEF TypeOK
    <3> QED BY <2>1, <3>1, ConstantTypes DEF Seqs
  <2>2. snap.next + 1 \in Nat
    BY <1>0
  <2> QED BY <2>1, <2>2, <1>3
<1>6. SnapShows'
  <2>1. snap'.live = hist'[used'.opens][snap'.msn]
    <3>1. snap.next + 1 > snap.msn
      BY <1>0, <1>3
    <3> QED BY <3>1, <1>0, <1>1, <1>2, <1>5 DEF SnapShows
  <2>2. ASSUME NEW q \in Seqs, q > snap'.msn
        PROVE  hist'[used'.opens][q] = <<>>
    <3>1. q > snap.msn
      BY <1>0, <1>1, <1>3, <2>2, ConstantTypes DEF Seqs
    <3> QED BY <3>1, <1>0, <1>1, <1>2 DEF SnapShows
  <2>3. ASSUME NEW q \in Nat, <<used'.opens, q>> \in done'
        PROVE  q < snap'.next
    BY <2>3, <1>0, <1>1, <1>2 DEF SnapShows
  <2>4. snap'.oldest + Len(snap'.segs) = snap'.next /\ 1..Len(snap'.segs) = {}
    <3>1. Len(snap'.segs) = 0
      BY <1>1
    <3> QED BY <3>1, <1>0, <1>1
  <2>5. floor' <= snap'.next
    BY <1>0, <1>1, <1>2 DEF SnapShows
  <2> QED BY <2>1, <2>2, <2>3, <2>4, <2>5, <1>1, <1>3 DEF SnapShows
<1>7. floor' <= used'.pushes + used'.cuts
  BY <1>0, <1>1, <1>2 DEF SnapOK
<1> QED BY <1>0, <1>1, <1>2, <1>6, <1>7 DEF SnapOK

LEMMA StoreCloseSnapOK ==
    ASSUME IInv, StoreClose
    PROVE  SnapOK'
PROOF
<1>0. /\ snap # NoSnap /\ SnapShows /\ SnapOK /\ floor \in Nat
  BY SnapFacts DEF IInv, StoreClose, PumpIdle
<1>1. snap' = NoSnap /\ hist' = hist /\ done' = done /\ used' = used
  BY DEF StoreClose
<1>2. floor' = IF snap.next > floor THEN snap.next ELSE floor
  BY DEF StoreClose
<1>3. snap.next \in Nat /\ used.opens \in Nat /\ used.pushes \in Nat /\ used.cuts \in Nat
  BY <1>0, SnapFacts
<1>4. floor' >= floor /\ floor' >= snap.next /\ (floor' = snap.next \/ floor' = floor) /\ floor' \in Nat
  BY <1>0, <1>2, <1>3
<1>5. ASSUME NEW o \in Nat, NEW q \in Nat, <<o, q>> \in done
      PROVE  q < floor'
  <2>1. CASE o < used.opens
    <3>1. q < floor
      BY <2>1, <1>0, <1>5 DEF SnapOK
    <3> QED BY <3>1, <1>0, <1>4
  <2>2. CASE o = used.opens
    <3>1. q < snap.next
      BY <2>2, <1>0, <1>5 DEF SnapShows
    <3> QED BY <3>1, <1>3, <1>4
  <2>3. o <= used.opens
    BY <1>0, <1>5 DEF SnapOK
  <2> QED BY <2>1, <2>2, <2>3, <1>3
<1>6. floor' <= used'.pushes + used'.cuts
  BY <1>0, <1>1, <1>3, <1>4 DEF SnapOK, SnapShows
<1> QED BY <1>0, <1>1, <1>5, <1>6 DEF SnapOK

LEMMA StoreOpenFacts ==
    ASSUME IInv, StoreOpen
    PROVE  /\ snap = NoSnap /\ snap' # NoSnap
           /\ snap'.next = floor /\ snap'.oldest = floor /\ snap'.msn = floor
           /\ snap'.segs = <<>> /\ snap'.live = <<>>
           /\ used'.opens = used.opens + 1 /\ used'.pushes = used.pushes /\ used'.cuts = used.cuts
           /\ used'.opens \in 1..MaxOpens
PROOF
<1>0. floor \in Nat /\ used.opens \in 1..MaxOpens /\ used.opens \in Nat /\ used.opens < MaxOpens
  BY SnapFacts DEF StoreOpen
<1>1. snap' = hls_llhls_enable(Fresh(floor)) /\ used' = [used EXCEPT !.opens = @ + 1] /\ snap = NoSnap
  BY DEF StoreOpen
<1>2. /\ snap' \in SnapRec
      /\ snap'.next = floor /\ snap'.oldest = floor /\ snap'.msn = floor
      /\ snap'.segs = <<>> /\ snap'.live = <<>>
  BY <1>0, <1>1, OpenedSnap
<1>3. used'.opens = used.opens + 1 /\ used'.pushes = used.pushes /\ used'.cuts = used.cuts
  BY <1>1 DEF IInv, TypeOK
<1>4. used'.opens \in 1..MaxOpens
  BY <1>0, <1>3, ConstantTypes
<1> QED BY <1>1, <1>2, <1>3, <1>4, SnapNotNull

LEMMA StoreOpenSnapOK ==
    ASSUME IInv, StoreOpen
    PROVE  SnapOK'
PROOF
<1>0. /\ used.opens \in 1..MaxOpens /\ used.opens \in Nat
      /\ used.pushes \in Nat /\ used.cuts \in Nat /\ floor \in Nat /\ SnapOK /\ TypeOK
  BY SnapFacts DEF IInv
<1>1. /\ snap' # NoSnap
      /\ snap'.next = floor /\ snap'.oldest = floor /\ snap'.msn = floor
      /\ snap'.segs = <<>> /\ snap'.live = <<>>
      /\ used'.opens = used.opens + 1 /\ used'.pushes = used.pushes /\ used'.cuts = used.cuts
      /\ used'.opens \in 1..MaxOpens
  BY StoreOpenFacts
<1>2. floor' = floor /\ hist' = hist /\ done' = done
  BY DEF StoreOpen
<1>3. floor <= used.pushes + used.cuts /\ floor \in Seqs
  BY <1>0, SeqInBounds DEF SnapOK
<1>4. \A q \in Seqs : hist'[used'.opens][q] = <<>>
  <2>1. used'.opens > used.opens
    BY <1>0, <1>1
  <2> QED BY <2>1, <1>0, <1>1, <1>2 DEF SnapOK
<1>5. SnapShows'
  <2>1. snap'.oldest + Len(snap'.segs) = snap'.next /\ 1..Len(snap'.segs) = {}
    <3>1. Len(snap'.segs) = 0
      BY <1>1
    <3> QED BY <3>1, <1>0, <1>1
  <2>2. ASSUME NEW q \in Nat, <<used'.opens, q>> \in done'
        PROVE  FALSE
    <3>1. used'.opens \in Nat
      BY <1>0, <1>1
    <3>2. used'.opens <= used.opens
      BY <2>2, <3>1, <1>0, <1>2 DEF SnapOK
    <3> QED BY <3>2, <1>0, <1>1
  <2>3. floor' <= snap'.next
    BY <1>0, <1>1, <1>2
  <2> QED BY <2>1, <2>2, <2>3, <1>1, <1>3, <1>4 DEF SnapShows
<1>6. ASSUME NEW o \in 1..MaxOpens, NEW q \in Seqs, o > used'.opens
      PROVE  hist'[o][q] = <<>>
  <2>1. o > used.opens
    BY <1>0, <1>1, <1>6, ConstantTypes
  <2> QED BY <2>1, <1>0, <1>2 DEF SnapOK
<1>7. ASSUME NEW o \in Nat, NEW q \in Nat, <<o, q>> \in done'
      PROVE  o <= used'.opens
  BY <1>7, <1>0, <1>1, <1>2 DEF SnapOK
<1>8. \A o, q \in Nat : <<o, q>> \in done' => q < floor'
  BY <1>0, <1>2, StoreOpenFacts DEF SnapOK
<1> QED BY <1>1, <1>2, <1>3, <1>5, <1>6, <1>7, <1>8 DEF SnapOK

LEMMA SnapStep ==
    ASSUME IInv, Next
    PROVE  SnapOK'
PROOF
<1>1. CASE UNCHANGED <<snap, floor, hist, done, used>>
  BY <1>1, SMTT(60) DEF IInv, SnapOK, SnapShows
<1>2. CASE \E i \in Subs : Worker(i)
  <2>1. PICK i \in Subs : Worker(i)
    BY <1>2
  <2>2. UNCHANGED <<snap, floor, hist, done, used>>
    BY <2>1, Zenon DEF Worker, SubscribeLoad, SubscribeLink, sub_attach, ReadErrored, ReadRing, ReadEnd,
       dash_lldash_sub_close, unlink_store_chain
  <2> QED BY <2>2, <1>1
<1>3. CASE \/ WalkHead \/ WalkLook \/ WalkCall \/ StaleHead \/ StaleLook \/ StaleCall
           \/ dashchunk_finish_sub_close
  BY <1>1, <1>3 DEF WalkHead, WalkLook, WalkCall, StaleHead, StaleLook, StaleCall, dashchunk_finish_sub_close
<1> QED BY <1>2, <1>3, PushPartSnap, PushSegmentSnap, DiscontinuitySnapOK, StoreCloseSnapOK, StoreOpenSnapOK DEF Next

-----------------------------------------------------------------------------
(* What the operations on a subscriber leave alone.                        *)

Keeps(s, r) ==
    /\ r.alive = s.alive /\ r.next = s.next /\ r.opening = s.opening
    /\ r.want = s.want /\ r.proto = s.proto /\ r.attached = s.attached /\ r.read = s.read

LEMMA EndKeeps ==
    ASSUME NEW s \in SubRec
    PROVE  Keeps(s, sub_end(s)) /\ Keeps(s, sub_abort(s))
PROOF
<1>1. Keeps(s, sub_end(s))
  BY DEF sub_end, SubRec, Keeps
<1>2. PICK l : l = Late(s)
  OBVIOUS
<1>3. CASE s.proto # "H1"
  <2>1. sub_abort(s) = [s EXCEPT !.ended = TRUE, !.errored = TRUE, !.late = l]
    BY <1>2, <1>3 DEF sub_abort
  <2> QED BY <2>1, <1>1 DEF SubRec, Keeps
<1>4. CASE s.proto = "H1"
  BY <1>1, <1>4 DEF sub_abort, SubRec, Keeps
<1> QED BY <1>1, <1>3, <1>4

LEMMA EmitKeeps ==
    ASSUME NEW s \in SubRec, NEW d
    PROVE  Keeps(s, sub_emit(s, d)) /\ sub_emit(s, d).sent = s.sent /\ sub_emit(s, d).ended = s.ended
PROOF
<1>1. PICK g, q, l : g = Append(s.got, d) /\ q = Append(s.ring, d) /\ l = Late(s)
  OBVIOUS
<1>2. \/ sub_emit(s, d) = [s EXCEPT !.got = g]
      \/ sub_emit(s, d) = [s EXCEPT !.ring = q, !.late = l]
      \/ sub_emit(s, d) = [s EXCEPT !.errored = TRUE, !.late = l]
  BY <1>1 DEF sub_emit
<1> QED BY <1>2 DEF SubRec, Keeps

LEMMA EmitAllKeeps ==
    ASSUME NEW s \in SubRec, NEW parts
    PROVE  /\ Keeps(s, EmitAll(s, parts)) /\ EmitAll(s, parts).ended = s.ended /\ EmitAll(s, parts).end = s.end
           /\ s.proto = "H1" => EmitAll(s, parts).errored = s.errored
PROOF
<1> DEFINE rest == SubSeq(parts, s.sent + 1, Len(parts))
           room == RingCap - Len(s.ring)
           now == IF Len(parts) > s.sent THEN Len(parts) ELSE s.sent
<1>1. CASE s.proto = "H1"
  <2>1. PICK g, n : g = s.got \o rest /\ n = now
    OBVIOUS
  <2>2. EmitAll(s, parts) = [s EXCEPT !.got = g, !.sent = n]
    BY <1>1, <2>1, Zenon DEF EmitAll
  <2> QED BY <2>2 DEF SubRec, Keeps
<1>2. CASE s.proto # "H1" /\ Len(rest) <= room
  <2>1. PICK g, n : g = s.ring \o rest /\ n = now
    OBVIOUS
  <2>2. EmitAll(s, parts) = [s EXCEPT !.ring = g, !.sent = n]
    BY <1>2, <2>1 DEF EmitAll
  <2> QED BY <2>2 DEF SubRec, Keeps
<1>3. CASE s.proto # "H1" /\ ~(Len(rest) <= room)
  <2>1. PICK g, n : g = s.ring \o SubSeq(rest, 1, room) /\ n = now
    OBVIOUS
  <2>2. EmitAll(s, parts) = [s EXCEPT !.ring = g, !.errored = TRUE, !.sent = n]
    BY <1>3, <2>1 DEF EmitAll
  <2> QED BY <1>3, <2>2 DEF SubRec, Keeps
<1> QED BY <1>1, <1>2, <1>3

LEMMA CatchUpKeeps ==
    ASSUME NEW s \in SubRec, snap \in SnapRec \cup {NoSnap}
    PROVE  Keeps(s, sub_catch_up(s))
PROOF
<1>1. CASE s.aborted \/ snap = NoSnap
  BY <1>1, EndKeeps DEF sub_catch_up
<1>2. CASE ~(s.aborted \/ snap = NoSnap) /\ snap.msn = s.want
  BY <1>2, EmitAllKeeps DEF sub_catch_up
<1>3. CASE ~(s.aborted \/ snap = NoSnap) /\ snap.msn # s.want /\ InWindow(snap, s.want)
  <2>1. PICK p : p = SegAt(snap, s.want).data
    OBVIOUS
  <2>2. p \in Seq(Nat)
    BY <1>3, <2>1, WindowData DEF SubRec
  <2>3. EmitAll(s, p) \in SubRec /\ Keeps(s, EmitAll(s, p))
    BY <2>2, EmitAllType, EmitAllKeeps
  <2>4. Keeps(EmitAll(s, p), sub_end(EmitAll(s, p)))
    BY <2>3, EndKeeps
  <2>5. sub_catch_up(s) = sub_end(EmitAll(s, p))
    BY <1>3, <2>1 DEF sub_catch_up
  <2> QED BY <2>3, <2>4, <2>5 DEF Keeps
<1>4. CASE ~(s.aborted \/ snap = NoSnap) /\ snap.msn # s.want /\ ~InWindow(snap, s.want)
  BY <1>4, EndKeeps DEF sub_catch_up
<1> QED BY <1>1, <1>2, <1>3, <1>4

LEMMA CallbackKeeps ==
    ASSUME NEW s \in SubRec, walk \in WalkRec
    PROVE  Keeps(s, on_part_pushed(s)) /\ Keeps(s, on_segment_done(s)) /\ Keeps(s, on_store_closing(s))
PROOF
<1>0. Keeps(s, s)
  BY DEF Keeps
<1>1. Keeps(s, on_part_pushed(s))
  <2>1. PICK e \in SubRec : e = sub_emit(s, walk.data)
    BY EmitType DEF WalkRec
  <2>2. Keeps(s, e)
    BY <2>1, EmitKeeps
  <2>3. Keeps(s, [e EXCEPT !.sent = @ + 1])
    BY <2>2 DEF Keeps, SubRec
  <2> QED BY <2>1, <2>3, <1>0 DEF on_part_pushed
<1>2. Keeps(s, on_segment_done(s))
  BY <1>0, EndKeeps DEF on_segment_done
<1>3. Keeps(s, on_store_closing(s))
  <2>1. Keeps(s, [s EXCEPT !.aborted = TRUE])
    BY DEF SubRec, Keeps
  <2> QED BY <2>1, EndKeeps DEF on_store_closing
<1> QED BY <1>1, <1>2, <1>3

-----------------------------------------------------------------------------
(* What a walk still has ahead of it when the chain changes under it.      *)

LEMMA TableLinks ==
    ASSUME NEW t \in [Subs -> SubRec]
    PROVE  Links(t)
PROOF
  BY DEF Links, SubRec

LEMMA AheadInSubs ==
    ASSUME NEW t \in [Subs -> SubRec], NEW w \in WalkRec, NEW h \in Subs \cup {None}, w.pc # "head" => w.at # None
    PROVE  AheadOf(w, t, h) \subseteq Subs
PROOF
<1>1. \A a \in Subs \cup {None} : Reach(t, a) \subseteq Subs
  BY DEF Reach
<1> QED BY <1>1 DEF AheadOf, WalkRec

\* slots off the chain and off the walk's way may change
LEMMA AheadSame ==
    ASSUME NEW t \in [Subs -> SubRec], NEW u \in [Subs -> SubRec], NEW w \in WalkRec,
           NEW h \in Subs \cup {None}, NEW S, Reach(t, h) \subseteq S, AheadOf(w, t, h) \subseteq S,
           SameLinks(t, u, S)
    PROVE  /\ Reach(u, h) = Reach(t, h)
           /\ AheadOf(w, u, h) = AheadOf(w, t, h)
PROOF
<1>0. Links(t) /\ Links(u) /\ w.at \in Subs \cup {None} /\ w.next \in Subs \cup {None} /\ w.pc \in {"head", "look", "call"}
  BY TableLinks DEF WalkRec
<1>1. ASSUME NEW a \in Subs \cup {None}, Reach(t, a) \subseteq S
      PROVE  Reach(u, a) = Reach(t, a)
  <2>1. SameLinks(t, u, Reach(t, a))
    BY <1>1 DEF SameLinks
  <2> QED BY <2>1, <1>0, ReachSame
<1>2. Reach(u, h) = Reach(t, h)
  BY <1>1
<1>3. CASE w.kind = "none" \/ w.pc = "head"
  BY <1>2, <1>3 DEF AheadOf
<1>4. CASE w.kind # "none" /\ w.pc = "look"
  <2>1. Reach(t, w.at) \subseteq S
    BY <1>4 DEF AheadOf
  <2> QED BY <2>1, <1>0, <1>1, <1>2, <1>4 DEF AheadOf
<1>5. CASE w.kind # "none" /\ w.pc = "call"
  <2>1. Reach(t, w.next) \subseteq S
    BY <1>5 DEF AheadOf
  <2> QED BY <2>1, <1>0, <1>1, <1>2, <1>5 DEF AheadOf
<1> QED BY <1>0, <1>3, <1>4, <1>5

\* a subscriber linked at the head may be met, nobody is lost
LEMMA AheadLink ==
    ASSUME NEW t \in [Subs -> SubRec], NEW u \in [Subs -> SubRec], NEW w \in WalkRec,
           NEW h \in Subs \cup {None}, NEW i \in Subs, i \notin Reach(t, h), i \notin AheadOf(w, t, h),
           u[i].next = h, SameLinks(t, u, Subs \ {i}), Linear(t, h)
    PROVE  /\ AheadOf(w, t, h) \subseteq AheadOf(w, u, i)
           /\ AheadOf(w, u, i) \subseteq AheadOf(w, t, h) \cup {i}
PROOF
<1>0. Links(t) /\ Links(u) /\ w.at \in Subs \cup {None} /\ w.next \in Subs \cup {None} /\ w.pc \in {"head", "look", "call"}
  BY TableLinks DEF WalkRec
<1>1. ASSUME NEW a \in Subs \cup {None}, i \notin Reach(t, a)
      PROVE  Reach(u, a) = Reach(t, a)
  <2>1. SameLinks(t, u, Reach(t, a))
    BY <1>1 DEF SameLinks, Reach
  <2> QED BY <2>1, <1>0, ReachSame
<1>2. Reach(u, i) = {i} \cup Reach(t, h)
  BY <1>0, LinkChain
<1>3. CASE w.kind = "none" \/ w.pc = "head"
  BY <1>2, <1>3 DEF AheadOf
<1>4. CASE w.kind # "none" /\ w.pc = "look"
  BY <1>0, <1>1, <1>4 DEF AheadOf
<1>5. CASE w.kind # "none" /\ w.pc = "call"
  BY <1>0, <1>1, <1>5 DEF AheadOf
<1> QED BY <1>0, <1>3, <1>4, <1>5

\* of an unlinked subscriber only it may be missed
LEMMA AheadUnlink ==
    ASSUME NEW t \in [Subs -> SubRec], NEW u \in [Subs -> SubRec], NEW w \in WalkRec,
           NEW h \in Subs \cup {None}, NEW x \in Subs, Linear(t, h), AfterUnlink(t, u, h, x)
    PROVE  /\ AheadOf(w, u, HeadAfter(t, h, x)) \subseteq AheadOf(w, t, h)
           /\ AheadOf(w, t, h) \ {x} \subseteq AheadOf(w, u, HeadAfter(t, h, x))
PROOF
<1>0. Links(t) /\ Links(u) /\ w.at \in Subs \cup {None} /\ w.next \in Subs \cup {None} /\ w.pc \in {"head", "look", "call"}
  BY TableLinks DEF WalkRec
<1>1. Reach(u, HeadAfter(t, h, x)) = Reach(t, h) \ {x} /\ Bypass(t, u, x)
  BY <1>0, UnlinkChain
<1>2. ASSUME NEW a \in Subs \cup {None}
      PROVE  Reach(u, a) \subseteq Reach(t, a) /\ Reach(t, a) \ {x} \subseteq Reach(u, a)
  BY <1>0, <1>1, BypassReach
<1>3. CASE w.kind = "none" \/ w.pc = "head"
  BY <1>1, <1>3 DEF AheadOf
<1>4. CASE w.kind # "none" /\ w.pc = "look"
  BY <1>0, <1>2, <1>4 DEF AheadOf
<1>5. CASE w.kind # "none" /\ w.pc = "call"
  BY <1>0, <1>2, <1>5 DEF AheadOf
<1> QED BY <1>0, <1>3, <1>4, <1>5

-----------------------------------------------------------------------------
(* Steps of a worker on its slot that leave the chain alone.               *)

\* what such a step may do to the slot: fill it, give it up, or work with it
SlotChange(s, r) ==
    \/ r.next = s.next /\ r.alive = s.alive /\ r.opening = s.opening /\ r.want = s.want
    \/ r.next = s.next /\ s.alive = "ALIVE" /\ r.alive = "CLOSING" /\ r.opening = 0
    \/ s.alive = "FREE" /\ r.alive = "LOADED"

\* one slot is changed and nothing else
OnlySlot(i) ==
    /\ \A j \in Subs \ {i} : sub'[j] = sub[j]
    /\ UNCHANGED <<snap, head, floor, hist, done, used, early>>
    /\ SlotChange(sub[i], sub'[i])

LEMMA SlotReach ==
    ASSUME IInv, TypeOK', NEW i \in Subs, OnlySlot(i)
    PROVE  /\ SameLinks(sub, sub', Chain) /\ Chain \subseteq Subs /\ Ahead \subseteq Subs /\ StaleAhead \subseteq Subs
           /\ Reach(sub', head) = Chain
           /\ AheadOf(walk, sub', head) = Ahead
           /\ AheadOf(stale, sub', head) = StaleAhead
PROOF
<1>0. /\ sub \in [Subs -> SubRec] /\ sub' \in [Subs -> SubRec] /\ head \in Subs \cup {None}
      /\ walk \in WalkRec /\ (walk.pc # "head" => walk.at # None)
      /\ stale \in WalkRec /\ (stale.pc # "head" => stale.at # None)
  BY DEF IInv, TypeOK, WalkOK, StaleOK
<1>1. Chain \subseteq Subs /\ Ahead \subseteq Subs /\ StaleAhead \subseteq Subs
  BY <1>0, AheadInSubs DEF Chain, Reach, Ahead, StaleAhead
<1> DEFINE S == Chain \cup Ahead \cup StaleAhead
<1>2. SameLinks(sub, sub', S)
  <2>1. SUFFICES ASSUME NEW j \in S PROVE sub'[j].next = sub[j].next
    BY DEF SameLinks
  <2>2. CASE j # i
    BY <1>1, <2>2 DEF OnlySlot
  <2>3. CASE j = i
    <3>1. sub[i].alive # "FREE"
      BY <2>3 DEF IInv, ChainOK, WalkOK, StaleOK
    <3> QED BY <2>3, <3>1 DEF OnlySlot, SlotChange
  <2> QED BY <2>2, <2>3
<1>3. /\ Reach(sub, head) \subseteq S /\ AheadOf(walk, sub, head) \subseteq S /\ AheadOf(stale, sub, head) \subseteq S
  BY DEF Chain, Ahead, StaleAhead
<1> HIDE DEF S
<1>4. Reach(sub', head) = Reach(sub, head) /\ AheadOf(walk, sub', head) = AheadOf(walk, sub, head)
  BY <1>0, <1>2, <1>3, AheadSame
<1>5. AheadOf(stale, sub', head) = AheadOf(stale, sub, head)
  BY <1>0, <1>2, <1>3, AheadSame
<1>6. SameLinks(sub, sub', Chain)
  BY <1>2 DEF SameLinks, S
<1> QED BY <1>1, <1>4, <1>5, <1>6 DEF Chain, Ahead, StaleAhead

LEMMA SlotChain ==
    ASSUME IInv, TypeOK', NEW i \in Subs, OnlySlot(i)
    PROVE  ChainOK'
PROOF
<1>0. SameLinks(sub, sub', Chain) /\ Chain \subseteq Subs /\ Reach(sub', head) = Chain /\ head' = head /\ used' = used
  BY SlotReach DEF OnlySlot
<1>1. Chain' = Chain
  BY <1>0 DEF Chain
<1>2. Linear(sub', head')
  BY <1>0 DEF IInv, ChainOK, Linear, Chain, SameLinks
<1>3. ASSUME NEW j \in Chain
      PROVE  sub'[j].alive \in {"ALIVE", "CLOSING"} /\ sub'[j].opening \in {0, used'.opens}
  <2>1. sub[j].alive \in {"ALIVE", "CLOSING"} /\ sub[j].opening \in {0, used.opens} /\ j \in Subs
    BY <1>0 DEF IInv, ChainOK
  <2>2. sub'[j] = sub[j] \/ SlotChange(sub[j], sub'[j])
    BY <2>1 DEF OnlySlot
  <2> QED BY <2>1, <2>2, <1>0 DEF SlotChange
<1>4. ASSUME NEW j \in Subs, sub'[j].alive = "ALIVE", sub'[j].opening = used'.opens
      PROVE  j \in Chain
  BY <1>4 DEF IInv, ChainOK, OnlySlot, SlotChange
<1> QED BY <1>1, <1>2, <1>3, <1>4 DEF ChainOK

LEMMA SlotWalk ==
    ASSUME IInv, TypeOK', NEW i \in Subs, OnlySlot(i), walk' = walk
    PROVE  WalkOK' /\ Ahead' = Ahead
PROOF
<1>0. AheadOf(walk, sub', head) = Ahead /\ head' = head /\ Ahead \subseteq Subs /\ snap' = snap /\ used' = used
  BY SlotReach DEF OnlySlot
<1>1. Ahead' = Ahead
  BY <1>0 DEF Ahead
<1>2. ASSUME NEW j \in Ahead
      PROVE  sub'[j].alive \notin {"FREE", "LOADED"} /\ sub'[j].opening \in {0, used'.opens}
  <2>1. sub[j].alive \notin {"FREE", "LOADED"} /\ sub[j].opening \in {0, used.opens} /\ j \in Subs
    BY <1>0 DEF IInv, WalkOK
  <2>2. sub'[j] = sub[j] \/ SlotChange(sub[j], sub'[j])
    BY <2>1 DEF OnlySlot
  <2> QED BY <2>1, <2>2, <1>0 DEF SlotChange
<1>3. ASSUME walk.pc = "call", walk.kind # "closing", sub'[walk.at].alive = "ALIVE"
      PROVE  sub'[walk.at].want = walk.seq
  <2>1. walk.at \in Subs
    BY <1>3 DEF IInv, WalkOK, TypeOK, WalkRec
  <2> QED BY <1>3, <2>1 DEF IInv, WalkOK, OnlySlot, SlotChange
<1> QED BY <1>0, <1>1, <1>2, <1>3 DEF IInv, WalkOK

LEMMA SlotStale ==
    ASSUME IInv, TypeOK', NEW i \in Subs, OnlySlot(i), stale' = stale
    PROVE  StaleOK'
PROOF
<1>0. /\ AheadOf(stale, sub', head) = StaleAhead /\ head' = head /\ StaleAhead \subseteq Subs
      /\ snap' = snap /\ used' = used /\ early' = early
  BY SlotReach DEF OnlySlot
<1>1. StaleAhead' = StaleAhead
  BY <1>0 DEF StaleAhead
<1>2. ASSUME NEW j \in StaleAhead
      PROVE  sub'[j].alive \notin {"FREE", "LOADED"} /\ sub'[j].opening \in early' \cup {0}
  <2>1. sub[j].alive \notin {"FREE", "LOADED"} /\ sub[j].opening \in early \cup {0} /\ j \in Subs
    BY <1>0 DEF IInv, StaleOK
  <2>2. sub'[j] = sub[j] \/ SlotChange(sub[j], sub'[j])
    BY <2>1 DEF OnlySlot
  <2> QED BY <2>1, <2>2, <1>0 DEF SlotChange
<1> QED BY <1>0, <1>1, <1>2 DEF IInv, StaleOK

\* the other subscribers do not notice
LEMMA SlotOthers ==
    ASSUME IInv, TypeOK', NEW i \in Subs, OnlySlot(i), walk' = walk, SubInv(sub[i], i \in Ahead)'
    PROVE  SubOK'
PROOF
<1>0. Ahead' = Ahead
  BY SlotWalk, SMTT(60)
<1>1. ASSUME NEW j \in Subs, j # i
      PROVE  SubInv(sub[j], j \in Ahead)'
  <2>1. /\ sub'[j] = sub[j] /\ snap' = snap /\ hist' = hist /\ done' = done /\ used' = used /\ early' = early
    BY <1>1 DEF OnlySlot
  <2>2. SubInv(sub[j], j \in Ahead)
    BY DEF IInv, SubOK
  <2> QED BY <1>0, <2>1, <2>2 DEF SubInv, SlotOK, Told, OfKept, StreamOK, CleanOK, Pushed, Live, Waiting, Over, Finished
<1> QED BY <1>1 DEF SubOK

LEMMA SlotStep ==
    ASSUME IInv, TypeOK', SnapOK', NEW i \in Subs, OnlySlot(i), walk' = walk, stale' = stale,
           SubInv(sub[i], i \in Ahead)'
    PROVE  IInv'
PROOF
  BY SlotChain, SlotWalk, SlotStale, SlotOthers DEF IInv

-----------------------------------------------------------------------------
(* The worker's steps, one by one.                                         *)

\* what a subscriber's history and fields are
LEMMA SubFacts ==
    ASSUME IInv, NEW i \in Subs
    PROVE  /\ sub[i] \in SubRec /\ SubInv(sub[i], i \in Ahead)
           /\ sub[i].opening > 0 => Pushed(sub[i]) \in Seq(Nat) /\ Len(Pushed(sub[i])) \in Nat
PROOF
<1>1. sub[i] \in SubRec /\ SubInv(sub[i], i \in Ahead) /\ hist \in [1..MaxOpens -> [Seqs -> Seq(Nat)]]
  BY DEF IInv, TypeOK, SubOK
<1>2. ASSUME sub[i].opening > 0
      PROVE  Pushed(sub[i]) \in Seq(Nat)
  <2>1. sub[i].alive \in {"LOADED", "ALIVE"}
    BY <1>1, <1>2 DEF SubInv, SlotOK
  <2>2. sub[i].opening \in 1..used.opens /\ sub[i].want \in Seqs
    BY <1>1, <2>1 DEF SubInv, SlotOK
  <2>3. used.opens \in 1..MaxOpens
    BY DEF IInv, TypeOK
  <2>4. sub[i].opening \in 1..MaxOpens
    BY <2>2, <2>3, ConstantTypes
  <2> QED BY <1>1, <2>2, <2>4 DEF Pushed
<1> QED BY <1>1, <1>2, LenProperties

LEMMA LoadStep ==
    ASSUME IInv, TypeOK', SnapOK', NEW i \in Subs, SubscribeLoad(i)
    PROVE  IInv'
PROOF
<1>0. /\ sub[i].alive = "FREE" /\ snap # NoSnap
      /\ UNCHANGED <<snap, head, floor, walk, hist, done, used, stale, early>>
  BY DEF SubscribeLoad
<1>1. PICK p \in Protos : sub' = [sub EXCEPT ![i] = [FreeSub EXCEPT !.alive = "LOADED", !.proto = p,
                                                    !.want = snap.msn, !.opening = used.opens]]
  BY Zenon DEF SubscribeLoad
<1>2. PICK r : r = sub'[i]
  OBVIOUS
<1>3. /\ r.alive = "LOADED" /\ r.opening = used.opens /\ r.want = snap.msn /\ r.got = <<>> /\ r.ring = <<>>
      /\ r.sent = 0 /\ r.attached = FALSE /\ r.ended = FALSE /\ r.end = "open"
      /\ r.errored = FALSE /\ r.read = "idle"
  BY <1>1, <1>2 DEF FreeSub, IInv, TypeOK
<1>4. OnlySlot(i)
  BY <1>0, <1>1, <1>2, <1>3 DEF OnlySlot, SlotChange, IInv, TypeOK
<1>5. used.opens \in Nat \ {0} /\ snap.msn \in Seqs /\ used.opens \in 1..MaxOpens
  BY <1>0, SnapFacts
<1>6. PICK P \in Seq(Nat) : P = hist[used.opens][snap.msn]
  BY <1>5 DEF IInv, TypeOK
<1>7. SlotOK(r)'
  BY <1>0, <1>3, <1>5 DEF SlotOK
<1>8. StreamOK(r, i \in Ahead)'
  <2>1. Pushed(r)' = P /\ Len(P) \in Nat /\ SubSeq(P, 1, 0) = <<>> /\ <<>> \o <<>> = <<>>
    BY <1>0, <1>3, <1>6, LenProperties DEF Pushed
  <2> QED BY <2>1, <1>3 DEF StreamOK, CleanOK, Live, Waiting, Finished
<1>9. SubInv(sub[i], i \in Ahead)'
  <2>1. PICK k : k = (i \in Ahead')
    OBVIOUS
  <2>2. StreamOK(r, k)' /\ SlotOK(r)'
    BY <2>1, <1>7, <1>8
  <2>3. Told(r, k)'
    BY <1>3 DEF Told, Waiting
  <2>4. SubInv(r, k)'
    BY <2>2, <2>3 DEF SubInv
  <2> QED BY <2>1, <2>4, <1>2
<1> QED BY <1>0, <1>4, <1>9, SlotStep

LEMMA CloseStep ==
    ASSUME IInv, TypeOK', SnapOK', NEW i \in Subs, dash_lldash_sub_close(i)
    PROVE  IInv'
PROOF
<1>0. /\ sub[i].alive = "ALIVE"
      /\ sub' = [sub EXCEPT ![i] = [FreeSub EXCEPT !.alive = "CLOSING", !.next = sub[i].next]]
      /\ UNCHANGED <<snap, head, floor, walk, hist, done, used, stale, early>>
  BY DEF dash_lldash_sub_close
<1>1. PICK r : r = sub'[i]
  OBVIOUS
<1>2. /\ r.alive = "CLOSING" /\ r.opening = 0 /\ r.got = <<>> /\ r.ring = <<>> /\ r.next = sub[i].next
      /\ r.sent = 0 /\ r.attached = FALSE /\ r.ended = FALSE /\ r.end = "open"
      /\ r.errored = FALSE /\ r.read = "idle"
  BY <1>0, <1>1 DEF FreeSub, IInv, TypeOK
<1>3. OnlySlot(i)
  BY <1>0, <1>1, <1>2 DEF OnlySlot, SlotChange, IInv, TypeOK
<1>4. SubInv(sub[i], i \in Ahead)'
  BY <1>1, <1>2 DEF SubInv, SlotOK, Told, Waiting, OfKept
<1> QED BY <1>0, <1>3, <1>4, SlotStep

\* a read moves parts from the ring to the client, or settles the end
SameStream(s, r) ==
    /\ r.alive = s.alive /\ r.opening = s.opening /\ r.want = s.want /\ r.proto = s.proto
    /\ r.attached = s.attached /\ r.ended = s.ended /\ r.aborted = s.aborted /\ r.errored = s.errored
    /\ r.sent = s.sent /\ r.got \o r.ring = s.got \o s.ring
    /\ s.attached \/ (r.got = s.got /\ r.ring = s.ring /\ r.read = s.read)
    /\ r.ring = s.ring \/ r.ring = <<>>
    /\ r.read # "idle" /\ r.errored => r.late
    /\ r.read = "end" /\ r.ring # <<>> => r.late
    /\ \/ r.end = s.end /\ (s.end = "clean" => r.got = s.got /\ r.ring = s.ring /\ r.late = s.late)
       \/ r.end = "killed"
       \/ r.end = "clean" /\ s.proto = "H3" /\ s.errored
       \/ /\ r.end = "clean" /\ s.ended /\ s.proto # "H1" /\ r.got = s.got /\ r.ring = s.ring
          /\ s.ring = <<>> \/ r.late
          /\ s.errored => r.late

LEMMA SelfStream ==
    ASSUME NEW s, SlotOK(s)
    PROVE  SameStream(s, s)
PROOF
  BY DEF SlotOK, SameStream

\* a response that ended as if complete, after such a read
LEMMA ReadClean ==
    ASSUME NEW s \in SubRec, NEW r, NEW h, Pushed(s) \in Seq(Nat), SlotOK(s), StreamOK(s, h), SameStream(s, r),
           UNCHANGED <<snap, hist, used>>
    PROVE  CleanOK(r)'
PROOF
<1>1. SUFFICES ASSUME r.end = "clean" PROVE CleanOK(r)'
  BY DEF CleanOK
<1>2. PICK P \in Seq(Nat) : P = Pushed(s)
  OBVIOUS
<1>3. Pushed(r)' = P
  BY <1>2 DEF Pushed, SameStream
<1>4. Over(r)' <=> Over(s)
  BY DEF Over, SameStream
<1>5. CASE r.end = s.end /\ (s.end = "clean" => r.got = s.got /\ r.ring = s.ring /\ r.late = s.late)
  <2>1. /\ CleanOK(s) /\ s.end = "clean" /\ r.got = s.got /\ r.ring = s.ring /\ r.late = s.late
        /\ r.errored = s.errored /\ r.proto = s.proto
    BY <1>1, <1>5 DEF StreamOK, SameStream
  <2>2. \/ s.got = P /\ Over(s)
        \/ s.late /\ s.errored
        \/ s.late /\ s.got \o s.ring = P /\ Over(s)
        \/ s.proto = "H3" /\ s.errored
    BY <2>1, <1>2 DEF CleanOK
  <2> QED BY <2>1, <2>2, <1>3, <1>4 DEF CleanOK
<1>6. CASE s.proto = "H3" /\ s.errored
  BY <1>6 DEF CleanOK, SameStream
<1>7. CASE /\ s.ended /\ s.proto # "H1" /\ r.got = s.got /\ r.ring = s.ring
           /\ s.ring = <<>> \/ r.late
           /\ s.errored => r.late
  <2>1. CASE s.errored
    BY <2>1, <1>7 DEF CleanOK, SameStream
  <2>2. CASE ~s.errored
    <3>1. Finished(s)
      BY <2>2, <1>7 DEF Finished
    <3>2. s.sent = Len(P) /\ Over(s) /\ s.got \o s.ring = SubSeq(P, 1, s.sent)
      BY <3>1, <2>2, <1>2 DEF StreamOK
    <3>3. s.got \o s.ring = P
      BY <3>2, SubSeqFull
    <3>4. s.ring = <<>> => s.got = P
      <4>1. PICK g \in Seq(Nat) : g = s.got
        BY DEF SubRec
      <4>2. g \o <<>> = g
        BY ConcatEmptySeq
      <4> QED BY <3>3, <4>1, <4>2
    <3> QED BY <3>2, <3>3, <3>4, <1>3, <1>4, <1>7 DEF CleanOK
  <2> QED BY <2>1, <2>2
<1> QED BY <1>1, <1>5, <1>6, <1>7 DEF SameStream

LEMMA ReadInv ==
    ASSUME NEW s \in SubRec, NEW r, NEW h, NEW k, h => k, SubInv(s, h), SameStream(s, r),
           s.opening > 0 => Pushed(s) \in Seq(Nat),
           UNCHANGED <<snap, walk, hist, done, used, early>>
    PROVE  SubInv(r, k)'
PROOF
<1>0. SlotOK(s) /\ Told(s, h)
  BY DEF SubInv
<1>1. SlotOK(r)'
  <2>1. /\ r.alive \in {"LOADED", "ALIVE"} => r.opening \in 1..used'.opens /\ r.want \in Seqs
        /\ r.alive \notin {"LOADED", "ALIVE"} => r.opening = 0 /\ ~r.attached
        /\ r.alive = "LOADED" => ~r.attached /\ r.opening = used'.opens /\ snap' # NoSnap
    BY <1>0 DEF SlotOK, SameStream
  <2>2. /\ ~r.attached => /\ r.got = <<>> /\ r.ring = <<>> /\ r.sent = 0 /\ ~r.ended
                          /\ ~r.errored /\ r.read = "idle"
        /\ r.proto = "H1" => r.ring = <<>> /\ ~r.errored
    BY <1>0 DEF SlotOK, SameStream
  <2>3. r.end = "clean" => r.ended \/ (r.proto = "H3" /\ r.errored)
    BY <1>0 DEF SlotOK, SameStream
  <2> QED BY <2>1, <2>2, <2>3 DEF SlotOK, SameStream
<1>5. Waiting(r) <=> Waiting(s)
  BY DEF Waiting, SameStream
<1>6. Told(r, k)'
  BY <1>0, <1>5 DEF Told, Waiting, SameStream
<1>2. ASSUME OfKept(r)'
      PROVE  StreamOK(r, k)'
  <2>0. OfKept(s) /\ s.opening > 0
    BY <1>2 DEF OfKept, SameStream
  <2>1. StreamOK(s, h)
    BY <2>0 DEF SubInv
  <2>2. Pushed(r)' = Pushed(s)
    BY DEF Pushed, SameStream
  <2>3. PICK P : P = Pushed(s)
    OBVIOUS
  <2>4. r.sent <= Len(P) /\ (~r.errored => r.got \o r.ring = SubSeq(P, 1, r.sent))
    BY <2>1, <2>3 DEF StreamOK, SameStream
  <2>6. Live(r) <=> Live(s)
    BY <1>5 DEF Live, SameStream
  <2>7. Finished(r) => Finished(s)
    <3>1. s.proto = "H1" /\ r.end = "clean" => s.end = "clean"
      BY DEF SameStream
    <3> QED BY <3>1 DEF Finished, SameStream
  <2>8. Over(r)' <=> Over(s)
    BY DEF Over, SameStream
  <2>9. Live(r) => r.opening = used'.opens /\ (snap' # NoSnap \/ (walk'.kind = "closing" /\ k))
    BY <2>1, <2>6 DEF StreamOK, SameStream
  <2>10. Waiting(r) => \/ r.sent = Len(P)
                       \/ walk'.kind = "part" /\ walk'.seq = r.want /\ k /\ r.sent = walk'.part
    BY <2>1, <2>3, <1>5 DEF StreamOK, SameStream
  <2>12. Finished(r) => r.sent = Len(P) /\ Over(r)'
    BY <2>1, <2>3, <2>7, <2>8 DEF StreamOK, SameStream
  <2>13. Live(r)' = Live(r) /\ Waiting(r)' = Waiting(r) /\ Finished(r)' = Finished(r)
    BY DEF Live, Waiting, Finished
  <2>14. CleanOK(r)'
    BY <2>0, <2>1, <1>0, ReadClean
  <2> QED BY <2>2, <2>3, <2>4, <2>9, <2>10, <2>12, <2>13, <2>14 DEF StreamOK
<1> QED BY <1>1, <1>6, <1>2 DEF SubInv

\* the three looks of the read callback
LEMMA ReadStep ==
    ASSUME IInv, TypeOK', SnapOK', NEW i \in Subs, SameStream(sub[i], sub'[i]), sub'[i].next = sub[i].next,
           \A j \in Subs \ {i} : sub'[j] = sub[j],
           UNCHANGED <<snap, head, floor, walk, hist, done, used, stale, early>>
    PROVE  IInv'
PROOF
<1>1. OnlySlot(i)
  BY DEF OnlySlot, SlotChange, SameStream
<1>2. PICK s \in SubRec : s = sub[i]
  BY SubFacts
<1>3. PICK r, h : r = sub'[i] /\ h = (i \in Ahead)
  OBVIOUS
<1>4. SubInv(s, h) /\ Ahead' = Ahead /\ (s.opening > 0 => Pushed(s) \in Seq(Nat)) /\ SameStream(s, r)
  BY <1>1, <1>2, <1>3, SubFacts, SlotWalk
<1>5. SubInv(r, h)'
  BY <1>4, ReadInv
<1>6. SubInv(sub[i], i \in Ahead)'
  BY <1>3, <1>4, <1>5
<1> QED BY <1>1, <1>6, SlotStep

LEMMA ReadErroredStep ==
    ASSUME IInv, TypeOK', SnapOK', NEW i \in Subs, ReadErrored(i)
    PROVE  IInv'
PROOF
<1>0. /\ sub \in [Subs -> SubRec] /\ sub[i].end = "open" /\ sub[i].read = "idle" /\ sub[i].attached
      /\ sub[i].proto \in {"H1", "H2", "H3"} /\ sub[i].proto # "H1"
      /\ UNCHANGED <<snap, head, floor, walk, hist, done, used, stale, early>>
  BY DEF ReadErrored, Reading, IInv, TypeOK, SubRec
<1>1. PICK s \in SubRec : s = sub[i]
  BY <1>0
<1>2. PICK r : r = sub'[i]
  OBVIOUS
<1>3. CASE sub[i].errored /\ sub' = [sub EXCEPT ![i].end = IF sub[i].proto = "H2" THEN "killed" ELSE "clean"]
  <2>1. PICK v : v = IF s.proto = "H2" THEN "killed" ELSE "clean"
    OBVIOUS
  <2>2. r = [s EXCEPT !.end = v] /\ \A j \in Subs \ {i} : sub'[j] = sub[j]
    BY <2>1, <1>0, <1>1, <1>2, <1>3
  <2>3. /\ r.alive = s.alive /\ r.next = s.next /\ r.opening = s.opening /\ r.want = s.want
        /\ r.attached = s.attached /\ r.ended = s.ended /\ r.aborted = s.aborted /\ r.errored = s.errored
        /\ r.sent = s.sent /\ r.got = s.got /\ r.ring = s.ring /\ r.proto = s.proto
        /\ r.read = "idle" /\ r.end = v /\ s.errored
    BY <2>2, <1>0, <1>1, <1>3 DEF SubRec
  <2>4. v = "killed" \/ (v = "clean" /\ s.proto = "H3")
    BY <2>1, <1>0, <1>1
  <2>5. SameStream(s, r)
    BY <2>3, <2>4, <1>0, <1>1 DEF SameStream
  <2>6. SameStream(sub[i], sub'[i]) /\ sub'[i].next = sub[i].next
    BY <2>3, <2>5, <1>1, <1>2
  <2> QED BY <2>2, <2>6, <1>0, ReadStep
<1>4. CASE ~sub[i].errored /\ sub' = [sub EXCEPT ![i].read = "ring"]
  <2>1. r = [s EXCEPT !.read = "ring"] /\ \A j \in Subs \ {i} : sub'[j] = sub[j]
    BY <1>0, <1>1, <1>2, <1>4
  <2>2. /\ r.alive = s.alive /\ r.next = s.next /\ r.opening = s.opening /\ r.want = s.want
        /\ r.attached = s.attached /\ r.ended = s.ended /\ r.aborted = s.aborted /\ r.errored = s.errored
        /\ r.sent = s.sent /\ r.got = s.got /\ r.ring = s.ring /\ r.proto = s.proto
        /\ r.read = "ring" /\ r.end = s.end /\ ~s.errored
    BY <2>1, <1>0, <1>1, <1>4 DEF SubRec
  <2>3. SameStream(s, r)
    BY <2>2, <1>0, <1>1 DEF SameStream
  <2>4. SameStream(sub[i], sub'[i]) /\ sub'[i].next = sub[i].next
    BY <2>2, <2>3, <1>1, <1>2
  <2> QED BY <2>1, <2>4, <1>0, ReadStep
<1> QED BY <1>3, <1>4 DEF ReadErrored

LEMMA ReadRingStep ==
    ASSUME IInv, TypeOK', SnapOK', NEW i \in Subs, ReadRing(i)
    PROVE  IInv'
PROOF
<1>0. /\ sub' = [sub EXCEPT ![i].read = IF sub[i].ring = <<>> THEN "end" ELSE "idle",
                            ![i].late = @ /\ sub[i].ring = <<>>,
                            ![i].got = @ \o sub[i].ring, ![i].ring = <<>>]
      /\ UNCHANGED <<snap, head, floor, walk, hist, done, used, stale, early>>
      /\ sub[i].attached /\ sub[i].end = "open" /\ sub[i].read = "ring" /\ sub \in [Subs -> SubRec]
  BY DEF ReadRing, Reading, IInv, TypeOK
<1>1. PICK s \in SubRec : s = sub[i]
  BY SubFacts
<1>2. PICK r, v, g, l : /\ r = sub'[i] /\ v = (IF s.ring = <<>> THEN "end" ELSE "idle") /\ g = s.got \o s.ring
                        /\ l = (s.late /\ s.ring = <<>>)
  OBVIOUS
<1>3. r = [s EXCEPT !.read = v, !.late = l, !.got = g, !.ring = <<>>] /\ \A j \in Subs \ {i} : sub'[j] = sub[j]
  BY <1>0, <1>1, <1>2
<1>4. /\ r.alive = s.alive /\ r.next = s.next /\ r.opening = s.opening /\ r.want = s.want
      /\ r.attached = s.attached /\ r.ended = s.ended /\ r.aborted = s.aborted /\ r.errored = s.errored
      /\ r.sent = s.sent /\ r.proto = s.proto /\ r.end = s.end /\ r.late = l /\ r.read = v
      /\ r.got = s.got \o s.ring /\ r.ring = <<>>
  BY <1>2, <1>3 DEF SubRec
<1>5. r.got \o r.ring = s.got \o s.ring
  <2>1. PICK q \in Seq(Nat) : q = s.got \o s.ring
    BY ConcatProperties DEF SubRec
  <2>2. q \o <<>> = q
    BY ConcatEmptySeq
  <2> QED BY <2>1, <2>2, <1>4
<1>6. r.read # "idle" /\ r.errored => r.late
  <2>1. SlotOK(s)
    BY <1>1, SubFacts DEF SubInv
  <2>2. s.errored => s.late
    BY <2>1, <1>0, <1>1 DEF SlotOK
  <2>3. v # "idle" => s.ring = <<>>
    BY <1>2
  <2> QED BY <2>2, <2>3, <1>2, <1>4
<1>7. SameStream(s, r)
  BY <1>0, <1>1, <1>4, <1>5, <1>6 DEF SameStream
<1>8. SameStream(sub[i], sub'[i]) /\ sub'[i].next = sub[i].next
  BY <1>1, <1>2, <1>4, <1>7
<1> QED BY <1>0, <1>3, <1>8, ReadStep

LEMMA ReadEndStep ==
    ASSUME IInv, TypeOK', SnapOK', NEW i \in Subs, ReadEnd(i)
    PROVE  IInv'
PROOF
<1>0. /\ sub' = [sub EXCEPT ![i].read = "idle", ![i].late = @ /\ sub[i].ended,
                            ![i].end = IF sub[i].ended THEN "clean" ELSE @]
      /\ UNCHANGED <<snap, head, floor, walk, hist, done, used, stale, early>>
      /\ sub[i].proto # "H1" /\ sub[i].attached /\ sub[i].end = "open" /\ sub[i].read = "end"
      /\ sub \in [Subs -> SubRec]
  BY DEF ReadEnd, Reading, IInv, TypeOK
<1>1. PICK s \in SubRec : s = sub[i]
  BY SubFacts
<1>2. PICK r, v, l : r = sub'[i] /\ v = (IF s.ended THEN "clean" ELSE s.end) /\ l = (s.late /\ s.ended)
  OBVIOUS
<1>3. r = [s EXCEPT !.read = "idle", !.late = l, !.end = v] /\ \A j \in Subs \ {i} : sub'[j] = sub[j]
  BY <1>0, <1>1, <1>2
<1>4. /\ r.alive = s.alive /\ r.next = s.next /\ r.opening = s.opening /\ r.want = s.want
      /\ r.attached = s.attached /\ r.ended = s.ended /\ r.aborted = s.aborted /\ r.errored = s.errored
      /\ r.sent = s.sent /\ r.got = s.got /\ r.ring = s.ring /\ r.proto = s.proto /\ r.late = l
      /\ r.read = "idle" /\ r.end = v
  BY <1>3 DEF SubRec
<1>5. (s.ring = <<>> \/ s.late) /\ (s.errored => s.late)
  <2>1. SlotOK(s)
    BY <1>1, SubFacts DEF SubInv
  <2> QED BY <2>1, <1>0, <1>1 DEF SlotOK
<1>6. (s.ended /\ v = "clean" /\ (s.late => l)) \/ (~s.ended /\ v = s.end)
  BY <1>2
<1>7. SameStream(s, r)
  BY <1>0, <1>1, <1>4, <1>5, <1>6 DEF SameStream
<1>8. SameStream(sub[i], sub'[i]) /\ sub'[i].next = sub[i].next
  BY <1>1, <1>2, <1>4, <1>7
<1> QED BY <1>0, <1>3, <1>8, ReadStep

-----------------------------------------------------------------------------
(* A subscriber attaches and is sent what it missed.                       *)

\* nothing was sent yet
Untouched(s) == s.got = <<>> /\ s.ring = <<>> /\ s.sent = 0

LEMMA EmitAllFresh ==
    ASSUME NEW s \in SubRec, Untouched(s), NEW parts \in Seq(Nat)
    PROVE  LET r == EmitAll(s, parts)
           IN  /\ r.sent = Len(parts)
               /\ ~r.errored => r.got \o r.ring = parts
               /\ r.proto = "H1" => r.ring = <<>>
PROOF
<1> DEFINE rest == SubSeq(parts, s.sent + 1, Len(parts))
           room == RingCap - Len(s.ring)
           now == IF Len(parts) > s.sent THEN Len(parts) ELSE s.sent
           r == EmitAll(s, parts)
<1>0. Len(parts) \in Nat
  BY LenProperties
<1>1. rest = parts
  <2>1. s.sent + 1 = 1
    BY DEF Untouched
  <2> QED BY <2>1, SubSeqFull
<1>2. now = Len(parts)
  BY <1>0 DEF Untouched
<1>3. <<>> \o parts = parts /\ parts \o <<>> = parts
  BY ConcatEmptySeq
<1>4. CASE s.proto = "H1"
  <2>1. r = [s EXCEPT !.got = s.got \o rest, !.sent = now]
    BY <1>4 DEF EmitAll
  <2>2. s.got \o rest = parts
    BY <1>1, <1>3 DEF Untouched
  <2>3. r = [s EXCEPT !.got = parts, !.sent = Len(parts)]
    BY <2>1, <2>2, <1>2
  <2>4. r.got = parts /\ r.ring = <<>> /\ r.sent = Len(parts)
    BY <2>3 DEF SubRec, Untouched
  <2> QED BY <2>4, <1>3
<1>5. CASE s.proto # "H1" /\ Len(rest) <= room
  <2>1. r = [s EXCEPT !.ring = s.ring \o rest, !.sent = now]
    BY <1>5 DEF EmitAll
  <2>2. s.ring \o rest = parts
    BY <1>1, <1>3 DEF Untouched
  <2>3. r = [s EXCEPT !.ring = parts, !.sent = Len(parts)]
    BY <2>1, <2>2, <1>2
  <2>4. r.got = <<>> /\ r.ring = parts /\ r.sent = Len(parts) /\ r.proto = s.proto
    BY <2>3 DEF SubRec, Untouched
  <2> QED BY <2>4, <1>3, <1>5
<1>6. CASE s.proto # "H1" /\ ~(Len(rest) <= room)
  <2>1. PICK f : f = s.ring \o SubSeq(rest, 1, room)
    OBVIOUS
  <2>2. r = [s EXCEPT !.ring = f, !.errored = TRUE, !.sent = Len(parts)]
    BY <1>2, <1>6, <2>1 DEF EmitAll
  <2>3. r.errored = TRUE /\ r.sent = Len(parts) /\ r.proto = s.proto
    BY <2>2 DEF SubRec
  <2> QED BY <2>3, <1>6
<1> QED BY <1>4, <1>5, <1>6

\* a stream that is killed owes its client nothing
LEMMA AbortInv ==
    ASSUME NEW s \in SubRec, NEW h, s.alive = "ALIVE", s.opening \in 1..used.opens, s.want \in Seqs,
           s.attached, Untouched(s), ~s.ended, s.end # "clean", s.read = "idle", ~s.errored,
           Pushed(s) \in Seq(Nat)
    PROVE  SubInv(sub_abort(s), h)
PROOF
<1>1. PICK r \in SubRec : r = sub_abort(s)
  BY EndType
<1>2. Keeps(s, r)
  BY <1>1, EndKeeps
<1>3. /\ r.ended /\ r.got = <<>> /\ r.ring = <<>> /\ r.sent = 0 /\ r.end # "clean"
      /\ \/ r.errored /\ r.proto # "H1"
         \/ r.proto = "H1" /\ r.end = "killed" /\ ~r.errored
  <2>1. CASE s.proto # "H1"
    <3>1. PICK l : l = Late(s)
      OBVIOUS
    <3>2. r = [s EXCEPT !.ended = TRUE, !.errored = TRUE, !.late = l]
      BY <2>1, <3>1, <1>1 DEF sub_abort
    <3> QED BY <2>1, <3>2 DEF SubRec, Untouched
  <2>2. CASE s.proto = "H1"
    <3>1. r = [s EXCEPT !.ended = TRUE, !.end = "killed"]
      BY <2>2, <1>1 DEF sub_abort
    <3> QED BY <2>2, <3>1 DEF SubRec, Untouched
  <2> QED BY <2>1, <2>2
<1>4. SlotOK(r)
  BY <1>2, <1>3 DEF SlotOK, Keeps
<1>5. Pushed(r) = Pushed(s) /\ Len(Pushed(s)) \in Nat /\ SubSeq(Pushed(s), 1, 0) = <<>> /\ <<>> \o <<>> = <<>>
  BY <1>2, LenProperties DEF Pushed, Keeps
<1>6. ~Waiting(r) /\ ~Live(r) /\ ~Finished(r)
  BY <1>2, <1>3 DEF Waiting, Live, Finished, Keeps
<1>7. StreamOK(r, h)
  BY <1>3, <1>5, <1>6 DEF StreamOK, CleanOK
<1>8. Told(r, h)
  BY <1>6 DEF Told
<1> QED BY <1>1, <1>4, <1>7, <1>8 DEF SubInv

LEMMA AttachInv ==
    ASSUME IInv, NEW i \in Subs, sub[i].alive = "ALIVE", ~sub[i].attached
    PROVE  SubInv(sub_catch_up([sub[i] EXCEPT !.attached = TRUE]), i \in Ahead)
PROOF
<1>0. /\ sub[i] \in SubRec /\ SubInv(sub[i], i \in Ahead) /\ sub[i].opening \in 1..used.opens /\ sub[i].want \in Seqs
      /\ sub[i].opening > 0
  BY SubFacts, SnapFacts DEF SubInv, SlotOK
<1>1. PICK s \in SubRec : s = [sub[i] EXCEPT !.attached = TRUE]
  BY <1>0 DEF SubRec
<1>2. /\ s.alive = "ALIVE" /\ s.opening = sub[i].opening /\ s.want = sub[i].want /\ s.attached
      /\ s.aborted = sub[i].aborted /\ ~s.ended /\ s.end # "clean" /\ Untouched(s)
      /\ ~s.errored /\ s.read = "idle"
  <2>1. /\ s.alive = "ALIVE" /\ s.opening = sub[i].opening /\ s.want = sub[i].want /\ s.attached
        /\ s.aborted = sub[i].aborted /\ s.ended = sub[i].ended /\ s.end = sub[i].end /\ s.errored = sub[i].errored
        /\ s.read = sub[i].read /\ s.got = sub[i].got /\ s.ring = sub[i].ring /\ s.sent = sub[i].sent
    BY <1>0, <1>1 DEF SubRec
  <2>2. SlotOK(sub[i])
    BY <1>0 DEF SubInv
  <2>3. ~sub[i].ended /\ ~sub[i].errored /\ sub[i].read = "idle" /\ sub[i].end # "clean"
    BY <2>2 DEF SlotOK
  <2> QED BY <2>1, <2>2, <2>3 DEF SlotOK, Untouched
<1>3. Pushed(s) = Pushed(sub[i]) /\ Pushed(s) \in Seq(Nat) /\ Len(Pushed(s)) \in Nat
  BY <1>0, <1>2, SubFacts DEF Pushed
<1>4. PICK r : r = sub_catch_up(s)
  OBVIOUS
<1> SUFFICES SubInv(r, i \in Ahead)
  BY <1>1, <1>4
<1>5. ASSUME r = sub_abort(s)
      PROVE  SubInv(r, i \in Ahead)
  BY <1>0, <1>2, <1>3, <1>5, AbortInv
<1>6. CASE s.aborted \/ snap = NoSnap
  BY <1>1, <1>4, <1>5, <1>6 DEF sub_catch_up
<1>7. CASE ~(s.aborted \/ snap = NoSnap)
  <2>0. snap # NoSnap /\ snap \in SnapRec /\ SnapShows /\ snap.live \in Seq(Nat) /\ snap.msn \in Nat /\ snap.oldest \in Nat
    BY <1>7, SnapFacts
  <2>1. (OfKept(s) => s.opening = used.opens) /\ s.want \in Nat /\ used.opens \in Nat \ {0}
    <3>1. Live(sub[i])
      BY <1>2, <1>7 DEF Live
    <3>2. OfKept(s) => s.opening = used.opens
      BY <3>1, <1>0, <1>2 DEF SubInv, StreamOK, OfKept
    <3>3. s.want \in Nat
      BY DEF SubRec
    <3>4. used.opens \in Nat \ {0}
      BY SnapFacts
    <3> QED BY <3>2, <3>3, <3>4
  <2>2. CASE snap.msn = s.want
    <3>1. r = EmitAll(s, snap.live)
      BY <1>4, <1>7, <2>2 DEF sub_catch_up
    <3>3. Keeps(s, r) /\ r.ended = s.ended /\ r.end = s.end /\ (r.proto = "H1" => ~r.errored)
      <4>1. Keeps(s, r) /\ r.ended = s.ended /\ r.end = s.end /\ (s.proto = "H1" => r.errored = s.errored)
        BY <3>1, EmitAllKeeps
      <4>2. r.proto = s.proto
        BY <4>1 DEF Keeps
      <4> QED BY <4>1, <4>2, <1>2
    <3>4. /\ r.sent = Len(snap.live) /\ (~r.errored => r.got \o r.ring = snap.live)
          /\ (r.proto = "H1" => r.ring = <<>>)
      BY <3>1, <2>0, <1>2, EmitAllFresh
    <3>5. SlotOK(r)
      BY <3>3, <3>4, <1>0, <1>2 DEF SlotOK, Keeps
    <3>7. <<r.opening, r.want>> \notin done
      <4>1. PICK o \in Nat, q \in Nat : o = s.opening /\ q = snap.msn
        BY <2>0 DEF SubRec
      <4>2. r.opening = o /\ r.want = q /\ o <= used.opens /\ q = snap.next /\ floor <= q
        BY <4>1, <3>3, <2>0, <2>1, <2>2, <1>0, <1>2 DEF Keeps, SnapShows
      <4>3. CASE o = used.opens
        BY <4>1, <4>2, <4>3, <2>0 DEF SnapShows
      <4>4. CASE o < used.opens
        <5>1. <<o, q>> \in done => q < floor
          BY <4>4 DEF IInv, SnapOK
        <5>2. ~(q < floor)
          BY <4>2, SnapFacts
        <5> QED BY <4>2, <5>1, <5>2
      <4> QED BY <4>2, <4>3, <4>4, <2>1
    <3>8. Told(r, i \in Ahead)
      BY <3>7 DEF Told
    <3>9. ASSUME OfKept(r)
          PROVE  StreamOK(r, i \in Ahead)
      <4>0. s.opening = used.opens
        BY <3>3, <3>9, <2>1 DEF OfKept, Keeps
      <4>1. Pushed(s) = snap.live
        BY <4>0, <2>0, <2>2 DEF SnapShows, Pushed
      <4>2. Pushed(r) = snap.live /\ SubSeq(snap.live, 1, Len(snap.live)) = snap.live /\ Len(snap.live) \in Nat
        BY <4>1, <3>3, <2>0, SubSeqFull, LenProperties DEF Pushed, Keeps
      <4>3. r.opening = used.opens /\ ~Finished(r) /\ r.end # "clean"
        BY <4>0, <3>3, <1>2 DEF Finished, Keeps
      <4>4. r.sent = Len(Pushed(r)) /\ r.sent <= Len(Pushed(r))
        BY <3>4, <4>2
      <4>5. ~r.errored => r.got \o r.ring = SubSeq(Pushed(r), 1, r.sent)
        BY <3>4, <4>2
      <4> QED BY <4>3, <4>4, <4>5, <2>0 DEF StreamOK, CleanOK
    <3> QED BY <3>5, <3>8, <3>9 DEF SubInv
  <2>3. CASE snap.msn # s.want /\ InWindow(snap, s.want)
    <3>1. PICK p : p = SegAt(snap, s.want).data
      OBVIOUS
    <3>2. p \in Seq(Nat) /\ s.want - snap.oldest + 1 \in 1..Len(snap.segs)
      BY <2>0, <2>1, <2>3, <3>1, WindowData
    <3>3. OfKept(s) => Pushed(s) = p
      <4>1. PICK k \in 1..Len(snap.segs) : k = s.want - snap.oldest + 1
        BY <3>2
      <4>2. snap.oldest + k - 1 = s.want
        <5>1. PICK o \in Nat, q \in Nat : o = snap.oldest /\ q = s.want
          BY <2>0, <2>1
        <5>2. k = q - o + 1
          BY <4>1, <5>1
        <5> QED BY <5>1, <5>2
      <4>3. snap.segs[k].data = hist[used.opens][s.want]
        BY <4>2, <2>0 DEF SnapShows
      <4> QED BY <4>1, <4>3, <3>1, <2>1 DEF Pushed, SegAt
    <3>4. s.want < snap.msn
      <4>1. PICK n \in Nat : n = Len(snap.segs)
        BY <2>0, LenProperties DEF SnapRec
      <4>2. s.want < snap.oldest + n /\ snap.oldest + n = snap.msn
        BY <4>1, <2>0, <2>3 DEF InWindow, SnapShows
      <4> QED BY <4>2
    <3>5. PICK e \in SubRec : e = EmitAll(s, p)
      BY <3>2, EmitAllType
    <3>6. Keeps(s, e) /\ e.ended = s.ended /\ e.end = s.end /\ (e.proto = "H1" => ~e.errored)
      <4>1. Keeps(s, e) /\ e.ended = s.ended /\ e.end = s.end /\ (s.proto = "H1" => e.errored = s.errored)
        BY <3>5, EmitAllKeeps
      <4>2. e.proto = s.proto
        BY <4>1 DEF Keeps
      <4> QED BY <4>1, <4>2, <1>2
    <3>7. e.sent = Len(p) /\ (~e.errored => e.got \o e.ring = p) /\ (e.proto = "H1" => e.ring = <<>>)
      BY <3>2, <3>5, <1>2, EmitAllFresh
    <3>8. r = sub_end(e)
      BY <1>4, <1>7, <2>3, <3>1, <3>5 DEF sub_catch_up
    <3>9. /\ r.ended /\ r.sent = e.sent /\ r.got = e.got /\ r.ring = e.ring /\ r.errored = e.errored
          /\ r.proto = e.proto /\ (r.proto # "H1" => r.end # "clean")
      BY <3>6, <3>8, <1>2 DEF sub_end, SubRec
    <3>10. Keeps(s, r)
      BY <3>6, <3>8, EndKeeps DEF Keeps
    <3>11. SlotOK(r)
      BY <3>6, <3>7, <3>9, <3>10, <1>0, <1>2 DEF SlotOK, Keeps
    <3>13. ~Waiting(r) /\ ~Live(r) /\ Over(r) /\ Told(r, i \in Ahead)
      BY <3>4, <3>9, <3>10, <1>2 DEF Waiting, Live, Over, Keeps, Told
    <3>14. ASSUME OfKept(r)
           PROVE  StreamOK(r, i \in Ahead)
      <4>0. OfKept(s)
        BY <3>10, <3>14 DEF OfKept, Keeps
      <4>3. Pushed(r) = p /\ SubSeq(p, 1, Len(p)) = p /\ Len(p) \in Nat
        BY <4>0, <3>2, <3>3, <3>10, SubSeqFull, LenProperties DEF Pushed, Keeps
      <4>1. r.sent = Len(Pushed(r)) /\ r.sent <= Len(Pushed(r))
        <5>1. PICK n \in Nat : n = Len(p)
          BY <3>2, LenProperties
        <5>2. r.sent = n /\ Len(Pushed(r)) = n
          BY <3>7, <3>9, <4>3, <5>1, Zenon
        <5> QED BY <5>2
      <4>4. ~r.errored => r.got \o r.ring = p
        <5>1. r.got \o r.ring = e.got \o e.ring
          BY <3>9, Zenon
        <5> QED BY <5>1, <3>7, <3>9, ZenonT(60)
      <4>2. ~r.errored => r.got \o r.ring = SubSeq(Pushed(r), 1, r.sent)
        <5>3. SubSeq(Pushed(r), 1, r.sent) = p
          <6>1. r.sent = Len(p)
            BY <3>7, <3>9, Zenon
          <6> QED BY <6>1, <4>3, Zenon
        <5> QED BY <4>4, <5>3, Zenon
      <4>5. CleanOK(r)
        <5>1. SUFFICES ASSUME r.proto = "H1" PROVE CleanOK(r)
          BY <3>9 DEF CleanOK
        <5>2. ~r.errored /\ r.ring = <<>>
          BY <5>1, <3>6, <3>7, <3>9, Zenon
        <5>3. PICK g \in Seq(Nat) : g = r.got
          BY <3>9 DEF SubRec
        <5>4. g \o <<>> = g
          BY ConcatEmptySeq
        <5>5. g \o <<>> = p
          BY <5>2, <5>3, <4>4
        <5>6. r.got = Pushed(r)
          BY <5>3, <5>4, <5>5, <4>3
        <5> QED BY <5>6, <3>13 DEF CleanOK
      <4> QED BY <4>1, <4>2, <4>5, <3>13 DEF StreamOK
    <3> QED BY <3>11, <3>13, <3>14 DEF SubInv
  <2>4. CASE snap.msn # s.want /\ ~InWindow(snap, s.want)
    BY <1>4, <1>5, <1>7, <2>4 DEF sub_catch_up
  <2> QED BY <2>2, <2>3, <2>4
<1> QED BY <1>6, <1>7

LEMMA AttachStep ==
    ASSUME IInv, TypeOK', SnapOK', NEW i \in Subs, sub_attach(i)
    PROVE  IInv'
PROOF
<1>0. /\ sub[i].alive = "ALIVE" /\ ~sub[i].attached
      /\ sub' = [sub EXCEPT ![i] = sub_catch_up([sub[i] EXCEPT !.attached = TRUE])]
      /\ UNCHANGED <<snap, head, floor, walk, hist, done, used, stale, early>>
  BY DEF sub_attach
<1>1. sub[i] \in SubRec /\ snap \in SnapRec \cup {NoSnap}
  BY DEF IInv, TypeOK
<1>2. PICK s \in SubRec : s = [sub[i] EXCEPT !.attached = TRUE]
  BY <1>1 DEF SubRec
<1>3. s.alive = sub[i].alive /\ s.next = sub[i].next /\ s.opening = sub[i].opening /\ s.want = sub[i].want
  BY <1>1, <1>2 DEF SubRec
<1>4. PICK r : r = sub_catch_up(s)
  OBVIOUS
<1>5. Keeps(s, r) /\ sub'[i] = r /\ \A j \in Subs \ {i} : sub'[j] = sub[j]
  BY <1>0, <1>1, <1>2, <1>4, CatchUpKeeps DEF IInv, TypeOK
<1>6. OnlySlot(i)
  BY <1>0, <1>3, <1>5 DEF OnlySlot, SlotChange, Keeps
<1>7. Ahead' = Ahead
  BY <1>0, <1>6, SlotWalk
<1>8. PICK h : h = (i \in Ahead)
  OBVIOUS
<1>9. SubInv(r, h)
  BY <1>0, <1>2, <1>4, <1>8, AttachInv
<1>10. SubInv(r, h)'
  BY <1>0, <1>9 DEF SubInv, SlotOK, Told, OfKept, StreamOK, CleanOK, Pushed, Live, Waiting, Over, Finished
<1>11. SubInv(sub[i], i \in Ahead)'
  BY <1>5, <1>7, <1>8, <1>10
<1> QED BY <1>0, <1>6, <1>11, SlotStep

-----------------------------------------------------------------------------
(* Links and unlinks, and slots given back.                                *)

LEMMA LinkStep ==
    ASSUME IInv, TypeOK', SnapOK', NEW i \in Subs, SubscribeLink(i)
    PROVE  IInv'
PROOF
<1>0. /\ sub[i].alive = "LOADED" /\ head' = i
      /\ sub' = [sub EXCEPT ![i].alive = "ALIVE", ![i].next = head]
      /\ UNCHANGED <<snap, floor, walk, hist, done, used, stale, early>>
  BY DEF SubscribeLink
<1>1. /\ sub \in [Subs -> SubRec] /\ sub' \in [Subs -> SubRec] /\ walk \in WalkRec /\ stale \in WalkRec /\ head \in Subs \cup {None}
      /\ Linear(sub, head) /\ Links(sub) /\ Links(sub')
  BY TableLinks DEF IInv, TypeOK, ChainOK
<1>2. i \notin Chain /\ i \notin Ahead /\ i \notin StaleAhead
  BY <1>0 DEF IInv, ChainOK, WalkOK, StaleOK
<1>3. /\ sub'[i].alive = "ALIVE" /\ sub'[i].next = head /\ \A j \in Subs \ {i} : sub'[j] = sub[j]
      /\ SameLinks(sub, sub', Subs \ {i}) /\ sub'[i].opening = used.opens
  <2>1. SlotOK(sub[i])
    BY SubFacts DEF SubInv
  <2>2. sub[i].opening = used.opens
    BY <2>1, <1>0 DEF SlotOK
  <2> QED BY <2>2, <1>0, <1>1 DEF SameLinks, SubRec
<1>4. Chain' = {i} \cup Chain /\ Linear(sub', head')
  <2>1. i \notin Reach(sub, head)
    BY <1>2 DEF Chain
  <2>2. Reach(sub', i) = {i} \cup Reach(sub, head) /\ Linear(sub', i)
    BY <2>1, <1>1, <1>3, LinkChain
  <2> QED BY <2>2, <1>0 DEF Chain
<1>5. Ahead \subseteq Ahead' /\ Ahead' \subseteq Ahead \cup {i}
  <2>1. i \notin Reach(sub, head) /\ i \notin AheadOf(walk, sub, head)
    BY <1>2 DEF Chain, Ahead
  <2>2. /\ AheadOf(walk, sub, head) \subseteq AheadOf(walk, sub', i)
        /\ AheadOf(walk, sub', i) \subseteq AheadOf(walk, sub, head) \cup {i}
    BY <2>1, <1>1, <1>3, AheadLink
  <2> QED BY <2>2, <1>0 DEF Ahead
<1>12. StaleAhead' \subseteq StaleAhead \cup {i}
  <2>1. i \notin Reach(sub, head) /\ i \notin AheadOf(stale, sub, head)
    BY <1>2 DEF Chain, StaleAhead
  <2>2. AheadOf(stale, sub', i) \subseteq AheadOf(stale, sub, head) \cup {i}
    BY <2>1, <1>1, <1>3, AheadLink
  <2> QED BY <2>2, <1>0 DEF StaleAhead
<1>6. Chain \subseteq Subs /\ Ahead \subseteq Subs /\ StaleAhead \subseteq Subs
  BY <1>1, AheadInSubs DEF Chain, Reach, Ahead, StaleAhead, IInv, WalkOK, StaleOK
<1>7. ChainOK'
  <2>1. ASSUME NEW j \in Chain'
        PROVE  sub'[j].alive \in {"ALIVE", "CLOSING"} /\ sub'[j].opening \in {0, used'.opens}
    BY <1>0, <1>2, <1>3, <1>4, <1>6 DEF IInv, ChainOK
  <2>2. ASSUME NEW j \in Subs, sub'[j].alive = "ALIVE", sub'[j].opening = used'.opens
        PROVE  j \in Chain'
    BY <2>2, <1>0, <1>3, <1>4 DEF IInv, ChainOK
  <2> QED BY <1>4, <2>1, <2>2 DEF ChainOK
<1>8. WalkOK'
  <2>1. ASSUME NEW j \in Ahead'
        PROVE  sub'[j].alive \notin {"FREE", "LOADED"} /\ sub'[j].opening \in {0, used'.opens}
    BY <1>0, <1>2, <1>3, <1>5, <1>6 DEF IInv, WalkOK
  <2>2. ASSUME walk.pc = "call", walk.kind # "closing", sub'[walk.at].alive = "ALIVE"
        PROVE  sub'[walk.at].want = walk.seq
    <3>1. walk.at \in Ahead
      BY <2>2 DEF Ahead, AheadOf, IInv, WalkOK, NoWalk
    <3>2. sub'[walk.at] = sub[walk.at]
      BY <3>1, <1>2, <1>3, <1>6
    <3> QED BY <2>2, <3>2 DEF IInv, WalkOK
  <2> QED BY <2>1, <2>2, <1>0 DEF IInv, WalkOK
<1>13. StaleOK'
  <2>1. ASSUME NEW j \in StaleAhead'
        PROVE  sub'[j].alive \notin {"FREE", "LOADED"} /\ sub'[j].opening \in early' \cup {0}
    <3>1. stale # NoWalk
      BY <2>1, <1>0 DEF StaleAhead, AheadOf, NoWalk
    <3>2. used.opens \in early
      BY <3>1 DEF IInv, StaleOK
    <3>3. CASE j = i
      BY <3>2, <3>3, <1>0, <1>3
    <3>4. CASE j \in StaleAhead
      <4>1. sub'[j] = sub[j] /\ sub[j].alive \notin {"FREE", "LOADED"} /\ sub[j].opening \in early \cup {0}
        BY <3>4, <1>2, <1>3, <1>6 DEF IInv, StaleOK
      <4> QED BY <4>1, <1>0
    <3> QED BY <2>1, <3>3, <3>4, <1>12
  <2> QED BY <2>1, <1>0 DEF IInv, StaleOK
<1>9. ASSUME NEW j \in Subs, j # i
      PROVE  SubInv(sub[j], j \in Ahead)'
  <2>0. PICK s \in SubRec : s = sub[j]
    BY <1>1
  <2>1. PICK h, k : h = (j \in Ahead) /\ k = (j \in Ahead')
    OBVIOUS
  <2>2. SubInv(s, h) /\ (h => k) /\ (s.opening > 0 => Pushed(s) \in Seq(Nat))
    BY <2>0, <2>1, <1>5, SubFacts
  <2>3. SameStream(s, s)
    BY <2>2, SelfStream DEF SubInv
  <2>4. SubInv(s, k)'
    BY <2>2, <2>3, <1>0, ReadInv
  <2> QED BY <2>0, <2>1, <2>4, <1>3, <1>9
<1>10. SubInv(sub[i], i \in Ahead)'
  <2>1. PICK s \in SubRec : s = sub[i]
    BY <1>1
  <2>2. PICK r, k : r = sub'[i] /\ k = (i \in Ahead')
    OBVIOUS
  <2>3. /\ r.alive = "ALIVE" /\ r.opening = s.opening /\ r.want = s.want /\ r.proto = s.proto
        /\ r.attached = s.attached /\ r.ended = s.ended /\ r.aborted = s.aborted /\ r.errored = s.errored
        /\ r.sent = s.sent /\ r.got = s.got /\ r.ring = s.ring /\ r.end = s.end /\ r.read = s.read
    BY <1>0, <1>1, <2>1, <2>2 DEF SubRec
  <2>4. /\ s.alive = "LOADED" /\ SlotOK(s) /\ (OfKept(s) => StreamOK(s, i \in Ahead))
        /\ ~s.attached /\ ~s.ended /\ s.opening = used.opens /\ snap # NoSnap
    <3>1. s.alive = "LOADED" /\ SubInv(s, i \in Ahead)
      BY <1>0, <2>1, SubFacts
    <3>2. SlotOK(s)
      BY <3>1 DEF SubInv
    <3>3. ~s.attached /\ ~s.ended /\ s.opening = used.opens /\ snap # NoSnap
      BY <3>1, <3>2 DEF SlotOK
    <3> QED BY <3>1, <3>2, <3>3 DEF SubInv
  <2>5. SlotOK(r)'
    BY <2>3, <2>4, <1>0 DEF SlotOK
  <2>6. /\ Pushed(r)' = Pushed(s) /\ r.opening = used'.opens /\ snap' # NoSnap
        /\ ~Waiting(r)' /\ ~Finished(r)' /\ r.end # "clean"
    BY <2>3, <2>4, <1>0 DEF Pushed, Waiting, Finished, SlotOK
  <2>7. ASSUME OfKept(r)'
        PROVE  StreamOK(r, k)'
    <3>1. StreamOK(s, i \in Ahead)
      BY <2>3, <2>4, <2>7, <1>0 DEF OfKept
    <3>2. r.sent <= Len(Pushed(r)') /\ (~r.errored => r.got \o r.ring = SubSeq(Pushed(r)', 1, r.sent))
      BY <3>1, <2>3, <2>6 DEF StreamOK
    <3> QED BY <3>2, <2>6 DEF StreamOK, CleanOK
  <2>8. Told(r, k)'
    BY <2>6 DEF Told
  <2>9. SubInv(r, k)'
    BY <2>5, <2>7, <2>8 DEF SubInv
  <2> QED BY <2>2, <2>9
<1>11. SubOK'
  BY <1>9, <1>10 DEF SubOK
<1> QED BY <1>7, <1>8, <1>13, <1>11 DEF IInv

LEMMA UnlinkStep ==
    ASSUME IInv, TypeOK', SnapOK', NEW x \in Subs, unlink_store_chain(x)
    PROVE  IInv'
PROOF
<1>0. /\ sub[x].alive = "CLOSING" /\ head' = HeadAfter(sub, head, x) /\ sub' = Unlinked(x, "DEFERRED")
      /\ UNCHANGED <<snap, floor, walk, hist, done, used, stale, early>>
  BY DEF unlink_store_chain, HeadAfter
<1>1. /\ sub \in [Subs -> SubRec] /\ sub' \in [Subs -> SubRec] /\ walk \in WalkRec /\ stale \in WalkRec /\ head \in Subs \cup {None}
      /\ Linear(sub, head) /\ Links(sub) /\ Links(sub')
  BY TableLinks DEF IInv, TypeOK, ChainOK
<1>2. ASSUME NEW j \in Subs, j # x
      PROVE  \/ sub'[j] = sub[j] /\ ~(head # x /\ j \in Reach(sub, head) /\ sub[j].next = x)
             \/ /\ sub'[j] = [sub[j] EXCEPT !.next = sub[x].next]
                /\ head # x /\ j \in Reach(sub, head) /\ sub[j].next = x
  BY <1>0, <1>2 DEF Unlinked, Chain
<1>3. sub'[x] = [sub[x] EXCEPT !.alive = "DEFERRED"]
  BY <1>0 DEF Unlinked
<1>4. AfterUnlink(sub, sub', head, x)
  <2>1. sub'[x].next = sub[x].next
    BY <1>1, <1>3 DEF SubRec
  <2>2. ASSUME NEW j \in Subs, j # x
        PROVE  sub'[j].next = IF head # x /\ j \in Reach(sub, head) /\ sub[j].next = x THEN sub[x].next ELSE sub[j].next
    BY <1>1, <1>2, <2>2 DEF SubRec
  <2> QED BY <2>1, <2>2 DEF AfterUnlink
<1>5. Chain' = Chain \ {x} /\ Linear(sub', head')
  BY <1>0, <1>1, <1>4, UnlinkChain DEF Chain
<1>6. Ahead' \subseteq Ahead /\ Ahead \ {x} \subseteq Ahead'
  BY <1>0, <1>1, <1>4, AheadUnlink DEF Ahead
<1>15. StaleAhead' \subseteq StaleAhead
  BY <1>0, <1>1, <1>4, AheadUnlink DEF StaleAhead
<1>7. Chain \subseteq Subs /\ Ahead \subseteq Subs /\ StaleAhead \subseteq Subs
  BY <1>1, AheadInSubs DEF Chain, Reach, Ahead, StaleAhead, IInv, WalkOK, StaleOK
<1>8. ASSUME NEW j \in Subs, j # x
      PROVE  SameStream(sub[j], sub'[j])
  <2>0. PICK n : n = sub[x].next
    OBVIOUS
  <2>1. PICK s \in SubRec : s = sub[j]
    BY <1>1
  <2>2. SameStream(s, s)
    BY <2>1, SubFacts, SelfStream DEF SubInv
  <2>3. SameStream(s, [s EXCEPT !.next = n])
    BY <2>2 DEF SameStream, SubRec
  <2> QED BY <2>0, <2>1, <2>2, <2>3, <1>2, <1>8
<1>9. sub'[x].alive = "DEFERRED" /\ sub'[x].opening = 0
  <2>1. sub'[x].alive = "DEFERRED" /\ sub'[x].opening = sub[x].opening
    BY <1>1, <1>3 DEF SubRec
  <2>2. SlotOK(sub[x])
    BY SubFacts DEF SubInv
  <2> QED BY <2>1, <2>2, <1>0 DEF SlotOK
<1>10. ChainOK'
  <2>1. ASSUME NEW j \in Chain'
        PROVE  sub'[j].alive \in {"ALIVE", "CLOSING"} /\ sub'[j].opening \in {0, used'.opens}
    <3>1. j \in Chain /\ j \in Subs /\ j # x
      BY <1>5, <1>7
    <3>2. SameStream(sub[j], sub'[j])
      BY <3>1, <1>8
    <3> QED BY <3>1, <3>2, <1>0 DEF IInv, ChainOK, SameStream
  <2>2. ASSUME NEW j \in Subs, sub'[j].alive = "ALIVE", sub'[j].opening = used'.opens
        PROVE  j \in Chain'
    <3>1. j # x
      BY <2>2, <1>9
    <3>2. SameStream(sub[j], sub'[j])
      BY <3>1, <1>8
    <3>3. sub[j].alive = "ALIVE" /\ sub[j].opening = used.opens
      BY <2>2, <3>2, <1>0 DEF SameStream
    <3>4. j \in Chain
      BY <3>3 DEF IInv, ChainOK
    <3> QED BY <3>1, <3>4, <1>5
  <2> QED BY <1>5, <2>1, <2>2 DEF ChainOK
<1>11. WalkOK'
  <2>1. ASSUME NEW j \in Ahead'
        PROVE  sub'[j].alive \notin {"FREE", "LOADED"} /\ sub'[j].opening \in {0, used'.opens}
    <3>1. j \in Ahead /\ j \in Subs
      BY <1>6, <1>7
    <3>2. CASE j # x
      <4>1. SameStream(sub[j], sub'[j])
        BY <3>1, <3>2, <1>8
      <4> QED BY <3>1, <4>1, <1>0 DEF IInv, WalkOK, SameStream
    <3> QED BY <3>2, <1>9
  <2>2. ASSUME walk.pc = "call", walk.kind # "closing", sub'[walk.at].alive = "ALIVE"
        PROVE  sub'[walk.at].want = walk.seq
    <3>1. walk.at \in Subs /\ walk.at # x
      BY <2>2, <1>1, <1>9 DEF IInv, WalkOK, WalkRec
    <3>2. SameStream(sub[walk.at], sub'[walk.at])
      BY <3>1, <1>8
    <3>3. sub[walk.at].alive = "ALIVE" /\ sub'[walk.at].want = sub[walk.at].want
      <4>1. PICK s, r : s = sub[walk.at] /\ r = sub'[walk.at]
        OBVIOUS
      <4>2. r.alive = s.alive /\ r.want = s.want
        BY <4>1, <3>2, Zenon DEF SameStream
      <4> QED BY <4>1, <4>2, <2>2
    <3> QED BY <2>2, <3>3 DEF IInv, WalkOK
  <2> QED BY <2>1, <2>2, <1>0 DEF IInv, WalkOK
<1>16. StaleOK'
  <2>1. ASSUME NEW j \in StaleAhead'
        PROVE  sub'[j].alive \notin {"FREE", "LOADED"} /\ sub'[j].opening \in early' \cup {0}
    <3>1. j \in StaleAhead /\ j \in Subs
      BY <1>15, <1>7
    <3>2. CASE j # x
      <4>1. SameStream(sub[j], sub'[j])
        BY <3>1, <3>2, <1>8
      <4> QED BY <3>1, <4>1, <1>0 DEF IInv, StaleOK, SameStream
    <3> QED BY <3>2, <1>9
  <2> QED BY <2>1, <1>0 DEF IInv, StaleOK
<1>12. ASSUME NEW j \in Subs, j # x
      PROVE  SubInv(sub[j], j \in Ahead)'
  <2>0. PICK s \in SubRec : s = sub[j]
    BY <1>1
  <2>1. PICK r, h, k : r = sub'[j] /\ h = (j \in Ahead) /\ k = (j \in Ahead')
    OBVIOUS
  <2>2. SubInv(s, h) /\ (h => k) /\ (s.opening > 0 => Pushed(s) \in Seq(Nat))
    BY <2>0, <2>1, <1>6, <1>12, SubFacts
  <2>3. SameStream(s, r)
    BY <2>0, <2>1, <1>8, <1>12
  <2>4. SubInv(r, k)'
    BY <2>2, <2>3, <1>0, ReadInv
  <2> QED BY <2>1, <2>4
<1>13. SubInv(sub[x], x \in Ahead)'
  <2>1. PICK s \in SubRec : s = sub[x]
    BY <1>1
  <2>2. PICK r, k : r = sub'[x] /\ k = (x \in Ahead')
    OBVIOUS
  <2>3. SlotOK(s) /\ s.alive = "CLOSING"
    BY <1>0, <2>1, SubFacts DEF SubInv
  <2>4. /\ r.alive = "DEFERRED" /\ r.opening = s.opening /\ r.attached = s.attached
        /\ r.got = s.got /\ r.ring = s.ring /\ r.sent = s.sent /\ r.ended = s.ended /\ r.end = s.end /\ r.proto = s.proto
        /\ r.errored = s.errored /\ r.read = s.read
    BY <1>3, <2>1, <2>2 DEF SubRec
  <2>5. SubInv(r, k)'
    BY <2>3, <2>4 DEF SubInv, SlotOK, Told, Waiting, OfKept
  <2> QED BY <2>2, <2>5
<1>14. SubOK'
  BY <1>12, <1>13 DEF SubOK
<1> QED BY <1>10, <1>11, <1>14, <1>16 DEF IInv

LEMMA FinishStep ==
    ASSUME IInv, TypeOK', SnapOK', dashchunk_finish_sub_close
    PROVE  IInv'
PROOF
<1>0. /\ walk = NoWalk /\ stale = NoWalk /\ UNCHANGED <<snap, head, floor, walk, hist, done, used, stale, early>>
      /\ \A i \in Subs : sub'[i] = IF sub[i].alive = "DEFERRED" THEN FreeSub ELSE sub[i]
  BY DEF dashchunk_finish_sub_close
<1>1. /\ sub \in [Subs -> SubRec] /\ sub' \in [Subs -> SubRec] /\ walk \in WalkRec /\ head \in Subs \cup {None}
  BY DEF IInv, TypeOK
<1>2. Ahead = {} /\ Chain \subseteq Subs /\ walk.kind = "none" /\ walk.pc = "head"
  BY <1>0 DEF Ahead, AheadOf, NoWalk, Chain, Reach
<1>3. \A j \in Chain : sub'[j] = sub[j]
  BY <1>0, <1>2 DEF IInv, ChainOK
<1>4. Chain' = Chain /\ Ahead' = Ahead
  <2>1. SameLinks(sub, sub', Chain)
    BY <1>3 DEF SameLinks
  <2>2. Reach(sub, head) \subseteq Chain /\ AheadOf(walk, sub, head) \subseteq Chain
    BY <1>2 DEF Chain, Ahead
  <2>3. Reach(sub', head) = Reach(sub, head) /\ AheadOf(walk, sub', head) = AheadOf(walk, sub, head)
    BY <2>1, <2>2, <1>1, AheadSame
  <2> QED BY <2>3, <1>0 DEF Chain, Ahead
<1>5. FreeSub.alive = "FREE" /\ FreeSub.opening = 0
  BY DEF FreeSub
<1>6. ChainOK'
  <2>1. Linear(sub', head')
    BY <1>0, <1>3, <1>4 DEF IInv, ChainOK, Linear, Chain
  <2>2. ASSUME NEW j \in Subs, sub'[j].alive = "ALIVE", sub'[j].opening = used'.opens
        PROVE  j \in Chain
    BY <2>2, <1>0, <1>5 DEF IInv, ChainOK
  <2>3. ASSUME NEW j \in Chain
        PROVE  sub'[j].alive \in {"ALIVE", "CLOSING"} /\ sub'[j].opening \in {0, used'.opens}
    BY <1>0, <1>3 DEF IInv, ChainOK
  <2> QED BY <2>1, <2>2, <2>3, <1>4 DEF ChainOK
<1>7. WalkOK'
  BY <1>0, <1>2, <1>4 DEF WalkOK, NoWalk
<1>9. StaleOK'
  BY <1>0 DEF StaleOK, StaleAhead, AheadOf, NoWalk
<1>8. ASSUME NEW j \in Subs
      PROVE  SubInv(sub[j], j \in Ahead)'
  <2>1. CASE sub[j].alive = "DEFERRED"
    <3>1. sub'[j] = FreeSub
      BY <1>0, <2>1
    <3> QED BY <3>1 DEF SubInv, SlotOK, Told, Waiting, OfKept, FreeSub
  <2>2. CASE sub[j].alive # "DEFERRED"
    <3>0. PICK s \in SubRec : s = sub[j]
      BY <1>1
    <3>1. PICK h : h = (j \in Ahead)
      OBVIOUS
    <3>4. SubInv(s, h) /\ (s.opening > 0 => Pushed(s) \in Seq(Nat))
      BY <3>0, <3>1, SubFacts
    <3>2. SubInv(s, h) /\ SameStream(s, s) /\ (s.opening > 0 => Pushed(s) \in Seq(Nat))
      BY <3>4, SelfStream DEF SubInv
    <3>3. SubInv(s, h)'
      BY <3>2, <1>0, ReadInv
    <3> QED BY <3>0, <3>1, <3>3, <1>0, <1>4, <2>2
  <2> QED BY <2>1, <2>2
<1> QED BY <1>6, <1>7, <1>8, <1>9 DEF IInv, SubOK

-----------------------------------------------------------------------------
(* The pump publishes: every subscriber is up to date, and the walk that   *)
(* begins has all of them ahead.                                           *)

\* between two callbacks nobody is owed anything
LEMMA QuietSub ==
    ASSUME IInv, walk = NoWalk, NEW j \in Subs
    PROVE  /\ sub[j] \in SubRec /\ SlotOK(sub[j]) /\ Ahead = {} /\ sub[j].opening \in Nat /\ sub[j].want \in Nat
           /\ Waiting(sub[j]) => /\ sub[j].alive = "ALIVE" /\ sub[j].opening > 0
                                 /\ <<sub[j].opening, sub[j].want>> \notin done
           /\ OfKept(sub[j]) =>
                /\ Pushed(sub[j]) \in Seq(Nat) /\ Len(Pushed(sub[j])) \in Nat
                /\ sub[j].opening \in 1..used.opens /\ sub[j].opening \in 1..MaxOpens /\ sub[j].want \in Seqs
                /\ sub[j].sent \in Nat /\ sub[j].sent <= Len(Pushed(sub[j]))
                /\ ~sub[j].errored => sub[j].got \o sub[j].ring = SubSeq(Pushed(sub[j]), 1, sub[j].sent)
                /\ Live(sub[j]) => sub[j].opening = used.opens /\ snap # NoSnap
                /\ Waiting(sub[j]) => sub[j].sent = Len(Pushed(sub[j]))
                /\ Finished(sub[j]) => sub[j].sent = Len(Pushed(sub[j])) /\ Over(sub[j])
                /\ CleanOK(sub[j])
PROOF
<1>1. walk.kind = "none" /\ Ahead = {}
  BY DEF NoWalk, Ahead, AheadOf
<1>2. PICK s \in SubRec : s = sub[j]
  BY SubFacts
<1>3. SubInv(s, j \in Ahead) /\ s.opening \in Nat /\ s.want \in Nat /\ s.sent \in Nat
  BY <1>2, SubFacts DEF SubRec
<1>4. SlotOK(s)
  BY <1>3 DEF SubInv
<1>5. Waiting(s) => s.alive = "ALIVE" /\ s.opening > 0 /\ <<s.opening, s.want>> \notin done
  <2>1. SUFFICES ASSUME s.attached, Waiting(s)
                 PROVE  s.alive = "ALIVE" /\ s.opening > 0 /\ <<s.opening, s.want>> \notin done
    BY DEF Waiting
  <2>2. s.alive = "ALIVE"
    BY <2>1, <1>4 DEF SlotOK
  <2>3. s.opening \in 1..used.opens
    BY <2>2, <1>4 DEF SlotOK
  <2>4. <<s.opening, s.want>> \notin done
    BY <2>1, <1>1, <1>3 DEF SubInv, Told
  <2> QED BY <2>2, <2>3, <2>4, SnapFacts
<1>6. ASSUME OfKept(s)
      PROVE  /\ Pushed(s) \in Seq(Nat) /\ Len(Pushed(s)) \in Nat
             /\ s.opening \in 1..used.opens /\ s.opening \in 1..MaxOpens /\ s.want \in Seqs
             /\ s.sent <= Len(Pushed(s))
             /\ ~s.errored => s.got \o s.ring = SubSeq(Pushed(s), 1, s.sent)
             /\ Live(s) => s.opening = used.opens /\ snap # NoSnap
             /\ Waiting(s) => s.sent = Len(Pushed(s))
             /\ Finished(s) => s.sent = Len(Pushed(s)) /\ Over(s)
             /\ CleanOK(s)
  <2>0. s.opening > 0
    BY <1>6 DEF OfKept
  <2>1. StreamOK(s, j \in Ahead)
    BY <1>3, <1>6 DEF SubInv
  <2>2. Pushed(s) \in Seq(Nat) /\ Len(Pushed(s)) \in Nat
    BY <1>2, <2>0, SubFacts
  <2>3. s.alive \in {"LOADED", "ALIVE"}
    BY <1>3, <1>4, <2>0 DEF SlotOK
  <2>4. s.opening \in 1..used.opens /\ s.want \in Seqs
    BY <1>4, <2>3 DEF SlotOK
  <2>5. s.opening \in 1..MaxOpens
    BY <2>4, SnapFacts, ConstantTypes
  <2>6. /\ s.sent <= Len(Pushed(s)) /\ CleanOK(s)
        /\ ~s.errored => s.got \o s.ring = SubSeq(Pushed(s), 1, s.sent)
    BY <2>1 DEF StreamOK
  <2>7. /\ Live(s) => s.opening = used.opens /\ snap # NoSnap
        /\ Waiting(s) => s.sent = Len(Pushed(s))
        /\ Finished(s) => s.sent = Len(Pushed(s)) /\ Over(s)
    BY <1>1, <2>1 DEF StreamOK
  <2> QED BY <2>2, <2>4, <2>5, <2>6, <2>7
<1> QED BY <1>1, <1>2, <1>3, <1>4, <1>5, <1>6

\* what a publication leaves of a callback that was overtaken
LEMMA StaleKept ==
    ASSUME IInv, UNCHANGED <<sub, head, stale, early>>, used'.opens = used.opens, snap' # NoSnap \/ stale = NoWalk
    PROVE  StaleOK'
PROOF
<1>1. StaleAhead' = StaleAhead
  BY DEF StaleAhead
<1> QED BY <1>1 DEF IInv, StaleOK

\* a step of the pump that leaves the table and the chain alone
LEMMA ChainKept ==
    ASSUME IInv, UNCHANGED <<sub, head>>, used'.opens = used.opens
    PROVE  ChainOK' /\ Chain' = Chain
PROOF
<1>1. Chain' = Chain
  BY DEF Chain
<1> QED BY <1>1 DEF IInv, ChainOK

\* a walk that begins has the whole chain ahead
LEMMA WalkBegins ==
    ASSUME IInv, UNCHANGED <<sub, head>>, walk'.kind # "none", walk'.pc = "head"
    PROVE  /\ Ahead' = Chain
           /\ \A j \in Ahead' : sub'[j].alive \notin {"FREE", "LOADED"} /\ sub'[j].opening \in {0, used.opens}
           /\ \A j \in Subs : sub[j].alive = "ALIVE" /\ sub[j].opening = used.opens => j \in Ahead'
PROOF
<1>1. Ahead' = Chain
  BY DEF Ahead, AheadOf, Chain
<1> QED BY <1>1 DEF IInv, ChainOK

LEMMA PushPartStep ==
    ASSUME IInv, TypeOK', SnapOK', PushPart
    PROVE  IInv'
PROOF
<1>0. walk = NoWalk /\ UNCHANGED <<sub, head, done, floor, stale, early>>
  BY DEF PushPart, PumpIdle
<1> DEFINE d == used.pushes + 1
<1>1. /\ used'.opens = used.opens /\ snap # NoSnap /\ snap' # NoSnap /\ snap'.msn = snap.msn
      /\ snap'.live = Append(snap.live, d)
      /\ walk'.kind = "part" /\ walk'.pc = "head" /\ walk'.seq = snap.msn
      /\ walk'.part = Len(snap.live) /\ walk'.data = d
  BY PushPartFacts
<1>2. \A o \in 1..MaxOpens, q \in Seqs :
          hist'[o][q] = IF o = used.opens /\ q = snap.msn THEN Append(hist[o][q], d) ELSE hist[o][q]
  BY PushPartFacts
<1>3. /\ d \in Nat /\ snap.live \in Seq(Nat) /\ Len(snap.live) \in Nat /\ snap.msn \in Nat /\ used.opens \in Nat
      /\ snap.live = hist[used.opens][snap.msn]
  BY <1>1, SnapFacts, SMTT(60) DEF SnapShows
<1>4. ChainOK' /\ Ahead' = Chain /\ StaleOK'
  BY <1>0, <1>1, ChainKept, WalkBegins, StaleKept
<1>5. WalkOK'
  <2>1. Len(snap'.live) = walk'.part + 1 /\ snap'.live[walk'.part + 1] = walk'.data
    <3>1. PICK L \in Seq(Nat), e \in Nat : L = snap.live /\ e = d
      BY <1>3
    <3>2. Len(Append(L, e)) = Len(L) + 1 /\ Append(L, e)[Len(L) + 1] = e
      BY AppendProperties
    <3> QED BY <1>1, <3>1, <3>2
  <2> QED BY <2>1, <1>0, <1>1, WalkBegins DEF WalkOK
<1>6. ASSUME NEW j \in Subs
      PROVE  SubInv(sub[j], j \in Ahead)'
  <2>1. PICK s \in SubRec : s = sub[j]
    BY SubFacts
  <2>2. PICK k : k = (j \in Ahead')
    OBVIOUS
  <2>3. SlotOK(s)'
    <3>1. SlotOK(s)
      BY <2>1, <1>0, QuietSub
    <3> QED BY <3>1, <1>1 DEF SlotOK
  <2>6. Told(s, k)'
    <3>1. Waiting(s) => <<s.opening, s.want>> \notin done
      BY <2>1, <1>0, QuietSub
    <3> QED BY <3>1, <1>0 DEF Told, Waiting
  <2>4. ASSUME OfKept(s)'
        PROVE  StreamOK(s, k)'
    <3>0. OfKept(s)
      BY <2>4, <1>0 DEF OfKept
    <3>1. /\ Pushed(s) \in Seq(Nat) /\ Len(Pushed(s)) \in Nat /\ s.sent \in Nat /\ s.sent <= Len(Pushed(s))
          /\ s.opening \in 1..used.opens /\ s.opening \in 1..MaxOpens /\ s.want \in Seqs /\ s.want \in Nat
          /\ ~s.errored => s.got \o s.ring = SubSeq(Pushed(s), 1, s.sent)
          /\ Live(s) => s.opening = used.opens
          /\ Waiting(s) => s.sent = Len(Pushed(s)) /\ s.alive = "ALIVE"
          /\ Finished(s) => s.sent = Len(Pushed(s)) /\ Over(s)
          /\ CleanOK(s)
      BY <1>0, <2>1, <3>0, QuietSub
    <3>2. PICK P \in Seq(Nat) : P = Pushed(s)
      BY <3>1
    <3>3. Pushed(s)' = IF s.opening = used.opens /\ s.want = snap.msn THEN Append(P, d) ELSE P
      BY <1>2, <3>1, <3>2 DEF Pushed
    <3>4. Live(s)' = Live(s) /\ Waiting(s)' = Waiting(s) /\ Finished(s)' = Finished(s)
      BY DEF Live, Waiting, Finished
    <3>7. Over(s) => Over(s)' /\ Pushed(s)' = P
      <4>1. SUFFICES ASSUME Over(s) PROVE Over(s)' /\ Pushed(s)' = P
        OBVIOUS
      <4>2. s.opening < used.opens \/ s.want < snap.msn
        BY <4>1, <1>1 DEF Over
      <4>3. ~(s.opening = used.opens /\ s.want = snap.msn)
        BY <4>2, <1>3
      <4> QED BY <4>2, <4>3, <3>3, <1>1 DEF Over
    <3>8. CleanOK(s)'
      <4>1. s.end = "clean" => \/ s.got = P /\ Over(s)
                               \/ s.late /\ s.errored
                               \/ s.late /\ s.got \o s.ring = P /\ Over(s)
                               \/ s.proto = "H3" /\ s.errored
        BY <3>1, <3>2 DEF CleanOK
      <4> QED BY <4>1, <3>7 DEF CleanOK
    <3>5. CASE s.opening = used.opens /\ s.want = snap.msn
      <4>1. P = snap.live /\ Pushed(s)' = Append(P, d)
        BY <3>2, <3>3, <3>5, <1>3 DEF Pushed
      <4>2. Len(Append(P, d)) = Len(P) + 1 /\ SubSeq(Append(P, d), 1, s.sent) = SubSeq(P, 1, s.sent)
        <5>1. /\ Len(Append(P, d)) = Len(P) + 1 /\ Append(P, d) \in Seq(Nat)
              /\ \A q \in 1..Len(P) : Append(P, d)[q] = P[q]
          BY <1>3, AppendProperties
        <5>2. \A q \in 1..s.sent : Append(P, d)[q] = P[q] /\ P[q] \in Nat
          BY <5>1, <3>1, <3>2, ElementOfSeq, SMTT(60)
        <5>3. SubSeq(Append(P, d), 1, s.sent) = SubSeq(P, 1, s.sent)
          <6>1. PICK n \in Nat, l \in Nat, A \in Seq(Nat) : n = s.sent /\ l = Len(P) /\ A = Append(P, d)
            BY <5>1, <3>1, <3>2
          <6>2. n <= l /\ Len(P) = l /\ Len(A) = l + 1
            BY <6>1, <5>1, <3>1, <3>2
          <6>3. 1 \in 1..(Len(P) + 1) /\ 1 \in 1..(Len(A) + 1) /\ n \in 0..Len(P) /\ n \in 0..Len(A)
            BY <6>2
          <6>4. /\ SubSeq(P, 1, n) = [q \in 1..n |-> P[q]]
                /\ SubSeq(A, 1, n) = [q \in 1..n |-> A[q]]
            BY <6>3
          <6> QED BY <6>1, <6>4, <5>2
        <5> QED BY <5>1, <5>3
      <4>3. ~Finished(s)
        BY <3>1, <3>5, <1>1, <1>3 DEF Over
      <4>4. Waiting(s) => s.sent = Len(snap.live) /\ k
        <5>1. Waiting(s) => s.sent = Len(snap.live) /\ s.alive = "ALIVE"
          BY <3>1, <3>2, <4>1
        <5>2. s.alive = "ALIVE" => k
          BY <2>1, <2>2, <3>5, <1>0, <1>1, WalkBegins
        <5> QED BY <5>1, <5>2
      <4>5. s.sent <= Len(Append(P, d))
        BY <4>2, <3>1, <3>2
      <4>6. ~s.errored => s.got \o s.ring = SubSeq(Append(P, d), 1, s.sent)
        BY <4>2, <3>1, <3>2
      <4> QED BY <4>1, <4>3, <4>4, <4>5, <4>6, <3>1, <3>4, <3>5, <3>8, <1>0, <1>1 DEF StreamOK
    <3>6. CASE ~(s.opening = used.opens /\ s.want = snap.msn)
      <4>1. Pushed(s)' = P
        BY <3>3, <3>6
      <4>2. Finished(s) => Over(s)'
        BY <3>1, <1>1 DEF Over
      <4>3. s.sent <= Len(P) /\ (~s.errored => s.got \o s.ring = SubSeq(P, 1, s.sent))
        BY <3>1, <3>2
      <4>4. (Waiting(s) => s.sent = Len(P)) /\ (Finished(s) => s.sent = Len(P))
        BY <3>1, <3>2
      <4> QED BY <4>1, <4>2, <4>3, <4>4, <3>1, <3>4, <3>8, <1>0, <1>1 DEF StreamOK
    <3> QED BY <3>5, <3>6
  <2>5. SubInv(s, k)'
    BY <2>3, <2>4, <2>6 DEF SubInv
  <2> QED BY <2>1, <2>2, <2>5, <1>0
<1> QED BY <1>4, <1>5, <1>6 DEF IInv, SubOK

\* the other publications add nothing to the history; a subscriber is fine
\* when the end it waits for is on its way
LEMMA PublishInv ==
    ASSUME IInv, walk = NoWalk, hist' = hist, early' = early, NEW j \in Subs, NEW s, s = sub[j], NEW k, SlotOK(s)',
           OfKept(s) /\ Live(s) => s.opening = used'.opens /\ (snap' # NoSnap \/ (walk'.kind = "closing" /\ k)),
           Waiting(s) /\ <<s.opening, s.want>> \in done' => walk'.kind = "done" /\ walk'.seq = s.want /\ k,
           Over(s) => Over(s)'
    PROVE  SubInv(s, k)'
PROOF
<1>1. ASSUME OfKept(s)'
      PROVE  StreamOK(s, k)'
  <2>0. OfKept(s)
    BY <1>1 DEF OfKept
  <2>1. PICK P : P = Pushed(s)
    OBVIOUS
  <2>2. /\ s.sent <= Len(P)
        /\ ~s.errored => s.got \o s.ring = SubSeq(P, 1, s.sent)
        /\ Waiting(s) => s.sent = Len(P)
        /\ Finished(s) => s.sent = Len(P) /\ Over(s)
        /\ CleanOK(s)
    BY <2>0, <2>1, QuietSub
  <2>3. Pushed(s)' = P
    BY <2>1 DEF Pushed
  <2>4. Live(s)' = Live(s) /\ Waiting(s)' = Waiting(s) /\ Finished(s)' = Finished(s)
    BY DEF Live, Waiting, Finished
  <2>5. Finished(s) => Over(s)'
    BY <2>2
  <2>6. CleanOK(s)'
    BY <2>1, <2>2, <2>3 DEF CleanOK
  <2> QED BY <2>0, <2>2, <2>3, <2>4, <2>5, <2>6 DEF StreamOK
<1>2. Told(s, k)'
  BY DEF Told, Waiting
<1> QED BY <1>1, <1>2 DEF SubInv

LEMMA PushSegmentStep ==
    ASSUME IInv, TypeOK', SnapOK', PushSegment
    PROVE  IInv'
PROOF
<1>0. walk = NoWalk /\ UNCHANGED <<sub, head, hist, used, stale, early>> /\ done' = done \cup {<<used.opens, snap.next>>}
  BY DEF PushSegment, PumpIdle
<1>1. /\ snap # NoSnap /\ snap' # NoSnap /\ snap'.msn = snap.next + 1
      /\ walk'.kind = "done" /\ walk'.pc = "head" /\ walk'.seq = snap.next
  BY PushSegmentFacts
<1>2. snap.msn = snap.next /\ snap.next \in Nat /\ used.opens \in Nat
  BY <1>1, SnapFacts DEF SnapShows
<1>3. ChainOK' /\ Ahead' = Chain /\ StaleOK'
  BY <1>0, <1>1, ChainKept, WalkBegins, StaleKept
<1>4. WalkOK'
  <2>1. walk'.seq < snap'.msn
    BY <1>1, <1>2
  <2> QED BY <2>1, <1>0, <1>1, WalkBegins DEF WalkOK
<1>5. ASSUME NEW j \in Subs
      PROVE  SubInv(sub[j], j \in Ahead)'
  <2>1. PICK s, k : s = sub[j] /\ k = (j \in Ahead')
    OBVIOUS
  <2>2. /\ SlotOK(s) /\ s.opening \in Nat /\ s.want \in Nat
        /\ Waiting(s) => s.alive = "ALIVE" /\ <<s.opening, s.want>> \notin done
        /\ OfKept(s) /\ Live(s) => s.opening = used.opens
    BY <2>1, <1>0, QuietSub
  <2>3. SlotOK(s)'
    BY <2>2, <1>0, <1>1 DEF SlotOK
  <2>4. OfKept(s) /\ Live(s) => s.opening = used'.opens
    BY <2>2, <1>0
  <2>5. Waiting(s) /\ <<s.opening, s.want>> \in done' => walk'.kind = "done" /\ walk'.seq = s.want /\ k
    <3>1. SUFFICES ASSUME Waiting(s), <<s.opening, s.want>> \in done'
                   PROVE  walk'.kind = "done" /\ walk'.seq = s.want /\ k
      OBVIOUS
    <3>2. s.opening = used.opens /\ s.want = snap.next /\ s.alive = "ALIVE"
      BY <3>1, <2>2, <1>0
    <3>3. j \in Ahead'
      BY <3>2, <2>1, <1>0, <1>1, WalkBegins
    <3> QED BY <3>2, <3>3, <2>1, <1>1
  <2>6. Over(s) => Over(s)'
    BY <2>2, <1>0, <1>1, <1>2 DEF Over
  <2>7. SubInv(s, k)'
    BY <2>1, <2>3, <2>4, <2>5, <2>6, <1>0, <1>1, PublishInv
  <2> QED BY <2>1, <2>7, <1>0
<1> QED BY <1>3, <1>4, <1>5 DEF IInv, SubOK

LEMMA DiscontinuityStep ==
    ASSUME IInv, TypeOK', SnapOK', Discontinuity
    PROVE  IInv'
PROOF
<1>0. walk = NoWalk /\ UNCHANGED <<sub, head, hist, done, stale, early>>
  BY DEF Discontinuity, PumpIdle
<1>1. /\ snap # NoSnap /\ snap' # NoSnap /\ snap'.msn = snap.next + 1 /\ used'.opens = used.opens
      /\ \/ walk' = walk
         \/ walk'.kind = "done" /\ walk'.pc = "head" /\ walk'.seq = snap.msn
  BY DiscontinuityFacts
<1>2. snap.msn = snap.next /\ snap.next \in Nat /\ used.opens \in Nat
  BY <1>1, SnapFacts DEF SnapShows
<1>3. ChainOK' /\ StaleOK'
  BY <1>0, <1>1, ChainKept, StaleKept
<1>4. WalkOK'
  <2>1. CASE walk' = walk
    <3>1. walk' = NoWalk /\ Ahead' = {}
      BY <2>1, <1>0 DEF Ahead, AheadOf, NoWalk
    <3> QED BY <3>1 DEF WalkOK, NoWalk
  <2>2. CASE walk'.kind = "done" /\ walk'.pc = "head" /\ walk'.seq = snap.msn
    <3>1. walk'.seq < snap'.msn
      BY <2>2, <1>1, <1>2
    <3> QED BY <3>1, <2>2, <1>0, <1>1, WalkBegins DEF WalkOK
  <2> QED BY <2>1, <2>2, <1>1
<1>5. ASSUME NEW j \in Subs
      PROVE  SubInv(sub[j], j \in Ahead)'
  <2>1. PICK s, k : s = sub[j] /\ k = (j \in Ahead')
    OBVIOUS
  <2>2. /\ SlotOK(s) /\ s.opening \in Nat /\ s.want \in Nat
        /\ Waiting(s) => s.alive = "ALIVE" /\ <<s.opening, s.want>> \notin done
        /\ OfKept(s) /\ Live(s) => s.opening = used.opens
    BY <2>1, <1>0, QuietSub
  <2>3. SlotOK(s)'
    BY <2>2, <1>0, <1>1 DEF SlotOK
  <2>4. OfKept(s) /\ Live(s) => s.opening = used'.opens
    BY <2>2, <1>1
  <2>5. ~(Waiting(s) /\ <<s.opening, s.want>> \in done')
    BY <2>2, <1>0
  <2>6. Over(s) => Over(s)'
    BY <2>2, <1>1, <1>2 DEF Over
  <2>7. SubInv(s, k)'
    BY <2>1, <2>3, <2>4, <2>5, <2>6, <1>0, <1>1, PublishInv
  <2> QED BY <2>1, <2>7, <1>0
<1> QED BY <1>3, <1>4, <1>5 DEF IInv, SubOK

LEMMA StoreCloseStep ==
    ASSUME IInv, TypeOK', SnapOK', StoreClose
    PROVE  IInv'
PROOF
<1>0. /\ walk = NoWalk /\ stale = NoWalk /\ UNCHANGED <<sub, head, hist, done, used, stale, early>> /\ snap' = NoSnap /\ snap # NoSnap
      /\ \A i \in Subs : sub[i].alive # "LOADED"
  BY DEF StoreClose, PumpIdle
<1>1. walk'.kind = "closing" /\ walk'.pc = "head"
  <2>1. Start("closing", 0, 0, 0)
    BY DEF StoreClose
  <2> QED BY <2>1, StartType
<1>2. ChainOK' /\ Ahead' = Chain /\ StaleOK'
  BY <1>0, <1>1, ChainKept, WalkBegins, StaleKept
<1>3. WalkOK'
  BY <1>0, <1>1, WalkBegins DEF WalkOK
<1>4. ASSUME NEW j \in Subs
      PROVE  SubInv(sub[j], j \in Ahead)'
  <2>1. PICK s, k : s = sub[j] /\ k = (j \in Ahead')
    OBVIOUS
  <2>2. /\ SlotOK(s) /\ s.opening \in Nat /\ s.alive # "LOADED"
        /\ Waiting(s) => s.alive = "ALIVE" /\ <<s.opening, s.want>> \notin done
        /\ OfKept(s) /\ Live(s) => s.opening = used.opens
    BY <2>1, <1>0, QuietSub
  <2>3. SlotOK(s)'
    BY <2>2, <1>0 DEF SlotOK
  <2>4. OfKept(s) /\ Live(s) => s.opening = used'.opens /\ k
    <3>1. SUFFICES ASSUME OfKept(s), Live(s) PROVE s.opening = used.opens /\ k
      BY <1>0
    <3>2. s.alive = "ALIVE"
      BY <3>1 DEF Live
    <3>4. s.opening = used.opens
      BY <3>1, <2>2
    <3>5. j \in Ahead'
      BY <3>2, <3>4, <2>1, <1>0, <1>1, WalkBegins
    <3> QED BY <3>4, <3>5, <2>1
  <2>5. ~(Waiting(s) /\ <<s.opening, s.want>> \in done')
    BY <2>2, <1>0
  <2>6. Over(s)'
    BY <1>0 DEF Over
  <2>7. SubInv(s, k)'
    BY <2>1, <2>3, <2>4, <2>5, <2>6, <1>0, <1>1, PublishInv
  <2> QED BY <2>1, <2>7, <1>0
<1> QED BY <1>2, <1>3, <1>4 DEF IInv, SubOK

\* the chain of a store that is opened again starts empty; nobody whose
\* opening no callback overtook is waiting then
LEMMA StoreOpenStep ==
    ASSUME IInv, TypeOK', SnapOK', StoreOpen
    PROVE  IInv'
PROOF
<1>0. /\ UNCHANGED <<floor, sub, hist, done>> /\ snap = NoSnap /\ head' = None /\ stale' = walk /\ walk' = NoWalk
      /\ early' = IF walk = NoWalk THEN early ELSE early \cup {used.opens, used'.opens}
  BY DEF StoreOpen
<1>1. snap' # NoSnap /\ used'.opens = used.opens + 1 /\ used.opens \in Nat
  BY StoreOpenFacts, SnapFacts
<1>2. Chain' = {} /\ Ahead' = {} /\ walk.kind \in {"none", "closing"} /\ walk \in WalkRec /\ WalkOK
  <2>1. Chain' = {} /\ Ahead' = {}
    BY <1>0, ReachNone DEF Chain, Ahead, AheadOf, NoWalk
  <2>2. walk \in WalkRec /\ WalkOK
    BY DEF IInv, TypeOK
  <2> QED BY <2>1, <2>2, <1>0 DEF WalkOK, WalkRec
<1>3. ASSUME NEW j \in Subs
      PROVE  /\ SlotOK(sub[j]) /\ sub[j].alive # "LOADED" /\ sub[j].opening \in Nat
             /\ sub[j].alive = "ALIVE" => sub[j].opening \in 1..used.opens /\ sub[j].want \in Seqs
             /\ sub[j].opening > 0 => sub[j].opening < used'.opens
  <2>1. PICK s \in SubRec : s = sub[j]
    BY SubFacts
  <2>2. SlotOK(s) /\ s.opening \in Nat
    BY <2>1, SubFacts DEF SubInv, SubRec
  <2>3. s.alive # "LOADED" /\ (s.alive = "ALIVE" => s.opening \in 1..used.opens /\ s.want \in Seqs)
    BY <2>2, <1>0 DEF SlotOK
  <2>4. s.opening > 0 => s.alive = "ALIVE"
    BY <2>2, <2>3 DEF SlotOK
  <2> QED BY <2>1, <2>2, <2>3, <2>4, <1>1
<1>4. ChainOK'
  <2>1. Linear(sub', head')
    BY <1>0, <1>2 DEF Linear, Chain
  <2>2. ASSUME NEW j \in Subs, sub'[j].alive = "ALIVE", sub'[j].opening = used'.opens
        PROVE  FALSE
    <3>1. sub[j].opening \in 1..used.opens /\ sub[j].opening = used.opens + 1
      BY <2>2, <1>0, <1>1, <1>3
    <3> QED BY <3>1, <1>1
  <2> QED BY <2>1, <2>2, <1>2 DEF ChainOK
<1>5. WalkOK'
  BY <1>0, <1>2 DEF WalkOK, NoWalk
<1>6. StaleOK'
  <2>1. StaleAhead' \subseteq Ahead
    <3>1. CASE walk.kind = "none"
      BY <3>1, <1>0 DEF StaleAhead, AheadOf
    <3>2. CASE walk.pc = "head"
      BY <3>2, <1>0, ReachNone DEF StaleAhead, AheadOf
    <3>3. CASE walk.kind # "none" /\ walk.pc # "head"
      BY <3>3, <1>0 DEF StaleAhead, Ahead, AheadOf
    <3> QED BY <3>1, <3>2, <3>3
  <2>2. ASSUME NEW j \in StaleAhead'
        PROVE  sub'[j].alive \notin {"FREE", "LOADED"} /\ sub'[j].opening \in early' \cup {0}
    <3>1. walk # NoWalk
      BY <2>2, <1>0 DEF StaleAhead, AheadOf, NoWalk
    <3>2. sub[j].alive \notin {"FREE", "LOADED"} /\ sub[j].opening \in {0, used.opens}
      BY <2>1, <2>2, <1>2 DEF WalkOK
    <3> QED BY <3>1, <3>2, <1>0
  <2>3. walk # NoWalk => used'.opens \in early'
    BY <1>0
  <2> QED BY <2>2, <2>3, <1>0, <1>1, <1>2 DEF StaleOK, WalkOK
<1>7. ASSUME NEW j \in Subs
      PROVE  SubInv(sub[j], j \in Ahead)'
  <2>0. PICK s \in SubRec : s = sub[j]
    BY SubFacts
  <2>1. PICK h, k : h = (j \in Ahead) /\ k = (j \in Ahead')
    OBVIOUS
  <2>2. /\ SlotOK(s) /\ s.alive # "LOADED" /\ s.opening \in Nat
        /\ s.alive = "ALIVE" => s.opening \in 1..used.opens /\ s.want \in Seqs
        /\ s.opening > 0 => s.opening < used'.opens
        /\ SubInv(s, h)
    BY <2>0, <2>1, <1>3, SubFacts
  <2>3. SlotOK(s)'
    <3>1. s.alive = "ALIVE" => s.opening \in 1..used'.opens /\ s.want \in Seqs
      BY <2>2, <1>1
    <3> QED BY <2>2, <3>1 DEF SlotOK
  <2>4. Told(s, k)'
    <3>1. ~(Waiting(s) /\ <<s.opening, s.want>> \in done)
      BY <2>2, <1>2 DEF SubInv, Told
    <3> QED BY <3>1, <1>0 DEF Told, Waiting
  <2>5. ASSUME OfKept(s)'
        PROVE  StreamOK(s, k)'
    <3>1. OfKept(s) /\ s.opening > 0 /\ (walk # NoWalk => s.opening # used.opens)
      BY <2>5, <1>0 DEF OfKept
    <3>2. StreamOK(s, h)
      BY <3>1, <2>2 DEF SubInv
    <3>3. ~Live(s)
      <4>1. CASE walk = NoWalk
        BY <4>1, <3>2, <1>0 DEF StreamOK, NoWalk
      <4>2. CASE walk # NoWalk
        BY <4>2, <3>1, <3>2 DEF StreamOK
      <4> QED BY <4>1, <4>2
    <3>4. ~Waiting(s)
      <4>1. s.attached => s.alive = "ALIVE"
        BY <2>2 DEF SlotOK
      <4> QED BY <4>1, <3>3 DEF Live, Waiting
    <3>5. PICK P : P = Pushed(s)
      OBVIOUS
    <3>6. Pushed(s)' = P /\ Over(s)'
      BY <3>1, <3>5, <2>2, <1>0 DEF Pushed, Over
    <3>7. Live(s)' = Live(s) /\ Waiting(s)' = Waiting(s) /\ Finished(s)' = Finished(s)
      BY DEF Live, Waiting, Finished
    <3>8. /\ s.sent <= Len(P) /\ (~s.errored => s.got \o s.ring = SubSeq(P, 1, s.sent))
          /\ Finished(s) => s.sent = Len(P)
      BY <3>2, <3>5 DEF StreamOK
    <3>9. CleanOK(s)'
      <4>1. CleanOK(s)
        BY <3>2 DEF StreamOK
      <4> QED BY <4>1, <3>5, <3>6 DEF CleanOK
    <3> QED BY <3>3, <3>4, <3>6, <3>7, <3>8, <3>9 DEF StreamOK
  <2>6. SubInv(s, k)'
    BY <2>3, <2>4, <2>5 DEF SubInv
  <2> QED BY <2>0, <2>1, <2>6, <1>0
<1> QED BY <1>4, <1>5, <1>6, <1>7 DEF IInv, SubOK

-----------------------------------------------------------------------------
(* The pump walks the chain.                                               *)

\* a subscriber that no walk owes anything
Quit(s) == ~(Waiting(s) /\ <<s.opening, s.want>> \in done)

Settled(s) ==
    /\ Live(s) => snap # NoSnap
    /\ Waiting(s) => s.sent = Len(Pushed(s))

LEMMA SettledInv ==
    ASSUME NEW s, NEW h, NEW k, SubInv(s, h), Quit(s), OfKept(s) => Settled(s),
           UNCHANGED <<snap, hist, done, used, early>>
    PROVE  SubInv(s, k)'
PROOF
<1>1. SlotOK(s)'
  BY DEF SubInv, SlotOK
<1>3. Told(s, k)'
  BY DEF Quit, Told, Waiting
<1>2. ASSUME OfKept(s)'
      PROVE  StreamOK(s, k)'
  <2>0. OfKept(s)
    BY <1>2 DEF OfKept
  <2>1. PICK P : P = Pushed(s)
    OBVIOUS
  <2>2. StreamOK(s, h) /\ Settled(s)
    BY <2>0 DEF SubInv
  <2>3. Pushed(s)' = P
    BY <2>1 DEF Pushed
  <2>4. s.sent <= Len(P) /\ (~s.errored => s.got \o s.ring = SubSeq(P, 1, s.sent))
    BY <2>1, <2>2 DEF StreamOK
  <2>5. Live(s)' = Live(s) /\ Waiting(s)' = Waiting(s) /\ Finished(s)' = Finished(s) /\ Over(s)' = Over(s)
    BY DEF Live, Waiting, Finished, Over
  <2>6. Live(s) => s.opening = used'.opens /\ snap' # NoSnap
    BY <2>2 DEF StreamOK, Settled
  <2>7. Waiting(s) => s.sent = Len(P)
    BY <2>1, <2>2 DEF Settled
  <2>8. Finished(s) => s.sent = Len(P) /\ Over(s)
    BY <2>1, <2>2 DEF StreamOK
  <2>9. CleanOK(s)'
    <3>1. CleanOK(s)
      BY <2>2 DEF StreamOK
    <3> QED BY <3>1, <2>1, <2>3, <2>5 DEF CleanOK
  <2> QED BY <2>3, <2>4, <2>5, <2>6, <2>7, <2>8, <2>9 DEF StreamOK
<1> QED BY <1>1, <1>2, <1>3 DEF SubInv

\* the walk owes nothing to whom it does not have ahead, to whom it does not
\* call, and to whom is not there any more
LEMMA NotOwed ==
    ASSUME NEW s, NEW h, SubInv(s, h),
           \/ ~h
           \/ s.alive # "ALIVE"
           \/ walk.kind # "closing" /\ s.want # walk.seq
    PROVE  Quit(s) /\ (OfKept(s) => Settled(s))
PROOF
<1>1. SlotOK(s) /\ Told(s, h) /\ (OfKept(s) => StreamOK(s, h))
  BY DEF SubInv
<1>2. CASE ~h \/ (walk.kind # "closing" /\ s.want # walk.seq)
  BY <1>1, <1>2 DEF StreamOK, Settled, Told, Quit
<1>3. CASE s.alive # "ALIVE"
  <2>1. ~s.attached
    BY <1>1, <1>3 DEF SlotOK
  <2> QED BY <2>1, <1>3 DEF Settled, Live, Waiting, Quit
<1> QED BY <1>2, <1>3

\* a step of the walk, for a subscriber it does not touch
LEMMA WalkOn ==
    ASSUME NEW s, NEW h, NEW k, SubInv(s, h), UNCHANGED <<snap, hist, done, used, early>>,
           \/ walk'.kind = walk.kind /\ walk'.seq = walk.seq /\ walk'.part = walk.part /\ (h => k)
           \/ ~h
           \/ s.alive # "ALIVE"
           \/ walk.kind # "closing" /\ s.want # walk.seq
    PROVE  SubInv(s, k)'
PROOF
<1>1. CASE ~h \/ s.alive # "ALIVE" \/ (walk.kind # "closing" /\ s.want # walk.seq)
  BY <1>1, NotOwed, SettledInv
<1>2. CASE walk'.kind = walk.kind /\ walk'.seq = walk.seq /\ walk'.part = walk.part /\ (h => k)
  <2>1. SlotOK(s)'
    BY DEF SubInv, SlotOK
  <2>3. Told(s, k)'
    BY <1>2 DEF SubInv, Told, Waiting
  <2>2. ASSUME OfKept(s)'
        PROVE  StreamOK(s, k)'
    <3>0. OfKept(s)
      BY <2>2 DEF OfKept
    <3>1. PICK P : P = Pushed(s)
      OBVIOUS
    <3>2. StreamOK(s, h)
      BY <3>0 DEF SubInv
    <3>3. Pushed(s)' = P
      BY <3>1 DEF Pushed
    <3>4. s.sent <= Len(P) /\ (~s.errored => s.got \o s.ring = SubSeq(P, 1, s.sent))
      BY <3>1, <3>2 DEF StreamOK
    <3>5. Live(s)' = Live(s) /\ Waiting(s)' = Waiting(s) /\ Finished(s)' = Finished(s) /\ Over(s)' = Over(s)
      BY DEF Live, Waiting, Finished, Over
    <3>6. Live(s) => s.opening = used'.opens /\ (snap' # NoSnap \/ (walk'.kind = "closing" /\ k))
      BY <3>2, <1>2 DEF StreamOK
    <3>7. Waiting(s) => \/ s.sent = Len(P)
                        \/ walk'.kind = "part" /\ walk'.seq = s.want /\ k /\ s.sent = walk'.part
      BY <3>1, <3>2, <1>2 DEF StreamOK
    <3>8. CleanOK(s)'
      <4>1. CleanOK(s)
        BY <3>2 DEF StreamOK
      <4> QED BY <4>1, <3>1, <3>3, <3>5 DEF CleanOK
    <3>9. Finished(s) => s.sent = Len(P) /\ Over(s)
      BY <3>1, <3>2 DEF StreamOK
    <3> QED BY <3>3, <3>4, <3>5, <3>6, <3>7, <3>8, <3>9 DEF StreamOK
  <2> QED BY <2>1, <2>2, <2>3 DEF SubInv
<1> QED BY <1>1, <1>2

\* where Go leads
LEMMA GoFacts ==
    ASSUME NEW w \in WalkRec, w.kind # "none", NEW n \in Subs \cup {None}, NEW v, v = Go(w, n)
    PROVE  /\ \A t, h : AheadOf(v, t, h) = Reach(t, n)
           /\ \/ n = None /\ v = NoWalk
              \/ /\ n # None /\ v.kind = w.kind /\ v.seq = w.seq /\ v.part = w.part
                 /\ v.data = w.data /\ v.pc = "look" /\ v.at = n
PROOF
<1>2. CASE n = None
  <2>1. v = NoWalk /\ v.kind = "none"
    BY <1>2 DEF Go, NoWalk
  <2> QED BY <2>1, <1>2, ReachNone DEF AheadOf
<1>3. CASE n # None
  <2>1. /\ v.kind = w.kind /\ v.seq = w.seq /\ v.part = w.part
        /\ v.data = w.data /\ v.pc = "look" /\ v.at = n
    BY <1>3 DEF Go, WalkRec
  <2> QED BY <1>3, <2>1 DEF AheadOf
<1> QED BY <1>2, <1>3

\* the walk goes on to n: it may leave out those it does not owe a call
LEMMA WalkGoes ==
    ASSUME IInv, TypeOK', walk.kind # "none", NEW n \in Subs \cup {None}, walk' = Go(walk, n),
           UNCHANGED <<snap, head, hist, done, used, early>>,
           Reach(sub', n) \subseteq Ahead, Reach(sub', n) \subseteq Subs,
           \A j \in Reach(sub', n) : sub'[j].alive = sub[j].alive /\ sub'[j].opening = sub[j].opening
    PROVE  /\ WalkOK' /\ Ahead' = Reach(sub', n)
           /\ \A j \in Subs : sub'[j] = sub[j]
                              /\ (j \in Ahead => \/ j \in Reach(sub', n)
                                                 \/ sub[j].alive # "ALIVE"
                                                 \/ walk.kind # "closing" /\ sub[j].want # walk.seq)
                              => SubInv(sub[j], j \in Ahead)'
PROOF
<1>0. walk \in WalkRec /\ WalkOK
  BY DEF IInv, TypeOK
<1>1. /\ Ahead' = Reach(sub', n)
      /\ \/ n = None /\ walk' = NoWalk
         \/ /\ n # None /\ walk'.kind = walk.kind /\ walk'.seq = walk.seq /\ walk'.part = walk.part
            /\ walk'.data = walk.data /\ walk'.pc = "look" /\ walk'.at = n
  BY <1>0, GoFacts DEF Ahead
<1>2. n = None => Reach(sub', n) = {}
  BY ReachNone
<1>3. WalkOK'
  <2>1. CASE n = None /\ walk' = NoWalk
    <3>1. Ahead' = {}
      BY <1>1, <1>2, <2>1
    <3> QED BY <3>1, <2>1 DEF WalkOK, NoWalk
  <2>2. CASE /\ n # None /\ walk'.kind = walk.kind /\ walk'.seq = walk.seq /\ walk'.part = walk.part
             /\ walk'.data = walk.data /\ walk'.pc = "look" /\ walk'.at = n
    <3>1. ASSUME NEW j \in Ahead'
          PROVE  sub'[j].alive \notin {"FREE", "LOADED"} /\ sub'[j].opening \in {0, used'.opens}
      BY <1>0, <1>1 DEF WalkOK
    <3> QED BY <2>2, <3>1, <1>0 DEF WalkOK
  <2> QED BY <2>1, <2>2, <1>1
<1>4. ASSUME NEW j \in Subs, sub'[j] = sub[j],
             j \in Ahead => \/ j \in Reach(sub', n)
                            \/ sub[j].alive # "ALIVE"
                            \/ walk.kind # "closing" /\ sub[j].want # walk.seq
      PROVE  SubInv(sub[j], j \in Ahead)'
  <2>1. PICK s, h, k : s = sub[j] /\ h = (j \in Ahead) /\ k = (j \in Ahead')
    OBVIOUS
  <2>2. SubInv(s, h)
    BY <2>1, SubFacts
  <2>3. \/ walk'.kind = walk.kind /\ walk'.seq = walk.seq /\ walk'.part = walk.part /\ (h => k)
        \/ ~h
        \/ s.alive # "ALIVE"
        \/ walk.kind # "closing" /\ s.want # walk.seq
    <3>1. CASE j \in Reach(sub', n)
      BY <3>1, <2>1, <1>1, <1>2
    <3>2. CASE j \notin Reach(sub', n)
      BY <3>2, <2>1, <1>4
    <3> QED BY <3>1, <3>2
  <2>4. SubInv(s, k)'
    BY <2>2, <2>3, WalkOn
  <2> QED BY <2>1, <2>4, <1>4
<1> QED BY <1>1, <1>3, <1>4

\* a walk that moves leaves an overtaken callback alone
LEMMA StaleStays ==
    ASSUME IInv, UNCHANGED <<sub, head, stale, early, used, snap>>
    PROVE  StaleOK'
PROOF
<1>1. snap' # NoSnap \/ stale = NoWalk
  BY DEF IInv, StaleOK
<1> QED BY <1>1, StaleKept

LEMMA WalkHeadStep ==
    ASSUME IInv, TypeOK', SnapOK', WalkHead
    PROVE  IInv'
PROOF
<1>0. /\ walk.kind # "none" /\ walk.pc = "head" /\ walk' = Go(walk, head)
      /\ UNCHANGED <<snap, head, floor, sub, hist, done, used, stale, early>>
  BY DEF WalkHead
<1>1. head \in Subs \cup {None} /\ Ahead = Reach(sub', head) /\ Reach(sub', head) \subseteq Subs
  BY <1>0 DEF IInv, TypeOK, Ahead, AheadOf, Reach
<1>2. ChainOK' /\ StaleOK'
  BY <1>0, ChainKept, StaleStays
<1>3. WalkOK' /\ \A j \in Subs : SubInv(sub[j], j \in Ahead)'
  BY <1>0, <1>1, WalkGoes
<1> QED BY <1>2, <1>3 DEF IInv, SubOK

LEMMA WalkLookStep ==
    ASSUME IInv, TypeOK', SnapOK', WalkLook
    PROVE  IInv'
PROOF
<1>0. /\ walk.pc = "look" /\ UNCHANGED <<snap, head, floor, sub, hist, done, used, stale, early>>
      /\ walk' = IF sub[walk.at].alive = "ALIVE" /\ (walk.kind = "closing" \/ sub[walk.at].want = walk.seq)
                 THEN [walk EXCEPT !.pc = "call", !.next = sub[walk.at].next]
                 ELSE Go(walk, sub[walk.at].next)
  BY DEF WalkLook
<1>1. walk \in WalkRec /\ sub \in [Subs -> SubRec] /\ WalkOK /\ Links(sub)
  BY TableLinks DEF IInv, TypeOK
<1>2. walk.kind # "none" /\ walk.at \in Subs
  BY <1>0, <1>1 DEF WalkOK, NoWalk, WalkRec
<1>3. PICK a, n : a = walk.at /\ n = sub[a].next
  OBVIOUS
<1>4. a \in Subs /\ n \in Subs \cup {None} /\ Ahead = {a} \cup Reach(sub, n)
  BY <1>0, <1>1, <1>2, <1>3, ReachStep DEF Ahead, AheadOf, Links
<1>5. ChainOK' /\ StaleOK'
  BY <1>0, ChainKept, StaleStays
<1>6. CASE sub[a].alive = "ALIVE" /\ (walk.kind = "closing" \/ sub[a].want = walk.seq)
  <2>1. /\ walk'.kind = walk.kind /\ walk'.seq = walk.seq /\ walk'.part = walk.part /\ walk'.data = walk.data
        /\ walk'.pc = "call" /\ walk'.at = a /\ walk'.next = n
    BY <1>0, <1>1, <1>3, <1>6 DEF WalkRec
  <2>2. Ahead' = Ahead
    BY <2>1, <1>0, <1>2, <1>4 DEF Ahead, AheadOf
  <2>3. WalkOK'
    BY <2>1, <2>2, <1>0, <1>1, <1>2, <1>3, <1>6 DEF WalkOK
  <2>4. ASSUME NEW j \in Subs
        PROVE  SubInv(sub[j], j \in Ahead)'
    <3>1. PICK s, h : s = sub[j] /\ h = (j \in Ahead)
      OBVIOUS
    <3>2. SubInv(s, h)
      BY <3>1, SubFacts
    <3>3. SubInv(s, h)'
      BY <3>2, <2>1, <1>0, WalkOn
    <3> QED BY <3>1, <3>3, <2>2, <1>0
  <2> QED BY <1>5, <2>3, <2>4 DEF IInv, SubOK
<1>7. CASE ~(sub[a].alive = "ALIVE" /\ (walk.kind = "closing" \/ sub[a].want = walk.seq))
  <2>1. walk' = Go(walk, n) /\ Reach(sub', n) = Reach(sub, n) /\ Reach(sub, n) \subseteq Subs
    BY <1>0, <1>3, <1>7 DEF Reach
  <2>2. \A j \in Subs : j \in Ahead => \/ j \in Reach(sub', n)
                                       \/ sub[j].alive # "ALIVE"
                                       \/ walk.kind # "closing" /\ sub[j].want # walk.seq
    BY <2>1, <1>4, <1>7
  <2>3. WalkOK' /\ \A j \in Subs : SubInv(sub[j], j \in Ahead)'
    BY <2>1, <2>2, <1>0, <1>2, <1>4, WalkGoes
  <2> QED BY <1>5, <2>3 DEF IInv, SubOK
<1> QED BY <1>6, <1>7

\* one more part is one more element
LEMMA OneMore ==
    ASSUME NEW P \in Seq(Nat), NEW n \in Nat, NEW d, Len(P) = n + 1, P[n + 1] = d
    PROVE  SubSeq(P, 1, n + 1) = Append(SubSeq(P, 1, n), d) /\ SubSeq(P, 1, n) \in Seq(Nat) /\ d \in Nat
PROOF
<1>1. SubSeq(P, 1, n) = [q \in 1..n |-> P[q]] /\ SubSeq(P, 1, n + 1) = [q \in 1..(n + 1) |-> P[q]]
  OBVIOUS
<1>2. \A q \in 1..(n + 1) : P[q] \in Nat
  BY ElementOfSeq
<1>3. PICK S, T : S = SubSeq(P, 1, n) /\ T = SubSeq(P, 1, n + 1)
  OBVIOUS
<1>4. S \in Seq(Nat) /\ T \in Seq(Nat) /\ Len(S) = n /\ Len(T) = n + 1 /\ d \in Nat
  BY <1>1, <1>2, <1>3
<1>5. /\ Append(S, d) \in Seq(Nat) /\ Len(Append(S, d)) = n + 1
      /\ \A q \in 1..n : Append(S, d)[q] = S[q]
      /\ Append(S, d)[n + 1] = d
  BY <1>4, AppendProperties
<1>6. ASSUME NEW q \in 1..(n + 1)
      PROVE  T[q] = Append(S, d)[q]
  <2>1. CASE q \in 1..n
    <3>1. T[q] = P[q] /\ S[q] = P[q]
      BY <2>1, <1>1, <1>3
    <3> QED BY <2>1, <3>1, <1>5
  <2>2. CASE q = n + 1
    BY <2>2, <1>1, <1>3, <1>5
  <2>3. q \in 1..n \/ q = n + 1
    OBVIOUS
  <2> QED BY <2>1, <2>2, <2>3
<1>7. T = Append(S, d)
  BY <1>4, <1>5, <1>6, SeqEqual
<1> QED BY <1>3, <1>4, <1>7

LEMMA AppendConcat ==
    ASSUME NEW a \in Seq(Nat), NEW b \in Seq(Nat), NEW d \in Nat
    PROVE  a \o Append(b, d) = Append(a \o b, d)
PROOF
<1>0. <<d>> \in Seq(Nat)
  OBVIOUS
<1>1. PICK e \in Seq(Nat) : e = <<d>>
  BY <1>0, Zenon
<1>2. a \o b \in Seq(Nat)
  BY ConcatProperties
<1>3. Append(b, d) = b \o e /\ Append(a \o b, d) = (a \o b) \o e
  BY <1>1, <1>2, AppendIsConcat
<1> QED BY <1>1, <1>3, ConcatAssociative

\* what is emitted is one more part, or the stream is in error
Emitted(s, d, e) ==
    /\ e.end = s.end /\ e.aborted = s.aborted
    /\ s.proto = "H1" => e.ring = <<>> /\ e.errored = s.errored
    /\ s.errored => e.errored
    /\ s.proto # "H1" /\ s.read # "idle" => e.late
    /\ ~e.errored => e.got \o e.ring = Append(s.got \o s.ring, d)

LEMMA EmitOne ==
    ASSUME NEW s \in SubRec, NEW d \in Nat, s.proto = "H1" => s.ring = <<>>, NEW e, e = sub_emit(s, d)
    PROVE  Emitted(s, d, e)
PROOF
<1>1. s.got \in Seq(Nat) /\ s.ring \in Seq(Nat)
  BY DEF SubRec
<1>2. CASE s.proto = "H1"
  <2>1. PICK g : g = Append(s.got, d)
    OBVIOUS
  <2>2. e = [s EXCEPT !.got = g] /\ s.ring = <<>>
    BY <1>2, <2>1 DEF sub_emit
  <2>3. /\ e.end = s.end /\ e.aborted = s.aborted /\ e.errored = s.errored
        /\ e.ring = <<>> /\ e.got = g
    BY <2>2 DEF SubRec
  <2>4. g \o <<>> = g /\ s.got \o <<>> = s.got
    BY <2>1, <1>1
  <2> QED BY <1>2, <2>1, <2>2, <2>3, <2>4 DEF Emitted
<1>3. CASE s.proto # "H1" /\ Len(s.ring) < RingCap
  <2>1. PICK g, l : g = Append(s.ring, d) /\ l = Late(s)
    OBVIOUS
  <2>2. e = [s EXCEPT !.ring = g, !.late = l]
    BY <1>3, <2>1 DEF sub_emit
  <2>3. /\ e.end = s.end /\ e.aborted = s.aborted /\ e.errored = s.errored
        /\ e.ring = g /\ e.got = s.got /\ e.late = l
    BY <2>2 DEF SubRec
  <2>4. s.got \o g = Append(s.got \o s.ring, d)
    <3>1. PICK a \in Seq(Nat), b \in Seq(Nat) : a = s.got /\ b = s.ring
      BY <1>1
    <3>2. a \o Append(b, d) = Append(a \o b, d)
      BY AppendConcat
    <3> QED BY <2>1, <3>1, <3>2
  <2>5. s.read # "idle" => l
    BY <2>1 DEF Late
  <2> QED BY <1>3, <2>3, <2>4, <2>5 DEF Emitted
<1>4. CASE s.proto # "H1" /\ ~(Len(s.ring) < RingCap)
  <2>0. PICK l : l = Late(s)
    OBVIOUS
  <2>1. e = [s EXCEPT !.errored = TRUE, !.late = l]
    BY <1>4, <2>0 DEF sub_emit
  <2>2. e.end = s.end /\ e.aborted = s.aborted /\ e.errored /\ e.late = l
    BY <2>1 DEF SubRec
  <2>3. s.read # "idle" => l
    BY <2>0 DEF Late
  <2> QED BY <1>4, <2>2, <2>3 DEF Emitted
<1> QED BY <1>2, <1>3, <1>4

\* a client written to directly has everything that was sent
LEMMA GotAll ==
    ASSUME NEW s \in SubRec, NEW P \in Seq(Nat), s.ring = <<>>, s.got \o s.ring = SubSeq(P, 1, Len(P))
    PROVE  s.got = P
PROOF
<1>1. PICK g \in Seq(Nat) : g = s.got
  BY DEF SubRec
<1>2. g \o <<>> = g
  BY ConcatEmptySeq
<1>3. SubSeq(P, 1, Len(P)) = P
  BY SubSeqFull
<1> QED BY <1>1, <1>2, <1>3

\* what is true of the subscriber that is called
LEMMA CalledFacts ==
    ASSUME IInv, walk.pc = "call", NEW s, s = sub[walk.at]
    PROVE  /\ walk.at \in Subs /\ walk.kind \in {"part", "done", "closing"} /\ walk.part \in Nat /\ walk.data \in Nat
           /\ s \in SubRec /\ SlotOK(s) /\ SubInv(s, TRUE) /\ Told(s, TRUE)
           /\ s.alive # "ALIVE" => s.opening = 0 /\ ~s.attached
           /\ s.alive = "ALIVE" => /\ s.opening > 0 /\ Pushed(s) \in Seq(Nat)
                                   /\ walk.kind # "closing" => s.want = walk.seq
           /\ OfKept(s) => s.alive = "ALIVE" /\ StreamOK(s, TRUE)
PROOF
<1>1. walk \in WalkRec /\ WalkOK
  BY DEF IInv, TypeOK
<1>2. walk.at \in Subs /\ walk.kind \in {"part", "done", "closing"} /\ walk.part \in Nat /\ walk.data \in Nat
  BY <1>1 DEF WalkOK, WalkRec, NoWalk
<1>3. walk.at \in Ahead
  BY <1>2 DEF Ahead, AheadOf
<1>4. PICK h : h = (walk.at \in Ahead)
  OBVIOUS
<1>5. s \in SubRec /\ SubInv(s, h) /\ h
  BY <1>2, <1>3, <1>4, SubFacts
<1>6. SubInv(s, TRUE)
  BY <1>5 DEF SubInv, StreamOK, Told
<1>7. SlotOK(s) /\ Told(s, TRUE)
  BY <1>6 DEF SubInv
<1>8. s.alive \notin {"FREE", "LOADED"}
  BY <1>1, <1>3 DEF WalkOK
<1>9. s.alive # "ALIVE" => s.opening = 0 /\ ~s.attached
  BY <1>7, <1>8 DEF SlotOK
<1>10. ASSUME s.alive = "ALIVE"
       PROVE  s.opening > 0 /\ (walk.kind # "closing" => s.want = walk.seq) /\ Pushed(s) \in Seq(Nat)
  <2>1. s.opening \in 1..used.opens
    BY <1>7, <1>10 DEF SlotOK
  <2>2. s.opening > 0
    BY <2>1, SnapFacts
  <2>4. walk.kind # "closing" => s.want = walk.seq
    BY <1>1, <1>10 DEF WalkOK
  <2> QED BY <2>2, <2>4, <1>2, SubFacts
<1>11. OfKept(s) => s.alive = "ALIVE" /\ StreamOK(s, TRUE)
  <2>1. OfKept(s) => s.opening # 0
    BY DEF OfKept
  <2> QED BY <2>1, <1>6, <1>9 DEF SubInv
<1> QED BY <1>2, <1>5, <1>6, <1>7, <1>9, <1>10, <1>11

LEMMA PartCalled ==
    ASSUME IInv, walk.pc = "call", walk.kind = "part", NEW s, s = sub[walk.at], NEW k,
           UNCHANGED <<snap, hist, done, used, early>>
    PROVE  \A r : r = on_part_pushed(s) => SubInv(r, k)'
PROOF
<1>0. SUFFICES ASSUME NEW r, r = on_part_pushed(s) PROVE SubInv(r, k)'
  OBVIOUS
<1>1. /\ s \in SubRec /\ SlotOK(s) /\ SubInv(s, TRUE) /\ walk.part \in Nat /\ walk.data \in Nat
      /\ s.alive # "ALIVE" => s.opening = 0 /\ ~s.attached
      /\ s.alive = "ALIVE" => s.opening > 0 /\ s.want = walk.seq /\ Pushed(s) \in Seq(Nat)
      /\ OfKept(s) => s.alive = "ALIVE" /\ StreamOK(s, TRUE)
      /\ Told(s, TRUE)
  BY CalledFacts
<1>2. /\ snap # NoSnap /\ walk.seq = snap.msn /\ Len(snap.live) = walk.part + 1
      /\ snap.live[walk.part + 1] = walk.data
  BY DEF IInv, WalkOK
<1>5. Quit(s)
  BY <1>1 DEF Told, Quit
<1>3. CASE ~(s.attached /\ ~s.ended /\ walk.part = s.sent)
  <2>1. r = s
    BY <1>0, <1>3 DEF on_part_pushed
  <2>2. ASSUME OfKept(s)
        PROVE  Settled(s)
    <3>1. StreamOK(s, TRUE)
      BY <2>2, <1>1
    <3>2. Waiting(s) => s.sent # walk.part
      BY <1>3 DEF Waiting
    <3> QED BY <3>1, <3>2, <1>2 DEF Settled, StreamOK
  <2> QED BY <2>1, <2>2, <1>1, <1>5, SettledInv
<1>4. CASE s.attached /\ ~s.ended /\ walk.part = s.sent
  <2>1. s.alive = "ALIVE" /\ s.opening > 0 /\ s.want = snap.msn /\ Pushed(s) \in Seq(Nat) /\ Waiting(s) /\ Live(s)
    BY <1>1, <1>2, <1>4 DEF Waiting, Live
  <2>2. <<s.opening, s.want>> \notin done
    BY <2>1, <1>5 DEF Quit
  <2>3. PICK P \in Seq(Nat), n \in Nat, d \in Nat : P = Pushed(s) /\ n = s.sent /\ d = walk.data
    BY <2>1, <1>1 DEF SubRec
  <2>5. PICK e \in SubRec : e = sub_emit(s, d)
    BY EmitType, <1>1
  <2>6. /\ Keeps(s, e) /\ e.sent = n /\ e.ended = s.ended /\ e.end = s.end /\ e.aborted = s.aborted
        /\ s.proto = "H1" => e.ring = <<>> /\ e.errored = s.errored
        /\ s.errored => e.errored
        /\ s.proto # "H1" /\ s.read # "idle" => e.late
        /\ ~e.errored => e.got \o e.ring = Append(s.got \o s.ring, d)
    <3>1. s.proto = "H1" => s.ring = <<>>
      BY <1>1 DEF SlotOK
    <3>2. Keeps(s, e) /\ e.sent = s.sent /\ e.ended = s.ended
      BY <2>5, <1>1, EmitKeeps
    <3>3. Emitted(s, d, e)
      BY <3>1, <2>5, <1>1, EmitOne
    <3> QED BY <3>2, <3>3, <2>3 DEF Emitted
  <2>7. r = [e EXCEPT !.sent = n + 1]
    BY <1>0, <1>4, <2>3, <2>5, <2>6 DEF on_part_pushed
  <2>8. /\ r.alive = s.alive /\ r.opening = s.opening /\ r.want = s.want /\ r.proto = s.proto /\ r.attached = s.attached
        /\ r.ended = s.ended /\ r.end = s.end /\ r.sent = n + 1 /\ r.errored = e.errored
        /\ r.got = e.got /\ r.ring = e.ring /\ r.read = s.read /\ r.late = e.late
    BY <2>6, <2>7 DEF Keeps, SubRec
  <2>16. r.end = "clean" => r.proto = "H3" /\ r.errored
    BY <2>6, <2>8, <1>1, <1>4 DEF SlotOK
  <2>9. SlotOK(r)'
    <3>1. /\ r.proto = "H1" => r.ring = <<>> /\ ~r.errored
          /\ r.read # "idle" => r.late \/ (~r.errored /\ r.ring = <<>>)
      BY <2>6, <2>8, <1>1 DEF SlotOK
    <3> QED BY <3>1, <2>8, <2>16, <1>1, <1>4 DEF SlotOK
  <2>17. Told(r, k)'
    BY <2>2, <2>8 DEF Told
  <2>18. ASSUME OfKept(r)'
         PROVE  StreamOK(r, k)'
    <3>0. OfKept(s)
      BY <2>18, <2>8 DEF OfKept
    <3>1. StreamOK(s, TRUE) /\ s.opening = used.opens
      BY <3>0, <2>1, <1>1 DEF StreamOK
    <3>2. P = snap.live /\ Len(P) = n + 1 /\ P[n + 1] = d
      <4>1. snap.live = hist[used.opens][snap.msn]
        BY <1>2, SnapFacts DEF SnapShows
      <4> QED BY <4>1, <3>1, <2>1, <2>3, <1>2, <1>4 DEF Pushed
    <3>3. Pushed(r)' = P
      BY <2>3, <2>8 DEF Pushed
    <3>4. ~r.errored => r.got \o r.ring = SubSeq(P, 1, n + 1)
      <4>1. SubSeq(P, 1, n + 1) = Append(SubSeq(P, 1, n), d)
        BY <3>2, OneMore
      <4>2. ~s.errored => s.got \o s.ring = SubSeq(P, 1, n)
        BY <3>1, <2>3 DEF StreamOK
      <4> QED BY <4>1, <4>2, <2>6, <2>8
    <3>5. ~Finished(r)' /\ r.opening = used'.opens /\ snap' # NoSnap
      BY <3>1, <2>8, <1>2, <1>4 DEF Finished
    <3>6. r.sent = Len(P) /\ r.sent <= Len(P)
      BY <3>2, <2>8
    <3>7. ~r.errored => r.got \o r.ring = SubSeq(P, 1, r.sent)
      BY <2>8, <3>4
    <3>8. CleanOK(r)'
      BY <2>16 DEF CleanOK
    <3> QED BY <3>3, <3>5, <3>6, <3>7, <3>8 DEF StreamOK
  <2> QED BY <2>9, <2>17, <2>18 DEF SubInv
<1> QED BY <1>3, <1>4

LEMMA DoneCalled ==
    ASSUME IInv, walk.pc = "call", walk.kind = "done", NEW s, s = sub[walk.at], NEW k,
           UNCHANGED <<snap, hist, done, used, early>>
    PROVE  \A r : r = on_segment_done(s) => SubInv(r, k)'
PROOF
<1>0. SUFFICES ASSUME NEW r, r = on_segment_done(s) PROVE SubInv(r, k)'
  OBVIOUS
<1>1. /\ s \in SubRec /\ SlotOK(s) /\ SubInv(s, TRUE)
      /\ s.alive # "ALIVE" => s.opening = 0 /\ ~s.attached
      /\ s.alive = "ALIVE" => s.opening > 0 /\ s.want = walk.seq /\ Pushed(s) \in Seq(Nat)
      /\ OfKept(s) => s.alive = "ALIVE" /\ StreamOK(s, TRUE)
  BY CalledFacts
<1>2. snap # NoSnap /\ walk.seq < snap.msn
  BY DEF IInv, WalkOK
<1>3. CASE ~s.attached \/ s.ended
  <2>1. r = s
    BY <1>0, <1>3 DEF on_segment_done, sub_end
  <2>2. Settled(s) /\ Quit(s)
    BY <1>2, <1>3 DEF Settled, Quit, Waiting
  <2> QED BY <2>1, <2>2, <1>1, SettledInv
<1>4. CASE s.attached /\ ~s.ended
  <2>1. s.alive = "ALIVE" /\ s.opening > 0 /\ s.want = walk.seq /\ Pushed(s) \in Seq(Nat) /\ Waiting(s)
    BY <1>1, <1>4 DEF Waiting
  <2>2. PICK v : v = IF s.proto = "H1" THEN "clean" ELSE s.end
    OBVIOUS
  <2>3. r = [s EXCEPT !.ended = TRUE, !.end = v]
    BY <1>0, <1>4, <2>2 DEF on_segment_done, sub_end
  <2>4. /\ r.alive = s.alive /\ r.opening = s.opening /\ r.want = s.want /\ r.proto = s.proto /\ r.attached = s.attached
        /\ r.ended = TRUE /\ r.sent = s.sent /\ r.errored = s.errored /\ r.got = s.got /\ r.ring = s.ring
        /\ r.read = s.read /\ r.late = s.late /\ r.end = v
    BY <2>3, <1>1 DEF SubRec
  <2>5. SlotOK(r)'
    BY <2>4, <1>1, <1>2, <1>4 DEF SlotOK
  <2>6. ~Live(r)' /\ ~Waiting(r)' /\ ~Waiting(r)
    BY <2>4, <1>4 DEF Live, Waiting
  <2>7. Told(r, k)'
    BY <2>6 DEF Told
  <2>8. ASSUME OfKept(r)'
        PROVE  StreamOK(r, k)'
    <3>0. OfKept(s)
      BY <2>8, <2>4 DEF OfKept
    <3>1. StreamOK(s, TRUE)
      BY <3>0, <1>1
    <3>2. PICK P \in Seq(Nat) : P = Pushed(s)
      BY <2>1
    <3>3. Pushed(r)' = P
      BY <2>4, <3>2 DEF Pushed
    <3>4. s.sent = Len(P) /\ s.sent <= Len(P) /\ (~s.errored => s.got \o s.ring = SubSeq(P, 1, s.sent))
      BY <2>1, <3>1, <3>2 DEF StreamOK
    <3>5. Over(r)'
      BY <2>1, <2>4, <1>2 DEF Over
    <3>6. CASE s.proto = "H1"
      <4>1. ~s.errored /\ s.ring = <<>>
        BY <3>6, <1>1 DEF SlotOK
      <4>2. s.got \o s.ring = SubSeq(P, 1, Len(P))
        BY <4>1, <3>4
      <4>3. s.got = P
        BY <4>1, <4>2, <1>1, GotAll
      <4>4. CleanOK(r)'
        BY <4>3, <3>3, <3>5, <2>4 DEF CleanOK
      <4> QED BY <4>4, <2>4, <3>3, <3>4, <2>6, <3>5 DEF StreamOK
    <3>7. CASE s.proto # "H1"
      <4>1. r.end = "clean" => r.proto = "H3" /\ r.errored
        BY <3>7, <2>2, <2>4, <1>1, <1>4 DEF SlotOK
      <4>2. CleanOK(r)'
        BY <4>1 DEF CleanOK
      <4> QED BY <4>2, <2>4, <3>3, <3>4, <2>6, <3>5 DEF StreamOK
    <3> QED BY <3>6, <3>7
  <2> QED BY <2>5, <2>7, <2>8 DEF SubInv
<1> QED BY <1>3, <1>4

\* what the closing callback makes of a subscriber, whichever store it is of
LEMMA ClosingSlot ==
    ASSUME NEW s \in SubRec, SlotOK(s), NEW r, r = on_store_closing(s), UNCHANGED <<snap, used>>
    PROVE  /\ SlotOK(r)' /\ ~Waiting(r) /\ ~Live(r)
           /\ r.alive = s.alive /\ r.opening = s.opening /\ r.want = s.want /\ r.proto = s.proto
           /\ r.attached = s.attached /\ r.sent = s.sent /\ r.got = s.got /\ r.ring = s.ring
           /\ s.errored => r.errored
           /\ s.late => r.late
           /\ \/ r.end = s.end /\ r.ended = s.ended
              \/ r.end = s.end /\ r.proto # "H1" /\ r.errored
              \/ r.end = "clean" /\ s.proto = "H1" /\ Waiting(s)
PROOF
<1>1. CASE ~s.attached
  <2>1. r = [s EXCEPT !.aborted = TRUE]
    BY <1>1 DEF on_store_closing
  <2>2. /\ r.alive = s.alive /\ r.opening = s.opening /\ r.want = s.want /\ r.proto = s.proto /\ r.attached = s.attached
        /\ r.sent = s.sent /\ r.got = s.got /\ r.ring = s.ring /\ r.aborted = TRUE /\ r.ended = s.ended
        /\ r.end = s.end /\ r.errored = s.errored /\ r.late = s.late /\ r.read = s.read
    BY <2>1 DEF SubRec
  <2>3. SlotOK(r)'
    BY <2>2 DEF SlotOK
  <2> QED BY <2>2, <2>3, <1>1 DEF Waiting, Live
<1>2. CASE s.attached /\ s.proto = "H1" /\ s.ended
  <2>1. r = s
    BY <1>2 DEF on_store_closing, sub_end
  <2>2. SlotOK(r)'
    BY <2>1 DEF SlotOK
  <2> QED BY <2>1, <2>2, <1>2 DEF Waiting, Live
<1>3. CASE s.attached /\ s.proto = "H1" /\ ~s.ended
  <2>1. r = [s EXCEPT !.ended = TRUE, !.end = "clean"]
    BY <1>3 DEF on_store_closing, sub_end
  <2>2. /\ r.alive = s.alive /\ r.opening = s.opening /\ r.want = s.want /\ r.proto = s.proto /\ r.attached = s.attached
        /\ r.sent = s.sent /\ r.got = s.got /\ r.ring = s.ring /\ r.ended = TRUE
        /\ r.end = "clean" /\ r.errored = s.errored /\ r.late = s.late /\ r.read = s.read
    BY <2>1 DEF SubRec
  <2>3. SlotOK(r)'
    BY <2>2, <1>3 DEF SlotOK
  <2> QED BY <2>2, <2>3, <1>3 DEF Waiting, Live
<1>4. CASE s.attached /\ s.proto # "H1"
  <2>0. PICK l : l = Late(s)
    OBVIOUS
  <2>1. r = [s EXCEPT !.ended = TRUE, !.errored = TRUE, !.late = l]
    BY <1>4, <2>0 DEF on_store_closing, sub_abort
  <2>2. /\ r.alive = s.alive /\ r.opening = s.opening /\ r.want = s.want /\ r.proto = s.proto /\ r.attached = s.attached
        /\ r.sent = s.sent /\ r.got = s.got /\ r.ring = s.ring /\ r.ended = TRUE
        /\ r.end = s.end /\ r.errored = TRUE /\ r.late = l /\ r.read = s.read
    BY <2>1 DEF SubRec
  <2>3. (s.late => l) /\ (s.read # "idle" => l)
    BY <2>0 DEF Late
  <2>4. SlotOK(r)'
    BY <2>2, <2>3, <1>4 DEF SlotOK
  <2> QED BY <2>2, <2>3, <2>4, <1>4 DEF Waiting, Live
<1> QED BY <1>1, <1>2, <1>3, <1>4

LEMMA ClosingCalled ==
    ASSUME IInv, walk.pc = "call", walk.kind = "closing", NEW s, s = sub[walk.at], NEW k,
           UNCHANGED <<snap, hist, done, used, early>>
    PROVE  \A r : r = on_store_closing(s) => SubInv(r, k)'
PROOF
<1>0. SUFFICES ASSUME NEW r, r = on_store_closing(s) PROVE SubInv(r, k)'
  OBVIOUS
<1>1. /\ s \in SubRec /\ SlotOK(s)
      /\ s.alive = "ALIVE" => Pushed(s) \in Seq(Nat)
      /\ OfKept(s) => s.alive = "ALIVE" /\ StreamOK(s, TRUE)
  BY CalledFacts
<1>2. snap' = NoSnap /\ snap = NoSnap
  BY DEF IInv, WalkOK
<1>3. /\ SlotOK(r)' /\ ~Waiting(r) /\ ~Live(r)
      /\ r.alive = s.alive /\ r.opening = s.opening /\ r.want = s.want /\ r.proto = s.proto
      /\ r.attached = s.attached /\ r.sent = s.sent /\ r.got = s.got /\ r.ring = s.ring
      /\ s.errored => r.errored
      /\ s.late => r.late
      /\ \/ r.end = s.end /\ r.ended = s.ended
         \/ r.end = s.end /\ r.proto # "H1" /\ r.errored
         \/ r.end = "clean" /\ s.proto = "H1" /\ Waiting(s)
  BY <1>0, <1>1, ClosingSlot
<1>4. Told(r, k)'
  BY <1>3 DEF Told, Waiting
<1>5. ASSUME OfKept(r)'
      PROVE  StreamOK(r, k)'
  <2>1. OfKept(s)
    BY <1>3, <1>5 DEF OfKept
  <2>2. StreamOK(s, TRUE)
    BY <2>1, <1>1
  <2>3. PICK P \in Seq(Nat) : P = Pushed(s)
    BY <2>1, <1>1
  <2>4. Pushed(r)' = P /\ Over(r)' /\ Over(s)
    BY <2>3, <1>2, <1>3 DEF Pushed, Over
  <2>5. r.sent <= Len(P) /\ (~r.errored => r.got \o r.ring = SubSeq(P, 1, r.sent))
    BY <2>2, <2>3, <1>3 DEF StreamOK
  <2>6. ~Live(r)' /\ ~Waiting(r)'
    BY <1>3 DEF Live, Waiting
  <2>7. CASE r.end = "clean" /\ s.proto = "H1" /\ Waiting(s)
    <3>1. ~s.errored /\ s.ring = <<>>
      BY <2>7, <1>1 DEF SlotOK
    <3>2. s.sent = Len(P) /\ s.got \o s.ring = SubSeq(P, 1, s.sent)
      BY <3>1, <2>7, <2>2, <2>3 DEF StreamOK
    <3>3. s.got \o s.ring = SubSeq(P, 1, Len(P))
      BY <3>2
    <3>4. s.got = P
      BY <3>1, <3>3, <1>1, GotAll
    <3>5. CleanOK(r)'
      BY <3>4, <2>4, <1>3 DEF CleanOK
    <3>6. r.sent = Len(P)
      BY <3>2, <1>3
    <3> QED BY <3>5, <3>6, <2>4, <2>5, <2>6 DEF StreamOK
  <2>8. CASE r.end = s.end
    <3>1. CleanOK(r)'
      <4>1. SUFFICES ASSUME s.end = "clean"
                     PROVE  \/ r.got = P /\ Over(r)'
                            \/ r.late /\ r.errored
                            \/ r.late /\ r.got \o r.ring = P /\ Over(r)'
                            \/ r.proto = "H3" /\ r.errored
        BY <2>4, <2>8 DEF CleanOK
      <4>2. \/ s.got = P /\ Over(s)
            \/ s.late /\ s.errored
            \/ s.late /\ s.got \o s.ring = P /\ Over(s)
            \/ s.proto = "H3" /\ s.errored
        BY <4>1, <2>2, <2>3 DEF StreamOK, CleanOK
      <4> QED BY <4>2, <2>4, <1>3
    <3>2. Finished(r)' => r.sent = Len(P)
      <4>1. SUFFICES ASSUME r.ended, ~r.errored, r.proto # "H1" \/ r.end = "clean"
                     PROVE  s.sent = Len(P)
        BY <1>3 DEF Finished
      <4>2. CASE r.ended = s.ended
        <5>1. Finished(s)
          BY <4>1, <4>2, <2>8, <1>3 DEF Finished
        <5> QED BY <5>1, <2>2, <2>3 DEF StreamOK
      <4>3. CASE Waiting(s)
        BY <4>3, <2>2, <2>3 DEF StreamOK
      <4> QED BY <4>1, <4>2, <4>3, <1>3
    <3> QED BY <3>1, <3>2, <2>4, <2>5, <2>6 DEF StreamOK
  <2> QED BY <2>7, <2>8, <1>3
<1> QED BY <1>3, <1>4, <1>5 DEF SubInv

LEMMA WalkCallStep ==
    ASSUME IInv, TypeOK', SnapOK', WalkCall
    PROVE  IInv'
PROOF
<1>0. /\ walk.pc = "call" /\ walk' = Go(walk, walk.next)
      /\ UNCHANGED <<snap, head, floor, hist, done, used, stale, early>>
  BY DEF WalkCall
<1>1. /\ walk \in WalkRec /\ sub \in [Subs -> SubRec] /\ sub' \in [Subs -> SubRec]
      /\ walk.next \in Subs \cup {None} /\ Links(sub) /\ Links(sub')
  BY TableLinks DEF IInv, TypeOK, WalkRec
<1>2. PICK a, n, s, r : a = walk.at /\ n = walk.next /\ s = sub[a] /\ r = sub'[a]
  OBVIOUS
<1>3. a \in Subs /\ walk.kind \in {"part", "done", "closing"} /\ s \in SubRec
  BY <1>0, <1>2, CalledFacts
<1>4. /\ \A j \in Subs \ {a} : sub'[j] = sub[j]
      /\ r = CASE walk.kind = "part" -> on_part_pushed(s)
               [] walk.kind = "done" -> on_segment_done(s)
               [] walk.kind = "closing" -> on_store_closing(s)
  BY <1>1, <1>2, <1>3 DEF WalkCall
<1>5. /\ walk.kind = "part" => r = on_part_pushed(s)
      /\ walk.kind = "done" => r = on_segment_done(s)
      /\ walk.kind = "closing" => r = on_store_closing(s)
  BY <1>4
<1>6. Keeps(s, r)
  BY <1>1, <1>3, <1>5, CallbackKeeps
<1>7. OnlySlot(a)
  BY <1>0, <1>2, <1>4, <1>6 DEF OnlySlot, SlotChange, Keeps
<1>8. ChainOK' /\ StaleOK'
  BY <1>0, <1>3, <1>7, SlotChain, SlotStale
<1>9. Reach(sub', n) = Reach(sub, n) /\ Reach(sub, n) \subseteq Subs
  <2>1. Reach(sub, n) \subseteq Subs
    BY DEF Reach
  <2>2. SameLinks(sub, sub', Reach(sub, n))
    BY <2>1, <1>2, <1>4, <1>6 DEF SameLinks, Keeps
  <2> QED BY <2>1, <2>2, <1>1, <1>2, ReachSame
<1>10. Ahead = {a} \cup Reach(sub, n)
  BY <1>0, <1>2, <1>3 DEF Ahead, AheadOf
<1>11. \A j \in Reach(sub', n) : sub'[j].alive = sub[j].alive /\ sub'[j].opening = sub[j].opening
  BY <1>2, <1>4, <1>6, <1>9 DEF Keeps
<1>12. walk.kind # "none" /\ n \in Subs \cup {None} /\ walk' = Go(walk, n) /\ Reach(sub', n) \subseteq Ahead
  BY <1>0, <1>1, <1>2, <1>3, <1>9, <1>10
<1>13. WalkOK' /\ \A j \in Subs \ {a} : SubInv(sub[j], j \in Ahead)'
  <2>1. \A j \in Subs \ {a} : sub'[j] = sub[j] /\ (j \in Ahead => j \in Reach(sub', n))
    BY <1>4, <1>9, <1>10
  <2> QED BY <2>1, <1>0, <1>9, <1>11, <1>12, WalkGoes
<1>15. SubInv(sub[a], a \in Ahead)'
  <2>1. PICK k : k = (a \in Ahead')
    OBVIOUS
  <2>2. SubInv(r, k)'
    <3>1. s = sub[walk.at]
      BY <1>2
    <3>2. CASE walk.kind = "part"
      BY <3>1, <3>2, <1>0, <1>5, PartCalled
    <3>3. CASE walk.kind = "done"
      BY <3>1, <3>3, <1>0, <1>5, DoneCalled
    <3>4. CASE walk.kind = "closing"
      BY <3>1, <3>4, <1>0, <1>5, ClosingCalled
    <3> QED BY <3>2, <3>3, <3>4, <1>3
  <2> QED BY <2>1, <2>2, <1>2
<1>16. SubOK'
  BY <1>13, <1>15 DEF SubOK
<1> QED BY <1>8, <1>13, <1>16 DEF IInv

-----------------------------------------------------------------------------
(* The closing callback that was overtaken walks on.                       *)

LEMMA StaleGoes ==
    ASSUME IInv, stale.kind # "none", NEW n \in Subs \cup {None}, stale' = Go(stale, n),
           UNCHANGED <<snap, head, used, early>>, Reach(sub', n) \subseteq StaleAhead,
           \A j \in Reach(sub', n) : sub'[j].alive = sub[j].alive /\ sub'[j].opening = sub[j].opening
    PROVE  StaleOK'
PROOF
<1>0. stale \in WalkRec /\ StaleOK
  BY DEF IInv, TypeOK
<1>1. /\ StaleAhead' = Reach(sub', n)
      /\ \/ n = None /\ stale' = NoWalk
         \/ n # None /\ stale'.kind = stale.kind /\ stale'.pc = "look" /\ stale'.at = n
  BY <1>0, GoFacts DEF StaleAhead
<1>2. ASSUME NEW j \in StaleAhead'
      PROVE  sub'[j].alive \notin {"FREE", "LOADED"} /\ sub'[j].opening \in early' \cup {0}
  BY <1>0, <1>1 DEF StaleOK
<1>3. CASE n = None /\ stale' = NoWalk
  BY <1>2, <1>3 DEF StaleOK, NoWalk
<1>4. CASE n # None /\ stale'.kind = stale.kind /\ stale'.pc = "look" /\ stale'.at = n
  <2>1. stale # NoWalk
    BY DEF NoWalk
  <2> QED BY <1>0, <1>2, <1>4, <2>1 DEF StaleOK
<1> QED BY <1>1, <1>3, <1>4

\* the pump and the subscribers do not notice
LEMMA StaleMoves ==
    ASSUME IInv, TypeOK', SnapOK', StaleOK', UNCHANGED <<snap, head, floor, sub, walk, hist, done, used, early>>
    PROVE  IInv'
PROOF
<1>1. Ahead' = Ahead
  BY DEF Ahead
<1>2. ChainOK' /\ WalkOK'
  BY <1>1, ChainKept DEF IInv, WalkOK
<1>3. ASSUME NEW j \in Subs
      PROVE  SubInv(sub[j], j \in Ahead)'
  <2>1. PICK s, h : s = sub[j] /\ h = (j \in Ahead)
    OBVIOUS
  <2>2. SubInv(s, h)
    BY <2>1, SubFacts
  <2>3. SubInv(s, h)'
    BY <2>2, WalkOn
  <2> QED BY <2>1, <2>3, <1>1
<1> QED BY <1>2, <1>3 DEF IInv, SubOK

LEMMA StaleHeadStep ==
    ASSUME IInv, TypeOK', SnapOK', StaleHead
    PROVE  IInv'
PROOF
<1>0. /\ stale.kind # "none" /\ stale.pc = "head" /\ stale' = Go(stale, head)
      /\ UNCHANGED <<snap, head, floor, sub, walk, hist, done, used, early>>
  BY DEF StaleHead
<1>1. head \in Subs \cup {None} /\ StaleAhead = Reach(sub', head)
  BY <1>0 DEF IInv, TypeOK, StaleAhead, AheadOf
<1>2. StaleOK'
  BY <1>0, <1>1, StaleGoes
<1> QED BY <1>0, <1>2, StaleMoves

LEMMA StaleLookStep ==
    ASSUME IInv, TypeOK', SnapOK', StaleLook
    PROVE  IInv'
PROOF
<1>0. /\ stale.pc = "look" /\ UNCHANGED <<snap, head, floor, sub, walk, hist, done, used, early>>
      /\ stale' = IF sub[stale.at].alive = "ALIVE" THEN [stale EXCEPT !.pc = "call", !.next = sub[stale.at].next]
                  ELSE Go(stale, sub[stale.at].next)
  BY DEF StaleLook
<1>1. stale \in WalkRec /\ sub \in [Subs -> SubRec] /\ StaleOK /\ Links(sub)
  BY TableLinks DEF IInv, TypeOK
<1>2. stale.kind # "none" /\ stale.at \in Subs
  BY <1>0, <1>1 DEF StaleOK, NoWalk, WalkRec
<1>3. PICK a, n : a = stale.at /\ n = sub[a].next
  OBVIOUS
<1>4. a \in Subs /\ n \in Subs \cup {None} /\ StaleAhead = {a} \cup Reach(sub, n)
  BY <1>0, <1>1, <1>2, <1>3, ReachStep DEF StaleAhead, AheadOf, Links
<1>5. CASE sub[a].alive = "ALIVE"
  <2>1. /\ stale'.kind = stale.kind /\ stale'.pc = "call" /\ stale'.at = a /\ stale'.next = n
    BY <1>0, <1>1, <1>3, <1>5 DEF WalkRec
  <2>2. StaleAhead' = StaleAhead
    BY <2>1, <1>0, <1>2, <1>4 DEF StaleAhead, AheadOf
  <2>3. stale # NoWalk /\ a # None
    BY <1>0, <1>1, <1>2, <1>3 DEF NoWalk, StaleOK
  <2>4. StaleOK'
    BY <2>1, <2>2, <2>3, <1>0, <1>1, <1>2 DEF StaleOK
  <2> QED BY <2>4, <1>0, StaleMoves
<1>6. CASE sub[a].alive # "ALIVE"
  <2>1. stale' = Go(stale, n) /\ Reach(sub', n) = Reach(sub, n) /\ Reach(sub', n) \subseteq StaleAhead
    BY <1>0, <1>3, <1>4, <1>6
  <2>2. StaleOK'
    BY <2>1, <1>0, <1>2, <1>4, StaleGoes
  <2> QED BY <2>2, <1>0, StaleMoves
<1> QED BY <1>5, <1>6

LEMMA StaleCallStep ==
    ASSUME IInv, TypeOK', SnapOK', StaleCall
    PROVE  IInv'
PROOF
<1>0. /\ stale.pc = "call" /\ stale' = Go(stale, stale.next)
      /\ UNCHANGED <<snap, head, floor, walk, hist, done, used, early>>
      /\ sub' = [sub EXCEPT ![stale.at] = on_store_closing(sub[stale.at])]
  BY DEF StaleCall
<1>1. /\ stale \in WalkRec /\ sub \in [Subs -> SubRec] /\ sub' \in [Subs -> SubRec] /\ StaleOK /\ walk \in WalkRec
      /\ stale.next \in Subs \cup {None} /\ Links(sub) /\ Links(sub')
  BY TableLinks DEF IInv, TypeOK, WalkRec
<1>2. stale.kind # "none" /\ stale.at \in Subs
  BY <1>0, <1>1 DEF StaleOK, NoWalk, WalkRec
<1>3. PICK a, n, s, r : a = stale.at /\ n = stale.next /\ s = sub[a] /\ r = sub'[a]
  OBVIOUS
<1>4. /\ a \in Subs /\ s \in SubRec /\ r = on_store_closing(s) /\ n \in Subs \cup {None}
      /\ \A j \in Subs \ {a} : sub'[j] = sub[j]
  BY <1>0, <1>1, <1>2, <1>3
<1>5. Keeps(s, r)
  BY <1>1, <1>4, CallbackKeeps
<1>6. OnlySlot(a)
  BY <1>0, <1>3, <1>4, <1>5 DEF OnlySlot, SlotChange, Keeps
<1>7. ChainOK' /\ WalkOK' /\ Ahead' = Ahead
  BY <1>0, <1>4, <1>6, SlotChain, SlotWalk
<1>8. Reach(sub', n) = Reach(sub, n) /\ Reach(sub, n) \subseteq Subs
  <2>1. Reach(sub, n) \subseteq Subs
    BY DEF Reach
  <2>2. SameLinks(sub, sub', Reach(sub, n))
    BY <2>1, <1>3, <1>4, <1>5 DEF SameLinks, Keeps
  <2> QED BY <2>1, <2>2, <1>1, <1>4, ReachSame
<1>9. StaleAhead = {a} \cup Reach(sub, n)
  BY <1>0, <1>2, <1>3 DEF StaleAhead, AheadOf
<1>10. StaleOK'
  <2>1. \A j \in Reach(sub', n) : sub'[j].alive = sub[j].alive /\ sub'[j].opening = sub[j].opening
    BY <1>3, <1>4, <1>5, <1>8 DEF Keeps
  <2>2. stale' = Go(stale, n) /\ Reach(sub', n) \subseteq StaleAhead
    BY <1>0, <1>3, <1>8, <1>9
  <2> QED BY <2>1, <2>2, <1>0, <1>2, <1>4, StaleGoes
<1>11. SubInv(sub[a], a \in Ahead)'
  <2>1. PICK k : k = (a \in Ahead')
    OBVIOUS
  <2>2. SlotOK(s) /\ s.opening \in early \cup {0}
    <3>1. a \in StaleAhead
      BY <1>9
    <3>2. s.opening \in early \cup {0}
      BY <3>1, <1>1, <1>3 DEF StaleOK
    <3> QED BY <3>2, <1>3, <1>4, SubFacts DEF SubInv
  <2>3. SlotOK(r)' /\ ~Waiting(r) /\ r.opening = s.opening
    BY <2>2, <1>0, <1>4, ClosingSlot
  <2>4. ~OfKept(r)'
    BY <2>2, <2>3, <1>0 DEF OfKept
  <2>5. SubInv(r, k)'
    BY <2>3, <2>4 DEF SubInv, Told, Waiting
  <2> QED BY <2>1, <2>5, <1>3
<1>12. SubOK'
  BY <1>0, <1>4, <1>6, <1>11, SlotOthers
<1> QED BY <1>7, <1>10, <1>12 DEF IInv

-----------------------------------------------------------------------------
(* The invariant, and what follows from it.                                *)

LEMMA InitInv ==
    ASSUME Init
    PROVE  IInv
PROOF
<1>0. /\ snap = hls_llhls_enable(Fresh(0)) /\ head = None /\ floor = 0 /\ walk = NoWalk /\ done = {}
      /\ stale = NoWalk /\ early = {}
      /\ \A i \in Subs : sub[i] = FreeSub
      /\ \A o \in 1..MaxOpens, q \in Seqs : hist[o][q] = <<>>
      /\ used = [opens |-> 1, pushes |-> 0, cuts |-> 0]
  BY DEF Init, Opened
<1>1. snap \in SnapRec /\ snap.next = 0 /\ snap.oldest = 0 /\ snap.msn = 0 /\ snap.segs = <<>> /\ snap.live = <<>>
  BY <1>0, OpenedSnap
<1>2. used.opens = 1 /\ used.pushes = 0 /\ used.cuts = 0 /\ 1 \in 1..MaxOpens /\ 0 \in Seqs
  BY <1>0, ConstantTypes DEF Seqs
<1>3. TypeOK
  <2>1. sub \in [Subs -> SubRec]
    BY FreeSubType DEF Init
  <2>2. hist \in [1..MaxOpens -> [Seqs -> Seq(Nat)]]
    <3>1. PICK l0 \in Seq(Nat) : l0 = <<>>
      BY EmptySeq
    <3>2. hist = [o \in 1..MaxOpens |-> [q \in Seqs |-> l0]]
      BY <3>1 DEF Init
    <3> QED BY <3>2
  <2>3. used \in [opens : 1..MaxOpens, pushes : 0..MaxPushes, cuts : 0..MaxCuts]
    BY <1>0, <1>2, ConstantTypes
  <2> QED BY <2>1, <2>2, <2>3, <1>0, <1>1, NoWalkType DEF TypeOK
<1>4. SnapOK
  <2>1. SnapShows
    <3>1. snap.oldest + Len(snap.segs) = snap.next /\ 1..Len(snap.segs) = {}
      <4>1. Len(snap.segs) = 0
        BY <1>1
      <4> QED BY <4>1, <1>1
    <3> QED BY <3>1, <1>0, <1>1, <1>2 DEF SnapShows
  <2>2. floor <= used.pushes + used.cuts
    BY <1>0, <1>2
  <2> QED BY <2>1, <2>2, <1>0 DEF SnapOK
<1>5. Chain = {} /\ Ahead = {} /\ StaleAhead = {}
  BY <1>0, ReachNone DEF Chain, Ahead, StaleAhead, AheadOf, NoWalk
<1>6. ChainOK
  <2>1. Linear(sub, head)
    BY <1>5 DEF Linear, Chain
  <2> QED BY <2>1, <1>0, <1>5 DEF ChainOK, FreeSub
<1>7. WalkOK
  BY <1>0, <1>5 DEF WalkOK, NoWalk
<1>9. StaleOK
  BY <1>0, <1>5 DEF StaleOK, NoWalk
<1>8. SubOK
  BY <1>0 DEF SubOK, SubInv, SlotOK, Told, Waiting, OfKept, FreeSub
<1> QED BY <1>3, <1>4, <1>6, <1>7, <1>8, <1>9 DEF IInv

LEMMA NextInv ==
    ASSUME IInv, Next
    PROVE  IInv'
PROOF
<1>0. TypeOK' /\ SnapOK'
  BY TypeStep, SnapStep
<1>1. ASSUME NEW i \in Subs, Worker(i)
      PROVE  IInv'
  <2>1. CASE SubscribeLoad(i) \/ SubscribeLink(i) \/ sub_attach(i)
    BY <2>1, <1>0, LoadStep, LinkStep, AttachStep
  <2>2. CASE ReadErrored(i) \/ ReadRing(i) \/ ReadEnd(i)
    BY <2>2, <1>0, ReadErroredStep, ReadRingStep, ReadEndStep
  <2>3. CASE dash_lldash_sub_close(i) \/ unlink_store_chain(i)
    BY <2>3, <1>0, CloseStep, UnlinkStep
  <2> QED BY <2>1, <2>2, <2>3, <1>1 DEF Worker
<1>2. CASE PushPart \/ PushSegment \/ Discontinuity \/ StoreClose \/ StoreOpen
  BY <1>2, <1>0, PushPartStep, PushSegmentStep, DiscontinuityStep, StoreCloseStep, StoreOpenStep
<1>3. CASE WalkHead \/ WalkLook \/ WalkCall \/ dashchunk_finish_sub_close
  BY <1>3, <1>0, WalkHeadStep, WalkLookStep, WalkCallStep, FinishStep
<1>4. CASE StaleHead \/ StaleLook \/ StaleCall
  BY <1>4, <1>0, StaleHeadStep, StaleLookStep, StaleCallStep
<1> QED BY <1>1, <1>2, <1>3, <1>4 DEF Next

LEMMA StutterInv ==
    ASSUME IInv, UNCHANGED vars
    PROVE  IInv'
PROOF
<1>1. UNCHANGED <<snap, head, floor, sub, walk, hist, done, used, stale, early>>
  BY DEF vars
<1>2. TypeOK' /\ SnapOK'
  BY <1>1 DEF IInv, TypeOK, SnapOK, SnapShows
<1>3. StaleOK'
  BY <1>1, StaleStays
<1> QED BY <1>1, <1>2, <1>3, StaleMoves

\* The inductive invariant of the low latency output holds in every reachable
\* state: the snapshot shows the history, the chain holds the subscribers of
\* the store that is open, and the pump's walk has everyone it owes a call
\* ahead of it, whatever workers link, unlink and reuse meanwhile
\* (subscribe.c, sub.c, chain.c).
THEOREM Invariant == Spec => []IInv
PROOF
<1>1. Init => IInv
  BY InitInv
<1>2. IInv /\ [Next]_vars => IInv'
  BY NextInv, StutterInv
<1> QED BY <1>1, <1>2, PTL DEF Spec

\* Once the pump has left its callback, every attached subscriber of a segment
\* that was finalised has been told the end (on_segment_done in
\* chain.c), for any number of slots and any order of links and unlinks.
THEOREM SegmentEndsCorrect == Spec => []SegmentEnds
PROOF
<1>1. ASSUME IInv
      PROVE  SegmentEnds
  <2>1. SUFFICES ASSUME NEW i \in Subs, walk = NoWalk, sub[i].attached, ~sub[i].ended,
                        <<sub[i].opening, sub[i].want>> \in done
                 PROVE  FALSE
    BY <1>1 DEF SegmentEnds, IInv, TypeOK, SubRec
  <2>2. Waiting(sub[i])
    BY <2>1 DEF Waiting
  <2> QED BY <1>1, <2>1, <2>2, QuietSub
<1> QED BY <1>1, Invariant, PTL

\* A client that is not in error was sent, or has in its ring, exactly the
\* first parts that were pushed under the number of its segment, in order and
\* once (sub_catch_up and on_part_pushed).
THEOREM PartsInOrderCorrect == Spec => []PartsInOrder
PROOF
<1>1. ASSUME IInv
      PROVE  PartsInOrder
  <2>1. SUFFICES ASSUME NEW i \in Subs, sub[i].opening > 0, OfKept(sub[i]), ~sub[i].errored
                 PROVE  IsPrefix(sub[i].got \o sub[i].ring, Pushed(sub[i]))
    BY DEF PartsInOrder, Kept, Streaming, OfKept
  <2>2. StreamOK(sub[i], i \in Ahead) /\ Pushed(sub[i]) \in Seq(Nat) /\ sub[i] \in SubRec
    BY <1>1, <2>1, SubFacts DEF SubInv
  <2>3. PICK P \in Seq(Nat), n \in Nat : P = Pushed(sub[i]) /\ n = sub[i].sent
    BY <2>2 DEF SubRec
  <2>4. PICK g : g = sub[i].got \o sub[i].ring
    OBVIOUS
  <2>5. n <= Len(P) /\ g = SubSeq(P, 1, n)
    BY <2>1, <2>2, <2>3, <2>4 DEF StreamOK
  <2>6. g \in Seq(Nat) /\ Len(g) = n
    BY <2>5, LenProperties
  <2>7. SubSeq(g, 1, Len(g)) = g
    BY <2>6, SubSeqFull
  <2>8. IsPrefix(g, P)
    BY <2>5, <2>6, <2>7 DEF IsPrefix
  <2> QED BY <2>3, <2>4, <2>8
<1> QED BY <1>1, Invariant, PTL

\* A response that ended as if complete has reached its client with every
\* part that was ever pushed under its number, whether a finalised segment, a
\* store that closed or a catch-up ended it, unless its ring was used while
\* the last read callback was past its look at it, or the ring of an HTTP/3
\* stream was in error (sub_end, on_store_closing and the read callbacks of
\* http2_dashchunk.c and http3_dashchunk.c).
THEOREM EndedWholeCorrect == Spec => []EndedWhole
PROOF
<1>1. ASSUME IInv
      PROVE  EndedWhole
  <2>1. SUFFICES ASSUME NEW i \in Subs, OfKept(sub[i]), sub[i].end = "clean"
                 PROVE  \/ sub[i].got = Pushed(sub[i])
                        \/ sub[i].late /\ (sub[i].errored \/ sub[i].got \o sub[i].ring = Pushed(sub[i]))
                        \/ sub[i].proto = "H3" /\ sub[i].errored
    BY DEF EndedWhole, Kept, Streaming, OfKept
  <2>2. CleanOK(sub[i])
    BY <1>1, <2>1, SubFacts DEF SubInv, StreamOK
  <2> QED BY <2>1, <2>2 DEF CleanOK
<1> QED BY <1>1, Invariant, PTL
=============================================================================
