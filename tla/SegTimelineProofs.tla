-------------------------- MODULE SegTimelineProofs --------------------------
(***************************************************************************)
(* Proofs about SegTimeline: no part is refused, the track store follows   *)
(* the muxed one, and a sequence number names one segment.                 *)
(*                                                                         *)
(* What the pump has still to do in a feed takes one of a few shapes; each *)
(* is a phase.  The inductive invariant says, phase by phase, how far the  *)
(* track store is ahead of the muxed one.                                  *)
(***************************************************************************)
EXTENDS SegTimeline, SequenceTheorems, TLAPS

\* The scripts of a feed and what is left of them: a whole fragment (F), one
\* that ends a segment (E), a chunk (C), an anchor (A), a new muxer (K), a
\* program change (R).
Plan(ph, td) ==
    \/ ph = "idle" /\ td = <<>>
    \/ ph = "F1" /\ td = <<<<"T", "full">>, <<"M", "full">>>>
    \/ ph = "F2" /\ td = <<<<"M", "full">>>>
    \/ ph = "E1" /\ td = <<<<"T", "part">>, <<"T", "seg">>, <<"M", "part">>, <<"M", "seg">>>>
    \/ ph = "E2" /\ td = <<<<"T", "seg">>, <<"M", "part">>, <<"M", "seg">>>>
    \/ ph = "E3" /\ td = <<<<"M", "part">>, <<"M", "seg">>>>
    \/ ph = "E4" /\ td = <<<<"M", "seg">>>>
    \/ ph = "C1" /\ td = <<<<"T", "part">>, <<"M", "part">>>>
    \/ ph = "C2" /\ td = <<<<"M", "part">>>>
    \/ ph = "A1" /\ td = <<<<"M", "anchor">>, <<"T", "anchor">>>>
    \/ ph = "A2" /\ td = <<<<"T", "anchor">>>>
    \/ ph = "A3" /\ td = <<<<"M", "anchor">>>>
    \/ ph = "K1" /\ td = <<<<"M", "read">>, <<"T", "sync">>, <<"T", "init">>, <<"M", "init">>>>
    \/ ph = "K2" /\ td = <<<<"T", "sync">>, <<"T", "init">>, <<"M", "init">>>>
    \/ ph = "K3" /\ td = <<<<"T", "init">>, <<"M", "init">>>>
    \/ ph = "K4" /\ td = <<<<"M", "init">>>>
    \/ ph = "K5" /\ td = <<<<"M", "read">>, <<"T", "sync">>, <<"M", "init">>>>
    \/ ph = "K6" /\ td = <<<<"T", "sync">>, <<"M", "init">>>>
    \/ ph = "R1" /\ td = <<<<"M", "disc">>, <<"M", "read">>, <<"T", "sync">>>>
    \/ ph = "R2" /\ td = <<<<"M", "read">>, <<"T", "sync">>>>
    \/ ph = "R3" /\ td = <<<<"T", "sync">>>>
    \/ ph = "R4" /\ td = <<<<"M", "disc">>>>

-----------------------------------------------------------------------------
(* One operation of the pump, by its script.                               *)

OnM(op) == PublishM(Write(op, snap_clone(M, floor))) /\ pos' = pos
OnT(op) == PublishT(Write(op, snap_clone(T, floor))) /\ pos' = pos
Read == pos' = M /\ UNCHANGED <<M, T, seen>>
Sync == pos' = NoSnap /\ PublishT(hls_store_sync_at(T, pos, floor))
Disc == IF M = NoSnap THEN UNCHANGED <<M, T, seen, pos>> ELSE OnM("disc")

\* From one phase to the next, with the operation in between.
Moves(ph, q) ==
    \/ ph = "F1" /\ q = "F2" /\ OnT("full")
    \/ ph = "F2" /\ q = "idle" /\ OnM("full")
    \/ ph = "E1" /\ q = "E2" /\ OnT("part")
    \/ ph = "E2" /\ q = "E3" /\ OnT("seg")
    \/ ph = "E3" /\ q = "E4" /\ OnM("part")
    \/ ph = "E4" /\ q = "idle" /\ OnM("seg")
    \/ ph = "C1" /\ q = "C2" /\ OnT("part")
    \/ ph = "C2" /\ q = "idle" /\ OnM("part")
    \/ ph = "A1" /\ q = "A2" /\ OnM("anchor")
    \/ ph = "A2" /\ q = "idle" /\ OnT("anchor")
    \/ ph = "A3" /\ q = "idle" /\ OnM("anchor")
    \/ ph = "K1" /\ q = "K2" /\ Read
    \/ ph = "K2" /\ q = "K3" /\ Sync
    \/ ph = "K3" /\ q = "K4" /\ OnT("init")
    \/ ph = "K4" /\ q = "idle" /\ OnM("init")
    \/ ph = "K5" /\ q = "K6" /\ Read
    \/ ph = "K6" /\ q = "K4" /\ Sync
    \/ ph = "R1" /\ q = "R2" /\ Disc
    \/ ph = "R2" /\ q = "R3" /\ Read
    \/ ph = "R3" /\ q = "idle" /\ Sync
    \/ ph = "R4" /\ q = "idle" /\ Disc

\* What one step of the pump does, by the store and the operation at the head.
LEMMA HeadStep ==
  ASSUME NEW s, NEW op, PumpStep, Head(todo) = <<s, op>>
  PROVE  /\ todo' = Tail(todo)
         /\ op = "read" => Read
         /\ op = "sync" => Sync
         /\ op = "disc" /\ s = "M" => Disc
         /\ op \in {"full", "part", "seg", "anchor", "init"} =>
              (s = "M" => OnM(op)) /\ (s = "T" => OnT(op))
<1> DEFINE W == Write(op, snap_clone(M, floor))
           X == Write(op, snap_clone(T, floor))
<1>0. Head(todo)[1] = s /\ Head(todo)[2] = op
  OBVIOUS
<1>1. todo' = Tail(todo)
  BY DEF PumpStep
<1>2. CASE op = "read" BY <1>0, <1>1, <1>2 DEF PumpStep, Read
<1>3. CASE op = "sync" BY <1>0, <1>1, <1>3 DEF PumpStep, Sync
<1>4. CASE op = "disc" BY <1>0, <1>1, <1>4 DEF PumpStep, Disc, OnM
<1>5. CASE op \in {"full", "part", "seg", "anchor", "init"}
  BY <1>0, <1>1, <1>5 DEF PumpStep, OnM, OnT
<1>6. CASE op \notin {"read", "sync", "disc", "full", "part", "seg", "anchor", "init"}
  BY <1>1, <1>6
<1>7. QED BY <1>2, <1>3, <1>4, <1>5, <1>6

\* A step of the pump moves the feed to its next phase.
LEMMA PumpMoves ==
  ASSUME NEW ph, Plan(ph, todo), PumpStep
  PROVE  \E q : Plan(q, todo') /\ Moves(ph, q)
<1>0. ph # "idle" BY DEF PumpStep, Plan
<1>1. CASE ph = "F1"
  <2>1. todo = <<<<"T", "full">>, <<"M", "full">>>>
    BY <1>1 DEF Plan
  <2>2. Head(todo) = <<"T", "full">> /\ Tail(todo) = <<<<"M", "full">>>>
    BY <2>1
  <2>3. OnT("full") /\ todo' = <<<<"M", "full">>>>
    BY <2>2, HeadStep
  <2>4. Plan("F2", todo') /\ Moves(ph, "F2")
    BY <1>1, <2>3 DEF Plan, Moves
  <2>5. QED BY <2>4
<1>2. CASE ph = "F2"
  <2>1. todo = <<<<"M", "full">>>>
    BY <1>2 DEF Plan
  <2>2. Head(todo) = <<"M", "full">> /\ Tail(todo) = <<>>
    BY <2>1
  <2>3. OnM("full") /\ todo' = <<>>
    BY <2>2, HeadStep
  <2>4. Plan("idle", todo') /\ Moves(ph, "idle")
    BY <1>2, <2>3 DEF Plan, Moves
  <2>5. QED BY <2>4
<1>3. CASE ph = "E1"
  <2>1. todo = <<<<"T", "part">>, <<"T", "seg">>, <<"M", "part">>, <<"M", "seg">>>>
    BY <1>3 DEF Plan
  <2>2. Head(todo) = <<"T", "part">> /\ Tail(todo) = <<<<"T", "seg">>, <<"M", "part">>, <<"M", "seg">>>>
    BY <2>1
  <2>3. OnT("part") /\ todo' = <<<<"T", "seg">>, <<"M", "part">>, <<"M", "seg">>>>
    BY <2>2, HeadStep
  <2>4. Plan("E2", todo') /\ Moves(ph, "E2")
    BY <1>3, <2>3 DEF Plan, Moves
  <2>5. QED BY <2>4
<1>4. CASE ph = "E2"
  <2>1. todo = <<<<"T", "seg">>, <<"M", "part">>, <<"M", "seg">>>>
    BY <1>4 DEF Plan
  <2>2. Head(todo) = <<"T", "seg">> /\ Tail(todo) = <<<<"M", "part">>, <<"M", "seg">>>>
    BY <2>1
  <2>3. OnT("seg") /\ todo' = <<<<"M", "part">>, <<"M", "seg">>>>
    BY <2>2, HeadStep
  <2>4. Plan("E3", todo') /\ Moves(ph, "E3")
    BY <1>4, <2>3 DEF Plan, Moves
  <2>5. QED BY <2>4
<1>5. CASE ph = "E3"
  <2>1. todo = <<<<"M", "part">>, <<"M", "seg">>>>
    BY <1>5 DEF Plan
  <2>2. Head(todo) = <<"M", "part">> /\ Tail(todo) = <<<<"M", "seg">>>>
    BY <2>1
  <2>3. OnM("part") /\ todo' = <<<<"M", "seg">>>>
    BY <2>2, HeadStep
  <2>4. Plan("E4", todo') /\ Moves(ph, "E4")
    BY <1>5, <2>3 DEF Plan, Moves
  <2>5. QED BY <2>4
<1>6. CASE ph = "E4"
  <2>1. todo = <<<<"M", "seg">>>>
    BY <1>6 DEF Plan
  <2>2. Head(todo) = <<"M", "seg">> /\ Tail(todo) = <<>>
    BY <2>1
  <2>3. OnM("seg") /\ todo' = <<>>
    BY <2>2, HeadStep
  <2>4. Plan("idle", todo') /\ Moves(ph, "idle")
    BY <1>6, <2>3 DEF Plan, Moves
  <2>5. QED BY <2>4
<1>7. CASE ph = "C1"
  <2>1. todo = <<<<"T", "part">>, <<"M", "part">>>>
    BY <1>7 DEF Plan
  <2>2. Head(todo) = <<"T", "part">> /\ Tail(todo) = <<<<"M", "part">>>>
    BY <2>1
  <2>3. OnT("part") /\ todo' = <<<<"M", "part">>>>
    BY <2>2, HeadStep
  <2>4. Plan("C2", todo') /\ Moves(ph, "C2")
    BY <1>7, <2>3 DEF Plan, Moves
  <2>5. QED BY <2>4
<1>8. CASE ph = "C2"
  <2>1. todo = <<<<"M", "part">>>>
    BY <1>8 DEF Plan
  <2>2. Head(todo) = <<"M", "part">> /\ Tail(todo) = <<>>
    BY <2>1
  <2>3. OnM("part") /\ todo' = <<>>
    BY <2>2, HeadStep
  <2>4. Plan("idle", todo') /\ Moves(ph, "idle")
    BY <1>8, <2>3 DEF Plan, Moves
  <2>5. QED BY <2>4
<1>9. CASE ph = "A1"
  <2>1. todo = <<<<"M", "anchor">>, <<"T", "anchor">>>>
    BY <1>9 DEF Plan
  <2>2. Head(todo) = <<"M", "anchor">> /\ Tail(todo) = <<<<"T", "anchor">>>>
    BY <2>1
  <2>3. OnM("anchor") /\ todo' = <<<<"T", "anchor">>>>
    BY <2>2, HeadStep
  <2>4. Plan("A2", todo') /\ Moves(ph, "A2")
    BY <1>9, <2>3 DEF Plan, Moves
  <2>5. QED BY <2>4
<1>10. CASE ph = "A2"
  <2>1. todo = <<<<"T", "anchor">>>>
    BY <1>10 DEF Plan
  <2>2. Head(todo) = <<"T", "anchor">> /\ Tail(todo) = <<>>
    BY <2>1
  <2>3. OnT("anchor") /\ todo' = <<>>
    BY <2>2, HeadStep
  <2>4. Plan("idle", todo') /\ Moves(ph, "idle")
    BY <1>10, <2>3 DEF Plan, Moves
  <2>5. QED BY <2>4
<1>11. CASE ph = "A3"
  <2>1. todo = <<<<"M", "anchor">>>>
    BY <1>11 DEF Plan
  <2>2. Head(todo) = <<"M", "anchor">> /\ Tail(todo) = <<>>
    BY <2>1
  <2>3. OnM("anchor") /\ todo' = <<>>
    BY <2>2, HeadStep
  <2>4. Plan("idle", todo') /\ Moves(ph, "idle")
    BY <1>11, <2>3 DEF Plan, Moves
  <2>5. QED BY <2>4
<1>12. CASE ph = "K1"
  <2>1. todo = <<<<"M", "read">>, <<"T", "sync">>, <<"T", "init">>, <<"M", "init">>>>
    BY <1>12 DEF Plan
  <2>2. Head(todo) = <<"M", "read">> /\ Tail(todo) = <<<<"T", "sync">>, <<"T", "init">>, <<"M", "init">>>>
    BY <2>1
  <2>3. Read /\ todo' = <<<<"T", "sync">>, <<"T", "init">>, <<"M", "init">>>>
    BY <2>2, HeadStep
  <2>4. Plan("K2", todo') /\ Moves(ph, "K2")
    BY <1>12, <2>3 DEF Plan, Moves
  <2>5. QED BY <2>4
<1>13. CASE ph = "K2"
  <2>1. todo = <<<<"T", "sync">>, <<"T", "init">>, <<"M", "init">>>>
    BY <1>13 DEF Plan
  <2>2. Head(todo) = <<"T", "sync">> /\ Tail(todo) = <<<<"T", "init">>, <<"M", "init">>>>
    BY <2>1
  <2>3. Sync /\ todo' = <<<<"T", "init">>, <<"M", "init">>>>
    BY <2>2, HeadStep
  <2>4. Plan("K3", todo') /\ Moves(ph, "K3")
    BY <1>13, <2>3 DEF Plan, Moves
  <2>5. QED BY <2>4
<1>14. CASE ph = "K3"
  <2>1. todo = <<<<"T", "init">>, <<"M", "init">>>>
    BY <1>14 DEF Plan
  <2>2. Head(todo) = <<"T", "init">> /\ Tail(todo) = <<<<"M", "init">>>>
    BY <2>1
  <2>3. OnT("init") /\ todo' = <<<<"M", "init">>>>
    BY <2>2, HeadStep
  <2>4. Plan("K4", todo') /\ Moves(ph, "K4")
    BY <1>14, <2>3 DEF Plan, Moves
  <2>5. QED BY <2>4
<1>15. CASE ph = "K4"
  <2>1. todo = <<<<"M", "init">>>>
    BY <1>15 DEF Plan
  <2>2. Head(todo) = <<"M", "init">> /\ Tail(todo) = <<>>
    BY <2>1
  <2>3. OnM("init") /\ todo' = <<>>
    BY <2>2, HeadStep
  <2>4. Plan("idle", todo') /\ Moves(ph, "idle")
    BY <1>15, <2>3 DEF Plan, Moves
  <2>5. QED BY <2>4
<1>16. CASE ph = "R1"
  <2>1. todo = <<<<"M", "disc">>, <<"M", "read">>, <<"T", "sync">>>>
    BY <1>16 DEF Plan
  <2>2. Head(todo) = <<"M", "disc">> /\ Tail(todo) = <<<<"M", "read">>, <<"T", "sync">>>>
    BY <2>1
  <2>3. Disc /\ todo' = <<<<"M", "read">>, <<"T", "sync">>>>
    BY <2>2, HeadStep
  <2>4. Plan("R2", todo') /\ Moves(ph, "R2")
    BY <1>16, <2>3 DEF Plan, Moves
  <2>5. QED BY <2>4
<1>17. CASE ph = "R2"
  <2>1. todo = <<<<"M", "read">>, <<"T", "sync">>>>
    BY <1>17 DEF Plan
  <2>2. Head(todo) = <<"M", "read">> /\ Tail(todo) = <<<<"T", "sync">>>>
    BY <2>1
  <2>3. Read /\ todo' = <<<<"T", "sync">>>>
    BY <2>2, HeadStep
  <2>4. Plan("R3", todo') /\ Moves(ph, "R3")
    BY <1>17, <2>3 DEF Plan, Moves
  <2>5. QED BY <2>4
<1>18. CASE ph = "R3"
  <2>1. todo = <<<<"T", "sync">>>>
    BY <1>18 DEF Plan
  <2>2. Head(todo) = <<"T", "sync">> /\ Tail(todo) = <<>>
    BY <2>1
  <2>3. Sync /\ todo' = <<>>
    BY <2>2, HeadStep
  <2>4. Plan("idle", todo') /\ Moves(ph, "idle")
    BY <1>18, <2>3 DEF Plan, Moves
  <2>5. QED BY <2>4
<1>19. CASE ph = "R4"
  <2>1. todo = <<<<"M", "disc">>>>
    BY <1>19 DEF Plan
  <2>2. Head(todo) = <<"M", "disc">> /\ Tail(todo) = <<>>
    BY <2>1
  <2>3. Disc /\ todo' = <<>>
    BY <2>2, HeadStep
  <2>4. Plan("idle", todo') /\ Moves(ph, "idle")
    BY <1>19, <2>3 DEF Plan, Moves
  <2>5. QED BY <2>4
<1>20. CASE ph = "K5"
  <2>1. todo = <<<<"M", "read">>, <<"T", "sync">>, <<"M", "init">>>>
    BY <1>20 DEF Plan
  <2>2. Head(todo) = <<"M", "read">> /\ Tail(todo) = <<<<"T", "sync">>, <<"M", "init">>>>
    BY <2>1
  <2>3. Read /\ todo' = <<<<"T", "sync">>, <<"M", "init">>>>
    BY <2>2, HeadStep
  <2>4. Plan("K6", todo') /\ Moves(ph, "K6")
    BY <1>20, <2>3 DEF Plan, Moves
  <2>5. QED BY <2>4
<1>21. CASE ph = "K6"
  <2>1. todo = <<<<"T", "sync">>, <<"M", "init">>>>
    BY <1>21 DEF Plan
  <2>2. Head(todo) = <<"T", "sync">> /\ Tail(todo) = <<<<"M", "init">>>>
    BY <2>1
  <2>3. Sync /\ todo' = <<<<"M", "init">>>>
    BY <2>2, HeadStep
  <2>4. Plan("K4", todo') /\ Moves(ph, "K4")
    BY <1>21, <2>3 DEF Plan, Moves
  <2>5. QED BY <2>4
<1>22. QED BY <1>0, <1>1, <1>2, <1>3, <1>4, <1>5, <1>6, <1>7, <1>8, <1>9, <1>10, <1>11, <1>12, <1>13, <1>14, <1>15, <1>16, <1>17, <1>18, <1>19,
              <1>20, <1>21 DEF Plan

-----------------------------------------------------------------------------
(* Scripts are put together from short sequences.                          *)

\* A concatenation is known by its elements.
LEMMA Paste ==
  ASSUME NEW S, NEW l \in Seq(S), NEW r \in Seq(S), NEW y \in Seq(S), Len(y) = Len(l) + Len(r),
         \A i \in 1..Len(l) : y[i] = l[i], \A i \in 1..Len(r) : y[i + Len(l)] = r[i]
  PROVE  l \o r = y
<1> DEFINE z == l \o r
<1>1. z \in Seq(S) /\ Len(z) = Len(l) + Len(r) 
  BY ConcatProperties
<1>2. \A i \in 1..Len(z) : z[i] = IF i <= Len(l) THEN l[i] ELSE r[i - Len(l)]
  BY <1>1, ConcatProperties
<1>3. Len(l) \in Nat /\ Len(r) \in Nat BY LenProperties
<1> HIDE DEF z
<1>4. \A i \in 1..Len(z) : z[i] = y[i]
  <2> TAKE i \in 1..Len(z)
  <2>1. CASE i <= Len(l) BY <1>1, <1>2, <1>3, <2>1
  <2>2. CASE i > Len(l)
    <3>1. i - Len(l) \in 1..Len(r) /\ (i - Len(l)) + Len(l) = i BY <1>1, <1>3, <2>2
    <3>2. y[i] = r[i - Len(l)] BY <3>1
    <3> QED BY <1>2, <1>3, <2>2, <3>2
  <2>3. QED BY <1>1, <1>3, <2>1, <2>2
<1>5. z = y BY <1>1, <1>4, SeqEqual
<1> QED BY <1>5 DEF z

\* One and one.
LEMMA Join11 ==
  ASSUME NEW S, NEW p \in S, NEW q \in S
  PROVE  <<p>> \o <<q>> = <<p, q>>
<1> DEFINE l == <<p>>  r == <<q>>  y == <<p, q>>
<1>1. l \in Seq(S) /\ r \in Seq(S) /\ y \in Seq(S)
  OBVIOUS
<1>2. Len(l) = 1 /\ Len(r) = 1 /\ Len(y) = 2
  OBVIOUS
<1>3. /\ l[1] = p /\ r[1] = q
      /\ y[1] = p /\ y[2] = q
  OBVIOUS
<1> HIDE DEF l, r, y
<1>4. \A i \in 1..Len(l) : y[i] = l[i]
  <2> TAKE i \in 1..Len(l)
  <2>1. CASE i = 1 BY <1>2, <1>3, <2>1
  <2>2. i \in 1..1 BY <1>2
  <2>3. QED BY <2>1, <2>2
<1>5. \A i \in 1..Len(r) : y[i + Len(l)] = r[i]
  <2> TAKE i \in 1..Len(r)
  <2>1. CASE i = 1 BY <1>2, <1>3, <2>1
  <2>2. i \in 1..1 BY <1>2
  <2>3. QED BY <2>1, <2>2
<1>6. Len(y) = Len(l) + Len(r)
  BY <1>2
<1>7. l \o r = y
  BY <1>1, <1>4, <1>5, <1>6, Paste
<1>8. QED BY <1>7 DEF l, r, y

\* Two and two.
LEMMA Join22 ==
  ASSUME NEW S, NEW p \in S, NEW q \in S, NEW u \in S, NEW v \in S
  PROVE  <<p, q>> \o <<u, v>> = <<p, q, u, v>>
<1> DEFINE l == <<p, q>>  r == <<u, v>>  y == <<p, q, u, v>>
<1>1. l \in Seq(S) /\ r \in Seq(S) /\ y \in Seq(S)
  OBVIOUS
<1>2. Len(l) = 2 /\ Len(r) = 2 /\ Len(y) = 4
  OBVIOUS
<1>3. /\ l[1] = p /\ l[2] = q /\ r[1] = u /\ r[2] = v
      /\ y[1] = p /\ y[2] = q /\ y[3] = u /\ y[4] = v
  OBVIOUS
<1> HIDE DEF l, r, y
<1>4. \A i \in 1..Len(l) : y[i] = l[i]
  <2> TAKE i \in 1..Len(l)
  <2>1. CASE i = 1 BY <1>2, <1>3, <2>1
  <2>2. CASE i = 2 BY <1>2, <1>3, <2>2
  <2>3. i \in 1..2 BY <1>2
  <2>4. QED BY <2>1, <2>2, <2>3
<1>5. \A i \in 1..Len(r) : y[i + Len(l)] = r[i]
  <2> TAKE i \in 1..Len(r)
  <2>1. CASE i = 1 BY <1>2, <1>3, <2>1
  <2>2. CASE i = 2 BY <1>2, <1>3, <2>2
  <2>3. i \in 1..2 BY <1>2
  <2>4. QED BY <2>1, <2>2, <2>3
<1>6. Len(y) = Len(l) + Len(r)
  BY <1>2
<1>7. l \o r = y
  BY <1>1, <1>4, <1>5, <1>6, Paste
<1>8. QED BY <1>7 DEF l, r, y

\* One and two.
LEMMA Join12 ==
  ASSUME NEW S, NEW p \in S, NEW q \in S, NEW u \in S
  PROVE  <<p>> \o <<q, u>> = <<p, q, u>>
<1> DEFINE l == <<p>>  r == <<q, u>>  y == <<p, q, u>>
<1>1. l \in Seq(S) /\ r \in Seq(S) /\ y \in Seq(S)
  OBVIOUS
<1>2. Len(l) = 1 /\ Len(r) = 2 /\ Len(y) = 3
  OBVIOUS
<1>3. /\ l[1] = p /\ r[1] = q /\ r[2] = u
      /\ y[1] = p /\ y[2] = q /\ y[3] = u
  OBVIOUS
<1> HIDE DEF l, r, y
<1>4. \A i \in 1..Len(l) : y[i] = l[i]
  <2> TAKE i \in 1..Len(l)
  <2>1. CASE i = 1 BY <1>2, <1>3, <2>1
  <2>2. i \in 1..1 BY <1>2
  <2>3. QED BY <2>1, <2>2
<1>5. \A i \in 1..Len(r) : y[i + Len(l)] = r[i]
  <2> TAKE i \in 1..Len(r)
  <2>1. CASE i = 1 BY <1>2, <1>3, <2>1
  <2>2. CASE i = 2 BY <1>2, <1>3, <2>2
  <2>3. i \in 1..2 BY <1>2
  <2>4. QED BY <2>1, <2>2, <2>3
<1>6. Len(y) = Len(l) + Len(r)
  BY <1>2
<1>7. l \o r = y
  BY <1>1, <1>4, <1>5, <1>6, Paste
<1>8. QED BY <1>7 DEF l, r, y

\* The operations of one store, written out.
LEMMA Ops1 ==
  ASSUME NEW s, NEW a
  PROVE  Ops(s, <<a>>) = <<<<s, a>>>>
<1> DEFINE x == Ops(s, <<a>>)  y == <<<<s, a>>>>
<1>1. DOMAIN x = 1..1 /\ x[1] = <<s, a>>
  BY DEF Ops
<1>2. x = [i \in 1..1 |-> x[i]]
  BY <1>1 DEF Ops
<1>3. y = [i \in 1..1 |-> <<s, a>>]
  OBVIOUS
<1>4. \A i \in 1..1 : x[i] = <<s, a>>
  BY <1>1
<1>5. x = y
  <2> HIDE DEF x, y
  <2> QED BY <1>2, <1>3, <1>4
<1>6. QED BY <1>5

\* The same of two operations.
LEMMA Ops2 ==
  ASSUME NEW s, NEW a, NEW b
  PROVE  Ops(s, <<a, b>>) = <<<<s, a>>, <<s, b>>>>
<1> DEFINE x == Ops(s, <<a, b>>)  y == <<<<s, a>>, <<s, b>>>>
<1>1. DOMAIN x = 1..2 /\ x[1] = <<s, a>> /\ x[2] = <<s, b>>
  BY DEF Ops
<1>2. x = [i \in 1..2 |-> x[i]]
  BY <1>1 DEF Ops
<1>3. y = [i \in 1..2 |-> IF i = 1 THEN <<s, a>> ELSE <<s, b>>]
  OBVIOUS
<1>4. \A i \in 1..2 : i = 1 \/ i = 2
  OBVIOUS
<1>5. \A i \in 1..2 : x[i] = IF i = 1 THEN <<s, a>> ELSE <<s, b>>
  BY <1>1, <1>4
<1>6. x = y
  <2> HIDE DEF x, y
  <2> QED BY <1>2, <1>3, <1>5
<1>7. QED BY <1>6


-----------------------------------------------------------------------------
(* The inductive invariant.                                                *)

SegRec == [seq : Nat, start : Nat, data : Seq(Nat), parts : Nat, disc : BOOLEAN]
Snap == [next : Nat, oldest : Nat, msn : Nat, segs : Seq(SegRec), live : Seq(Nat),
         pt : BOOLEAN, cum : Nat, epoch : Nat, disc : BOOLEAN, base : Nat, avail : Nat,
         gen : Nat]
Name == [seq : Nat, data : Seq(Nat)]

TypeOK ==
    /\ {M, T, pos} \subseteq Snap \cup {NoSnap}
    /\ seg \in [on : BOOLEAN, ll : BOOLEAN, topen : BOOLEAN, mux : BOOLEAN, tracks : BOOLEAN,
                n : Nat]
    /\ enable \subseteq {"M", "T"}
    /\ floor \in Nat
    /\ seen \in [M : SUBSET Name, T : SUBSET Name]
    /\ used \in [frags : Nat, relocks : Nat, opens : Nat, foreign : Nat]

\* What a store holds, an empty store included.
Val(sn) == snap_clone(sn, 0)

\* Two snapshots on one timeline.
Same(a, b) ==
    /\ Starts(a) = Starts(b) /\ a.cum = b.cum /\ Len(a.live) = Len(b.live)
    /\ a.epoch = b.epoch /\ a.base = b.base /\ a.avail = b.avail

\* The segmenter's flags in a phase.
FlagsOK(ph) ==
    /\ seg.tracks => seg.topen /\ seg.mux
    /\ ~seg.on => ~seg.mux /\ M = NoSnap
    /\ ~seg.topen => T = NoSnap
    /\ ph # "idle" => seg.on
    /\ ph \in {"F1", "E1", "E2", "C1", "K1", "K2", "K3"} => seg.tracks
    /\ ph \in {"R1", "R2", "R3", "R4", "A3", "K5", "K6"} => ~seg.tracks
    /\ ph \in {"A1", "A2", "K5", "K6", "R1", "R2", "R3"} => seg.topen
    /\ ph \in {"R1", "R2", "R3", "R4"} => ~seg.mux
    /\ ph \in {"F1", "F2", "E1", "E2", "E3", "E4", "C1", "C2", "K1", "K2", "K3", "K4",
              "K5", "K6"} => seg.mux

\* Without a muxer, and while one is created, the muxed store has nothing to
\* list; a sync under way has read the timeline it still has.
EmptyOK(ph) ==
    /\ ph \in {"K1", "K2", "K3", "K5", "K6"} \/ (~seg.mux /\ ph \notin {"R1", "R4"}) =>
          Val(M).segs = <<>> /\ Val(M).live = <<>>
    /\ ph \in {"K2", "K6", "R3"} =>
          /\ Val(pos).cum = Val(M).cum /\ Val(pos).epoch = Val(M).epoch
          /\ Val(pos).base = Val(M).base /\ Val(pos).avail = Val(M).avail

\* With a track muxer the track store is where the muxed store is, or where it
\* will be after the operations left.
AlignOK(ph) == seg.tracks =>
    /\ ph \notin {"K1", "K2", "K3", "K4"} => M # NoSnap
    /\ ph \notin {"K1", "K2"} => T # NoSnap
    /\ ph \in {"idle", "F1", "E1", "C1", "A1", "K3", "K4"} => Same(Val(T), Val(M))
    /\ ph = "F2" => Same(Val(T), hls_push_segment_at(Val(M), 0))
    /\ ph \in {"E2", "C2"} => Same(Val(T), hls_push_part_at(Val(M), 0))
    /\ ph = "E3" => Same(Val(T), hls_push_segment_ll_at(hls_push_part_at(Val(M), 0)))
    /\ ph = "E4" => Same(Val(T), hls_push_segment_ll_at(Val(M)))
    /\ ph = "A2" => Same(Val(M), hls_store_anchor_at(Val(T), Wall))

\* The store has no more parts than the segmenter counts.
LiveOK(ph) ==
    /\ seg.n < MaxParts
    /\ ph \in {"E1", "E2", "E3"} => Len(Val(M).live) < MaxParts
    /\ ph \in {"C1", "C2"} => Len(Val(M).live) < seg.n
    /\ ph \notin {"E1", "E2", "E3", "E4", "C1", "C2"} => Len(Val(M).live) <= seg.n

\* The number the next segment of a store gets.
NextOf(sn) == IF sn = NoSnap THEN floor ELSE sn.next

Ahead(ph) == IF ph \in {"F2", "E3", "E4"} THEN 1 ELSE 0

\* The names a muxed store has served are below its next number.
MuxedNamesOK ==
    /\ NamesOnce(seen.M) /\ SegNames(M) \subseteq seen.M
    /\ \A a \in seen.M : a.seq < NextOf(M)

\* So are the track store's, and it never gets ahead of the muxed store, from
\* which the next sync takes its number.
TrackNamesOK(ph) == used.foreign = 0 =>
    /\ NamesOnce(seen.T) /\ SegNames(T) \subseteq seen.T
    /\ \A a \in seen.T : a.seq < NextOf(T) /\ a.seq < NextOf(M) + Ahead(ph)
    /\ seg.tracks /\ ph \notin {"K1", "K2"} => NextOf(T) <= NextOf(M) + Ahead(ph)
    /\ ph \in {"K2", "K6", "R3"} => NextOf(pos) = NextOf(M)

Good(ph) ==
    /\ TypeOK /\ FlagsOK(ph) /\ EmptyOK(ph) /\ AlignOK(ph) /\ LiveOK(ph)
    /\ MuxedNamesOK /\ TrackNamesOK(ph)

Phases == {"idle", "F1", "F2", "E1", "E2", "E3", "E4", "C1", "C2", "A1", "A2", "A3",
           "K1", "K2", "K3", "K4", "K5", "K6", "R1", "R2", "R3", "R4"}

IInv == \E ph \in Phases : Plan(ph, todo) /\ Good(ph)

-----------------------------------------------------------------------------
(* What the store operations make of a snapshot.                           *)

\* A snapshot is not the null pointer, and a clone is a snapshot.
LEMMA SnapNotNull == NoSnap \notin Snap
<1>1. SUFFICES ASSUME NoSnap \in Snap PROVE FALSE
  OBVIOUS
<1>2. DOMAIN NoSnap = {"null"}
  BY DEF NoSnap
<1>3. "next" \in DOMAIN NoSnap
  BY <1>1 DEF Snap
<1>4. QED BY <1>2, <1>3

\* A clone is a snapshot with the original's contents, or an empty one at the
\* floor.
LEMMA CloneFacts ==
  ASSUME NEW sn \in Snap \cup {NoSnap}, NEW f \in Nat
  PROVE  /\ snap_clone(sn, f) \in Snap
         /\ sn \in Snap => snap_clone(sn, f) = sn /\ sn # NoSnap
         /\ sn = NoSnap => snap_clone(sn, f).next = f
         /\ snap_clone(sn, f).segs = Val(sn).segs /\ snap_clone(sn, f).live = Val(sn).live
         /\ snap_clone(sn, f).cum = Val(sn).cum /\ snap_clone(sn, f).epoch = Val(sn).epoch
         /\ snap_clone(sn, f).base = Val(sn).base /\ snap_clone(sn, f).avail = Val(sn).avail
<1>1. CASE sn = NoSnap
  <2>1. snap_clone(sn, f) = Fresh(f) /\ Val(sn) = Fresh(0)
    BY <1>1 DEF snap_clone, Val
  <2>2. Fresh(f) \in Snap
    BY DEF Fresh, Snap
  <2>3. QED BY <1>1, <2>1, <2>2, SnapNotNull DEF Fresh
<1>2. CASE sn # NoSnap
  BY <1>2 DEF snap_clone, Val
<1>3. QED BY <1>1, <1>2

\* The media times of a list of segments are a list of as many numbers.
LEMMA StartsType ==
  ASSUME NEW sn \in Snap
  PROVE  /\ Starts(sn) \in Seq(Nat) /\ Len(Starts(sn)) = Len(sn.segs)
         /\ \A i \in 1..Len(sn.segs) : Starts(sn)[i] = sn.segs[i].start
         /\ \A i \in 1..Len(sn.segs) : sn.segs[i] \in SegRec
<1>1. sn.segs \in Seq(SegRec)
  BY DEF Snap
<1>2. \A i \in 1..Len(sn.segs) : sn.segs[i] \in SegRec
  BY <1>1, ElementOfSeq
<1>3. DOMAIN sn.segs = 1..Len(sn.segs) /\ Len(sn.segs) \in Nat
  BY <1>1, LenProperties
<1>4. \A i \in 1..Len(sn.segs) : sn.segs[i].start \in Nat
  BY <1>2 DEF SegRec
<1>5. Starts(sn) = [i \in 1..Len(sn.segs) |-> sn.segs[i].start]
  BY <1>3 DEF Starts
<1>6. QED BY <1>2, <1>3, <1>4, <1>5

\* Dropping the first of a full list.
Dropped(s) == IF Len(s) >= MaxSegs THEN Tail(s) ELSE s

\* What is left are the later elements, in order.
LEMMA DroppedFacts ==
  ASSUME NEW S, NEW s \in Seq(S)
  PROVE  /\ Dropped(s) \in Seq(S)
         /\ Len(Dropped(s)) = IF Len(s) >= MaxSegs THEN Len(s) - 1 ELSE Len(s)
         /\ \A i \in 1..Len(Dropped(s)) :
              Dropped(s)[i] = s[IF Len(s) >= MaxSegs THEN i + 1 ELSE i]
<1>0. MaxSegs \in Nat \ {0}
  BY SegSnapshotAssumption
<1>1. Len(s) \in Nat
  BY LenProperties
<1>2. CASE Len(s) >= MaxSegs
  <2>1. Dropped(s) = Tail(s)
    BY <1>2 DEF Dropped
  <2>2. s # <<>>
    BY <1>0, <1>1, <1>2
  <2>3. Tail(s) \in Seq(S) /\ Len(Tail(s)) = Len(s) - 1 /\ \A i \in 1..Len(Tail(s)) : Tail(s)[i] = s[i + 1]
    BY <2>2, HeadTailProperties
  <2>4. QED BY <1>2, <2>1, <2>3
<1>3. CASE ~(Len(s) >= MaxSegs)
  BY <1>3 DEF Dropped
<1>4. QED BY <1>2, <1>3

\* The number of media times decides what is dropped.
LEMMA AfterFacts ==
  ASSUME NEW sn \in Snap, NEW new \in SegRec
  PROVE  LET r == [sn EXCEPT !.segs = Append(Dropped(sn.segs), new)]
         IN  Starts(r) = Append(Dropped(Starts(sn)), new.start)
<1> DEFINE d == Dropped(sn.segs)
           t == Dropped(Starts(sn))
           r == [sn EXCEPT !.segs = Append(Dropped(sn.segs), new)]
<1>0. sn.segs \in Seq(SegRec)
  BY DEF Snap
<1>1. /\ d \in Seq(SegRec)
      /\ Len(d) = IF Len(sn.segs) >= MaxSegs THEN Len(sn.segs) - 1 ELSE Len(sn.segs)
      /\ \A i \in 1..Len(d) : d[i] = sn.segs[IF Len(sn.segs) >= MaxSegs THEN i + 1 ELSE i]
  BY <1>0, DroppedFacts
<1>2. /\ t \in Seq(Nat)
      /\ Len(t) = IF Len(Starts(sn)) >= MaxSegs THEN Len(Starts(sn)) - 1 ELSE Len(Starts(sn))
      /\ \A i \in 1..Len(t) : t[i] = Starts(sn)[IF Len(Starts(sn)) >= MaxSegs THEN i + 1 ELSE i]
  BY StartsType, DroppedFacts
<1>3. Len(Starts(sn)) = Len(sn.segs) /\ Len(sn.segs) \in Nat
  BY <1>0, StartsType, LenProperties
<1>4. Len(t) = Len(d) /\ Len(d) \in Nat
  BY <1>1, <1>2, <1>3, LenProperties
<1>5. \A i \in 1..Len(d) : t[i] = d[i].start
  <2> TAKE i \in 1..Len(d)
  <2> DEFINE j == IF Len(sn.segs) >= MaxSegs THEN i + 1 ELSE i
  <2>1. j \in 1..Len(sn.segs)
    BY <1>1, <1>3, <1>4, SegSnapshotAssumption
  <2>2. t[i] = Starts(sn)[j] /\ d[i] = sn.segs[j]
    BY <1>1, <1>2, <1>3, <1>4
  <2>3. Starts(sn)[j] = sn.segs[j].start
    BY <2>1, StartsType
  <2>4. QED BY <2>2, <2>3
<1>6. r.segs = Append(d, new)
  BY DEF Snap
<1>7. Starts(r) = [i \in DOMAIN Append(d, new) |-> Append(d, new)[i].start]
  BY <1>6 DEF Starts
<1> DEFINE a == Append(d, new)  b == Append(t, new.start)
<1>8. /\ a \in Seq(SegRec) /\ Len(a) = Len(d) + 1 /\ a[Len(d) + 1] = new
      /\ \A i \in 1..Len(d) : a[i] = d[i]
  BY <1>1, AppendProperties
<1>9. new.start \in Nat
  BY DEF SegRec
<1>10. /\ b \in Seq(Nat) /\ Len(b) = Len(t) + 1 /\ b[Len(t) + 1] = new.start
       /\ \A i \in 1..Len(t) : b[i] = t[i]
  BY <1>2, <1>9, AppendProperties
<1> HIDE DEF d, t, r
<1>11. DOMAIN a = 1..Len(a) /\ DOMAIN b = 1..Len(b)
  BY <1>8, <1>10, LenProperties
<1>12. \A i \in 1..Len(a) : a[i].start = b[i]
  <2> TAKE i \in 1..Len(a)
  <2>1. CASE i = Len(d) + 1
    BY <1>4, <1>8, <1>10, <2>1
  <2>2. CASE i \in 1..Len(d)
    BY <1>4, <1>5, <1>8, <1>10, <2>2
  <2>3. QED BY <1>4, <1>8, <2>1, <2>2
<1> HIDE DEF a, b
<1>13. Starts(r) = [i \in 1..Len(a) |-> b[i]]
  BY <1>7, <1>11, <1>12 DEF a
<1>14. b = [i \in 1..Len(b) |-> b[i]]
  BY <1>10, LenProperties
<1>15. Starts(r) = b
  BY <1>4, <1>8, <1>10, <1>13, <1>14
<1>16. QED BY <1>15 DEF r, b, t

\* A new segment takes the next number and the present media time.
Appended(r, sn, data) ==
    /\ r \in Snap /\ r.segs # <<>> /\ r.next = sn.next + 1 /\ r.cum = sn.cum + 1
    /\ r.epoch = sn.epoch /\ r.base = sn.base /\ r.avail = sn.avail
    /\ Starts(r) = Append(Dropped(Starts(sn)), sn.cum)
    /\ SegNames(r) \subseteq SegNames(sn) \cup {[seq |-> sn.next, data |-> data]}

\* Both pushes append such a segment.
LEMMA AppendFacts ==
  ASSUME NEW sn \in Snap, NEW data \in Seq(Nat), NEW parts \in Nat, NEW r,
         r = AppendSegment(sn, data, parts)
  PROVE  Appended(r, sn, data) /\ r.live = sn.live
<1> DEFINE new == [seq |-> sn.next, start |-> sn.cum, data |-> data, parts |-> parts,
                   disc |-> sn.disc]
           d == Dropped(sn.segs)
           a == Append(d, new)
<1>1. new \in SegRec /\ new.start = sn.cum /\ new.seq = sn.next /\ new.data = data
  BY DEF Snap, SegRec
<1>2. sn.segs \in Seq(SegRec)
  BY DEF Snap
<1>3. /\ d \in Seq(SegRec)
      /\ Len(d) = IF Len(sn.segs) >= MaxSegs THEN Len(sn.segs) - 1 ELSE Len(sn.segs)
      /\ \A i \in 1..Len(d) : d[i] = sn.segs[IF Len(sn.segs) >= MaxSegs THEN i + 1 ELSE i]
  BY <1>2, DroppedFacts
<1>4. /\ a \in Seq(SegRec) /\ a # <<>> /\ Len(a) = Len(d) + 1 /\ a[Len(d) + 1] = new
      /\ \A i \in 1..Len(d) : a[i] = d[i]
  BY <1>1, <1>3, AppendProperties
<1>5. PICK o \in Nat : r = [sn EXCEPT !.segs = a, !.oldest = o, !.next = sn.next + 1,
                                     !.cum = sn.cum + 1, !.disc = FALSE]
  <2>1. r = [sn EXCEPT !.segs = a,
                       !.oldest = IF Len(sn.segs) >= MaxSegs THEN sn.oldest + 1 ELSE sn.oldest,
                       !.next = sn.next + 1, !.cum = sn.cum + 1, !.disc = FALSE]
    BY DEF AppendSegment, Dropped, Snap
  <2>2. (IF Len(sn.segs) >= MaxSegs THEN sn.oldest + 1 ELSE sn.oldest) \in Nat
    BY DEF Snap
  <2>3. QED BY <2>1, <2>2
<1>6. Starts(r) = Append(Dropped(Starts(sn)), sn.cum)
  <2>1. Starts([sn EXCEPT !.segs = Append(Dropped(sn.segs), new)])
          = Append(Dropped(Starts(sn)), new.start)
    BY <1>1, AfterFacts
  <2>2. r.segs = a /\ [sn EXCEPT !.segs = a].segs = a
    BY <1>5 DEF Snap
  <2>3. Starts(r) = Starts([sn EXCEPT !.segs = a])
    BY <2>2 DEF Starts
  <2>4. QED BY <1>1, <2>1, <2>3
<1> HIDE DEF a, new, d
<1>7. r \in Snap /\ r.segs = a /\ r.next = sn.next + 1 /\ r.cum = sn.cum + 1 /\ r.live = sn.live
      /\ r.epoch = sn.epoch /\ r.base = sn.base /\ r.avail = sn.avail
  <2>1. sn.next + 1 \in Nat /\ sn.cum + 1 \in Nat /\ FALSE \in BOOLEAN
    BY SMTT(60) DEF Snap
  <2>2. PICK n \in Nat, c \in Nat : n = sn.next + 1 /\ c = sn.cum + 1
    BY <2>1
  <2>3. r = [sn EXCEPT !.segs = a, !.oldest = o, !.next = n, !.cum = c, !.disc = FALSE]
    BY <1>5, <2>2
  <2>4. r \in Snap /\ r.segs = a /\ r.next = n /\ r.cum = c /\ r.live = sn.live
        /\ r.epoch = sn.epoch /\ r.base = sn.base /\ r.avail = sn.avail
    BY <1>4, <2>3, ZenonT(60) DEF Snap
  <2>5. QED BY <2>2, <2>4
<1>8. SegNames(r) \subseteq SegNames(sn) \cup {[seq |-> sn.next, data |-> data]}
  <2>1. r # NoSnap /\ sn # NoSnap
    BY <1>7, SnapNotNull
  <2>2. DOMAIN a = 1..Len(a) /\ DOMAIN sn.segs = 1..Len(sn.segs) /\ Len(d) \in Nat /\ Len(sn.segs) \in Nat
    BY <1>2, <1>3, <1>4, LenProperties
  <2>3. SUFFICES ASSUME NEW x \in SegNames(r)
                 PROVE  x \in SegNames(sn) \cup {[seq |-> sn.next, data |-> data]}
    OBVIOUS
  <2>4. PICK i \in 1..Len(a) : x = [seq |-> a[i].seq, data |-> a[i].data]
    BY <1>7, <2>1, <2>2 DEF SegNames
  <2>5. CASE i = Len(d) + 1
    BY <1>1, <1>4, <2>4, <2>5
  <2>6. CASE i \in 1..Len(d)
    <3> DEFINE j == IF Len(sn.segs) >= MaxSegs THEN i + 1 ELSE i
    <3>1. j \in DOMAIN sn.segs
      BY <1>3, <2>2, <2>6, SegSnapshotAssumption
    <3>2. a[i] = sn.segs[j]
      BY <1>3, <1>4, <2>6
    <3>3. x = [seq |-> sn.segs[j].seq, data |-> sn.segs[j].data]
      BY <2>4, <3>2
    <3> HIDE DEF j
    <3>4. x \in SegNames(sn)
      BY <2>1, <3>1, <3>3 DEF SegNames
    <3>5. QED BY <3>4
  <2>7. QED BY <1>4, <2>2, <2>5, <2>6
<1>9. QED BY <1>4, <1>6, <1>7, <1>8 DEF Appended

\* The same of the push of a whole segment.
LEMMA FullFacts ==
  ASSUME NEW sn \in Snap, NEW d \in Nat, NEW r, r = hls_push_segment_at(sn, d)
  PROVE  Appended(r, sn, <<d>>) /\ r.live = sn.live
<1>1. <<d>> \in Seq(Nat) /\ 0 \in Nat
  OBVIOUS
<1>2. r = AppendSegment(sn, <<d>>, 0)
  BY DEF hls_push_segment_at
<1> DEFINE x == <<d>>
<1> HIDE DEF x
<1>3. x \in Seq(Nat) /\ r = AppendSegment(sn, x, 0)
  BY <1>1, <1>2 DEF x
<1>4. Appended(r, sn, x)
  BY <1>1, <1>3, AppendFacts
<1>5. r.live = sn.live
  BY <1>1, <1>3, AppendFacts
<1>6. QED BY <1>4, <1>5 DEF x

\* The close of a segment of parts leaves none in progress.
LEMMA SegFacts ==
  ASSUME NEW sn \in Snap, NEW r, r = hls_push_segment_ll_at(sn)
  PROVE  Appended(r, sn, sn.live) /\ r.live = <<>>
<1>1. sn.live \in Seq(Nat) /\ Len(sn.live) \in Nat /\ sn.next \in Nat
  BY LenProperties DEF Snap
<1>2. PICK a : a = AppendSegment(sn, sn.live, Len(sn.live))
  OBVIOUS
<1> DEFINE l == sn.live  k == Len(sn.live)
<1>2a. l \in Seq(Nat) /\ k \in Nat /\ a = AppendSegment(sn, l, k)
  BY <1>1, <1>2
<1> HIDE DEF l, k
<1>3. Appended(a, sn, l) /\ a.live = sn.live
  <2>1. Appended(a, sn, l)
    BY <1>2a, AppendFacts
  <2>2. a.live = sn.live
    BY <1>2a, AppendFacts
  <2>3. QED BY <2>1, <2>2
<1>4. r = [a EXCEPT !.live = <<>>, !.msn = sn.next + 1]
  BY <1>2 DEF hls_push_segment_ll_at
<1>5. r \in Snap /\ r.segs = a.segs /\ r.next = a.next /\ r.cum = a.cum /\ r.live = <<>>
      /\ r.epoch = a.epoch /\ r.base = a.base /\ r.avail = a.avail
  <2>0. sn.next + 1 \in Nat /\ <<>> \in Seq(Nat)
    BY <1>1
  <2>1. PICK n \in Nat, e \in Seq(Nat) : n = sn.next + 1 /\ e = <<>>
    BY <2>0
  <2>2. r = [a EXCEPT !.live = e, !.msn = n]
    BY <1>4, <2>1
  <2>3. a \in Snap
    BY <1>3 DEF Appended
  <2>4. QED BY <2>1, <2>2, <2>3 DEF Snap
<1>6. Starts(r) = Starts(a)
  BY <1>5 DEF Starts
<1>7. SegNames(r) = SegNames(a)
  BY <1>3, <1>5, SnapNotNull DEF SegNames, Appended
<1>8. QED BY <1>3, <1>5, <1>6, <1>7 DEF l, Appended

\* Snapshots that list the same segments have the same names and times.
LEMMA SameSegs ==
  ASSUME NEW a \in Snap, NEW b \in Snap, a.segs = b.segs
  PROVE  Starts(a) = Starts(b) /\ SegNames(a) = SegNames(b)
<1>1. a # NoSnap /\ b # NoSnap
  BY SnapNotNull
<1>2. QED BY <1>1 DEF Starts, SegNames

\* A part changes only the parts in progress.
LEMMA PartFacts ==
  ASSUME NEW sn \in Snap, NEW d \in Nat, NEW r, r = hls_push_part_at(sn, d)
  PROVE  /\ r \in Snap /\ r.segs = sn.segs /\ r.next = sn.next /\ r.cum = sn.cum
         /\ r.epoch = sn.epoch /\ r.base = sn.base /\ r.avail = sn.avail
         /\ Len(sn.live) \in Nat
         /\ Len(r.live) = IF Len(sn.live) >= MaxParts THEN Len(sn.live) ELSE Len(sn.live) + 1
<1>1. sn.live \in Seq(Nat) /\ Len(sn.live) \in Nat
  BY LenProperties DEF Snap
<1>2. CASE Len(sn.live) >= MaxParts
  <2>1. r = sn
    BY <1>2 DEF hls_push_part_at, PartRefused
  <2>2. QED BY <1>1, <1>2, <2>1
<1>3. CASE ~(Len(sn.live) >= MaxParts)
  <2>1. r = [sn EXCEPT !.live = Append(sn.live, d)]
    BY <1>3 DEF hls_push_part_at, PartRefused, Snap
  <2>2. PICK l : l = Append(sn.live, d)
    OBVIOUS
  <2>3. l \in Seq(Nat) /\ Len(l) = Len(sn.live) + 1
    BY <1>1, <2>2, AppendProperties
  <2>4. r = [sn EXCEPT !.live = l]
    BY <2>1, <2>2
  <2>5. r \in Snap /\ r.live = l /\ r.segs = sn.segs /\ r.next = sn.next /\ r.cum = sn.cum
        /\ r.epoch = sn.epoch /\ r.base = sn.base /\ r.avail = sn.avail
    BY <2>3, <2>4 DEF Snap
  <2>6. QED BY <1>1, <1>3, <2>3, <2>5
<1>4. QED BY <1>2, <1>3

\* An anchor changes only the wall clock of media time 0.
LEMMA AnchorFacts ==
  ASSUME NEW sn \in Snap, NEW w \in Nat, NEW r, r = hls_store_anchor_at(sn, w)
  PROVE  /\ r \in Snap /\ r.segs = sn.segs /\ r.next = sn.next /\ r.cum = sn.cum
         /\ r.epoch = sn.epoch /\ r.base = sn.base /\ r.live = sn.live
         /\ r.avail = IF sn.avail = 0 THEN w ELSE sn.avail
<1>1. CASE sn.avail = 0
  <2>1. r = [sn EXCEPT !.avail = w]
    BY <1>1 DEF hls_store_anchor_at
  <2>2. QED BY <1>1, <2>1 DEF Snap
<1>2. CASE sn.avail # 0
  BY <1>2 DEF hls_store_anchor_at
<1>3. QED BY <1>1, <1>2

\* An init segment changes only its generation.
LEMMA InitFacts ==
  ASSUME NEW sn \in Snap, NEW r, r = hls_set_init_segment_at(sn)
  PROVE  /\ r \in Snap /\ r.segs = sn.segs /\ r.next = sn.next /\ r.cum = sn.cum
         /\ r.epoch = sn.epoch /\ r.base = sn.base /\ r.live = sn.live /\ r.avail = sn.avail
<1>1. PICK g \in Nat : r = [sn EXCEPT !.gen = g]
  <2>1. sn.gen + 1 \in Nat /\ r = [sn EXCEPT !.gen = sn.gen + 1]
    BY DEF hls_set_init_segment_at, Snap
  <2>2. QED BY <2>1
<1>2. QED BY <1>1 DEF Snap

\* The switch to low latency changes only the part target and the live edge.
LEMMA EnableFacts ==
  ASSUME NEW sn \in Snap, NEW r, r = hls_llhls_enable(sn)
  PROVE  /\ r \in Snap /\ r.segs = sn.segs /\ r.next = sn.next /\ r.cum = sn.cum
         /\ r.epoch = sn.epoch /\ r.base = sn.base /\ r.live = sn.live /\ r.avail = sn.avail
<1>1. PICK n \in Nat : r = [sn EXCEPT !.pt = TRUE, !.msn = n]
  BY DEF hls_llhls_enable, Snap
<1>2. QED BY <1>1 DEF Snap

\* A discontinuity empties the store and uses up a number.
LEMMA DiscFacts ==
  ASSUME NEW sn \in Snap, NEW r, r = hls_store_discontinuity_at(sn)
  PROVE  /\ r \in Snap /\ r.segs = <<>> /\ r.live = <<>> /\ r.next = sn.next + 1
         /\ r.avail = sn.avail
<1>1. sn.next + 1 \in Nat /\ sn.epoch + 1 \in Nat /\ sn.cum \in Nat /\ sn.msn \in Nat
  BY DEF Snap
<1>2. (IF sn.pt THEN sn.next + 1 ELSE sn.msn) \in Nat
  BY <1>1
<1>3. <<>> \in Seq(SegRec) /\ <<>> \in Seq(Nat)
  OBVIOUS
<1>4. PICK s \in Seq(SegRec), l \in Seq(Nat) : s = <<>> /\ l = <<>>
  BY <1>3
<1>5. PICK n \in Nat, e \in Nat : n = sn.next + 1 /\ e = sn.epoch + 1
  BY <1>1
<1>6. PICK m \in Nat : m = IF sn.pt THEN sn.next + 1 ELSE sn.msn
  BY <1>2
<1>7. r = [sn EXCEPT !.segs = s, !.live = l, !.next = n, !.oldest = n, !.msn = m,
                     !.epoch = e, !.disc = TRUE, !.base = sn.cum]
  BY <1>4, <1>5, <1>6 DEF hls_store_discontinuity_at, Snap
<1>8. QED BY <1>1, <1>4, <1>5, <1>7, ZenonT(60) DEF Snap

\* A synced store is empty and at the position read.
Synced(r, p, f) ==
    /\ r \in Snap /\ r.segs = <<>> /\ r.live = <<>>
    /\ r.next = (IF p = NoSnap THEN f ELSE p.next) /\ r.cum = Val(p).cum
    /\ r.epoch = Val(p).epoch /\ r.base = Val(p).base /\ r.avail = Val(p).avail

\* That is what a sync publishes.
LEMMA SyncFacts ==
  ASSUME NEW dst \in Snap \cup {NoSnap}, NEW p \in Snap \cup {NoSnap}, NEW f \in Nat, NEW r,
         r = hls_store_sync_at(dst, p, f)
  PROVE  Synced(r, p, f)
<1>1. PICK g \in Nat : g = IF dst = NoSnap THEN 0 ELSE dst.gen
  <2>1. dst # NoSnap => dst.gen \in Nat
    BY DEF Snap
  <2>2. (IF dst = NoSnap THEN 0 ELSE dst.gen) \in Nat
    BY <2>1
  <2>3. QED BY <2>2
<1>2. PICK n : n = IF p = NoSnap THEN Fresh(f)
              ELSE [Fresh(f) EXCEPT !.next = p.next, !.oldest = p.next, !.cum = p.cum,
                             !.epoch = p.epoch, !.disc = p.disc, !.base = p.base,
                             !.avail = p.avail, !.pt = p.pt,
                             !.msn = IF p.pt THEN p.next ELSE Fresh(f).msn]
  OBVIOUS
<1>3. r = [n EXCEPT !.gen = g]
  BY <1>1, <1>2 DEF hls_store_sync_at, Fresh
<1>4. Fresh(f) \in Snap /\ Fresh(f).segs = <<>> /\ Fresh(f).live = <<>>
  BY DEF Fresh, Snap
<1>5. /\ n \in Snap /\ n.segs = <<>> /\ n.live = <<>>
      /\ n.next = (IF p = NoSnap THEN f ELSE p.next) /\ n.cum = Val(p).cum
      /\ n.epoch = Val(p).epoch /\ n.base = Val(p).base /\ n.avail = Val(p).avail
  <2>1. CASE p = NoSnap
    <3>1. n = Fresh(f) /\ Val(p) = Fresh(0)
      BY <1>2, <2>1 DEF Val, snap_clone
    <3>2. QED BY <1>4, <2>1, <3>1 DEF Fresh
  <2>2. CASE p # NoSnap
    <3>1. p \in Snap /\ Val(p) = p
      BY <2>2 DEF Val, snap_clone
    <3>2. PICK m \in Nat : m = IF p.pt THEN p.next ELSE Fresh(f).msn
      BY <1>4, <3>1 DEF Snap
    <3>3. n = [Fresh(f) EXCEPT !.next = p.next, !.oldest = p.next, !.cum = p.cum,
                             !.epoch = p.epoch, !.disc = p.disc, !.base = p.base,
                             !.avail = p.avail, !.pt = p.pt, !.msn = m]
      BY <1>2, <2>2, <3>2
    <3>4. QED BY <1>4, <2>2, <3>1, <3>3 DEF Snap
  <2>3. QED BY <2>1, <2>2
<1>6. r \in Snap /\ r.segs = n.segs /\ r.live = n.live /\ r.next = n.next /\ r.cum = n.cum
      /\ r.epoch = n.epoch /\ r.base = n.base /\ r.avail = n.avail
  BY <1>3, <1>5 DEF Snap
<1>7. QED BY <1>5, <1>6 DEF Synced

-----------------------------------------------------------------------------
(* Two stores on one timeline stay on it under the same operation.         *)

\* Being on one timeline is symmetric and transitive.
LEMMA SameSwap ==
  ASSUME NEW a, NEW b, Same(a, b)
  PROVE  Same(b, a)
BY DEF Same

\* And from one snapshot to the next.
LEMMA SameChain ==
  ASSUME NEW a, NEW b, NEW c, Same(a, b), Same(b, c)
  PROVE  Same(a, c)
BY DEF Same

\* Snapshots that agree in the fields that matter.
LEMMA SameFields ==
  ASSUME NEW a, NEW b, a.segs = b.segs, a.cum = b.cum, a.live = b.live, a.epoch = b.epoch,
         a.base = b.base, a.avail = b.avail
  PROVE  Same(a, b)
BY DEF Same, Starts

\* A clone is on the timeline of its original, whatever the floor.
LEMMA SameClone ==
  ASSUME NEW sn \in Snap \cup {NoSnap}, NEW f \in Nat
  PROVE  Same(snap_clone(sn, f), Val(sn))
<1>1. PICK c : c = snap_clone(sn, f)
  OBVIOUS
<1>2. PICK v : v = Val(sn)
  OBVIOUS
<1>3. c.segs = v.segs /\ c.cum = v.cum /\ c.live = v.live /\ c.epoch = v.epoch /\ c.base = v.base
      /\ c.avail = v.avail
  BY <1>1, <1>2, CloneFacts
<1>4. Same(c, v)
  BY <1>3, SameFields
<1>5. QED BY <1>1, <1>2, <1>4

\* Segments appended at the same place keep two snapshots together.
LEMMA SameAppended ==
  ASSUME NEW a \in Snap, NEW b \in Snap, Same(a, b), NEW x, NEW y, NEW r, NEW s,
         Appended(r, a, x), Appended(s, b, y), Len(r.live) = Len(s.live)
  PROVE  Same(r, s)
BY DEF Same, Appended

\* So does a whole fragment pushed to both, whatever its data,
LEMMA SameFull ==
  ASSUME NEW a \in Snap, NEW b \in Snap, Same(a, b), NEW d \in Nat, NEW e \in Nat
  PROVE  Same(hls_push_segment_at(a, d), hls_push_segment_at(b, e))
<1>1. PICK r : r = hls_push_segment_at(a, d)
  OBVIOUS
<1>2. PICK s : s = hls_push_segment_at(b, e)
  OBVIOUS
<1>3. Appended(r, a, <<d>>) /\ r.live = a.live
  BY <1>1, FullFacts
<1>4. Appended(s, b, <<e>>) /\ s.live = b.live
  BY <1>2, FullFacts
<1>5. Len(r.live) = Len(s.live)
  BY <1>3, <1>4 DEF Same
<1>6. Same(r, s)
  BY <1>3, <1>4, <1>5, SameAppended
<1>7. QED BY <1>1, <1>2, <1>6

\* a segment made of the parts in progress,
LEMMA SameSeg ==
  ASSUME NEW a \in Snap, NEW b \in Snap, Same(a, b)
  PROVE  Same(hls_push_segment_ll_at(a), hls_push_segment_ll_at(b))
<1>1. PICK r : r = hls_push_segment_ll_at(a)
  OBVIOUS
<1>2. PICK s : s = hls_push_segment_ll_at(b)
  OBVIOUS
<1>3. Appended(r, a, a.live) /\ r.live = <<>>
  BY <1>1, SegFacts
<1>4. Appended(s, b, b.live) /\ s.live = <<>>
  BY <1>2, SegFacts
<1>5. Same(r, s)
  BY <1>3, <1>4, SameAppended
<1>6. QED BY <1>1, <1>2, <1>5

\* a part,
LEMMA SamePart ==
  ASSUME NEW a \in Snap, NEW b \in Snap, Same(a, b), NEW d \in Nat, NEW e \in Nat
  PROVE  Same(hls_push_part_at(a, d), hls_push_part_at(b, e))
<1>1. PICK r : r = hls_push_part_at(a, d)
  OBVIOUS
<1>2. PICK s : s = hls_push_part_at(b, e)
  OBVIOUS
<1>3. /\ r \in Snap /\ r.segs = a.segs /\ r.cum = a.cum /\ r.epoch = a.epoch /\ r.base = a.base
      /\ r.avail = a.avail
      /\ Len(r.live) = IF Len(a.live) >= MaxParts THEN Len(a.live) ELSE Len(a.live) + 1
  BY <1>1, PartFacts
<1>4. /\ s \in Snap /\ s.segs = b.segs /\ s.cum = b.cum /\ s.epoch = b.epoch /\ s.base = b.base
      /\ s.avail = b.avail
      /\ Len(s.live) = IF Len(b.live) >= MaxParts THEN Len(b.live) ELSE Len(b.live) + 1
  BY <1>2, PartFacts
<1>5. Starts(r) = Starts(a) /\ Starts(s) = Starts(b)
  BY <1>3, <1>4, SameSegs
<1>6. Same(r, s)
  BY <1>3, <1>4, <1>5 DEF Same
<1>7. QED BY <1>1, <1>2, <1>6

\* and an anchor.
LEMMA SameAnchor ==
  ASSUME NEW a \in Snap, NEW b \in Snap, Same(a, b), NEW w \in Nat
  PROVE  Same(hls_store_anchor_at(a, w), hls_store_anchor_at(b, w))
<1>1. PICK r : r = hls_store_anchor_at(a, w)
  OBVIOUS
<1>2. PICK s : s = hls_store_anchor_at(b, w)
  OBVIOUS
<1>3. /\ r \in Snap /\ r.segs = a.segs /\ r.cum = a.cum /\ r.epoch = a.epoch /\ r.base = a.base
      /\ r.live = a.live /\ r.avail = IF a.avail = 0 THEN w ELSE a.avail
  BY <1>1, AnchorFacts
<1>4. /\ s \in Snap /\ s.segs = b.segs /\ s.cum = b.cum /\ s.epoch = b.epoch /\ s.base = b.base
      /\ s.live = b.live /\ s.avail = IF b.avail = 0 THEN w ELSE b.avail
  BY <1>2, AnchorFacts
<1>5. Starts(r) = Starts(a) /\ Starts(s) = Starts(b)
  BY <1>3, <1>4, SameSegs
<1>6. Same(r, s)
  BY <1>3, <1>4, <1>5 DEF Same
<1>7. QED BY <1>1, <1>2, <1>6

-----------------------------------------------------------------------------
(* Names of segments.                                                      *)

\* A snapshot serves names.
LEMMA NamesType ==
  ASSUME NEW sn \in Snap \cup {NoSnap}
  PROVE  SegNames(sn) \subseteq Name
<1>1. CASE sn = NoSnap
  BY <1>1 DEF SegNames
<1>2. CASE sn # NoSnap
  <2>1. sn \in Snap
    BY <1>2
  <2>2. \A i \in DOMAIN sn.segs : sn.segs[i] \in SegRec
    <3>1. sn.segs \in Seq(SegRec)
      BY <2>1 DEF Snap
    <3>2. QED BY <2>1, <3>1, StartsType, LenProperties
  <2>3. QED BY <1>2, <2>2 DEF SegNames, SegRec, Name
<1>3. QED BY <1>1, <1>2

\* An empty list serves none.
LEMMA NoNames ==
  ASSUME NEW sn \in Snap, sn.segs = <<>>
  PROVE  SegNames(sn) = {}
BY SnapNotNull DEF SegNames

\* A clone has the names and the next number of the original.
LEMMA CloneNames ==
  ASSUME NEW sn \in Snap \cup {NoSnap}, floor \in Nat
  PROVE  /\ SegNames(snap_clone(sn, floor)) = SegNames(sn)
         /\ snap_clone(sn, floor).next = NextOf(sn)
<1>1. CASE sn = NoSnap
  <2>1. snap_clone(sn, floor) = Fresh(floor) /\ snap_clone(sn, floor) \in Snap
    BY <1>1, CloneFacts DEF snap_clone
  <2>2. Fresh(floor).segs = <<>>
    BY DEF Fresh
  <2>3. SegNames(snap_clone(sn, floor)) = {}
    BY <2>1, <2>2, NoNames
  <2>4. QED BY <1>1, <2>1, <2>3 DEF SegNames, NextOf, Fresh
<1>2. CASE sn # NoSnap
  BY <1>2 DEF snap_clone, NextOf
<1>3. QED BY <1>1, <1>2

\* A store that appends a segment gives it a name it has not used.
LEMMA NamesPush ==
  ASSUME NEW names \in SUBSET Name, NEW sn \in Snap, NEW x \in Seq(Nat), NEW r,
         Appended(r, sn, x), NamesOnce(names), SegNames(sn) \subseteq names,
         \A a \in names : a.seq < sn.next
  PROVE  /\ NamesOnce(names \cup SegNames(r))
         /\ \A a \in names \cup SegNames(r) : a \in names \/ a.seq = sn.next
<1>1. PICK y : y = [seq |-> sn.next, data |-> x]
  OBVIOUS
<1>2. y.seq = sn.next /\ sn.next \in Nat
  BY <1>1 DEF Snap
<1>3. SegNames(r) \subseteq SegNames(sn) \cup {y}
  BY <1>1 DEF Appended
<1>4. \A a \in names \cup SegNames(r) : a \in names \/ a = y
  BY <1>3
<1>5. \A a \in names : a.seq \in Nat
  BY DEF Name
<1>6. \A a, b \in names \cup SegNames(r) : a.seq = b.seq => a.data = b.data
  <2> TAKE a, b \in names \cup SegNames(r)
  <2>1. CASE a \in names /\ b \in names
    BY <2>1 DEF NamesOnce
  <2>2. CASE a = y /\ b = y
    BY <2>2
  <2>3. CASE a \in names /\ b = y
    BY <1>2, <1>5, <2>3
  <2>4. CASE a = y /\ b \in names
    BY <1>2, <1>5, <2>4
  <2>5. QED BY <1>4, <2>1, <2>2, <2>3, <2>4
<1>7. QED BY <1>2, <1>4, <1>6 DEF NamesOnce

-----------------------------------------------------------------------------
(* Names over a step, by what happens to the store.                        *)

\* The muxed store appends a segment.
LEMMA MuxedPush ==
  ASSUME TypeOK, MuxedNamesOK, NEW x \in Seq(Nat), Appended(M', snap_clone(M, floor), x),
         seen'.M = seen.M \cup SegNames(M')
  PROVE  MuxedNamesOK'
<1>1. M \in Snap \cup {NoSnap} /\ floor \in Nat /\ seen.M \in SUBSET Name
  BY DEF TypeOK
<1>2. PICK sn \in Snap : sn = snap_clone(M, floor)
  BY <1>1, CloneFacts
<1>3. SegNames(sn) = SegNames(M) /\ sn.next = NextOf(M)
  BY <1>1, <1>2, CloneNames
<1>4. NamesOnce(seen.M) /\ SegNames(sn) \subseteq seen.M /\ \A a \in seen.M : a.seq < sn.next
  BY <1>3 DEF MuxedNamesOK
<1>5. PICK r : r = M'
  OBVIOUS
<1>6. Appended(r, sn, x)
  BY <1>2, <1>5
<1>7. /\ NamesOnce(seen.M \cup SegNames(r))
      /\ \A a \in seen.M \cup SegNames(r) : a \in seen.M \/ a.seq = sn.next
  BY <1>1, <1>4, <1>6, NamesPush
<1>8. r \in Snap /\ r.next = sn.next + 1 /\ sn.next \in Nat
  BY <1>2, <1>6 DEF Appended, Snap
<1>9. r # NoSnap
  BY <1>8, SnapNotNull
<1>10. NextOf(M)' = r.next
  BY <1>5, <1>9 DEF NextOf
<1>11. \A a \in seen.M : a.seq \in Nat
  BY <1>1 DEF Name
<1>12. \A a \in seen.M \cup SegNames(r) : a.seq < r.next
  BY <1>4, <1>7, <1>8, <1>11
<1>13. QED BY <1>5, <1>7, <1>10, <1>12 DEF MuxedNamesOK

\* It keeps or empties its list.
LEMMA MuxedMove ==
  ASSUME TypeOK, MuxedNamesOK, M' \in Snap, SegNames(M') \subseteq SegNames(M),
         M'.next >= NextOf(M), seen'.M = seen.M \cup SegNames(M')
  PROVE  MuxedNamesOK'
<1>1. M' # NoSnap
  BY SnapNotNull
<1>2. NextOf(M)' = M'.next
  BY <1>1 DEF NextOf
<1>3. seen'.M = seen.M
  BY DEF MuxedNamesOK
<1>4. NextOf(M) \in Nat /\ M'.next \in Nat /\ \A a \in seen.M : a.seq \in Nat
  BY DEF TypeOK, NextOf, Snap, Name
<1>5. \A a \in seen.M : a.seq < M'.next
  BY <1>4 DEF MuxedNamesOK
<1>6. QED BY <1>2, <1>3, <1>5 DEF MuxedNamesOK

\* It is left alone.
LEMMA MuxedStill ==
  ASSUME TypeOK, MuxedNamesOK, M' = M, seen'.M = seen.M, floor' \in Nat, floor' >= floor
  PROVE  MuxedNamesOK'
<1>1. NextOf(M) \in Nat /\ NextOf(M)' \in Nat /\ NextOf(M)' >= NextOf(M)
      /\ \A a \in seen.M : a.seq \in Nat
  BY SMTT(60) DEF TypeOK, NextOf, Snap, Name
<1>2. \A a \in seen.M : a.seq < NextOf(M)'
  BY <1>1 DEF MuxedNamesOK
<1>3. QED BY <1>2 DEF MuxedNamesOK

\* The numbers the invariant compares.
LEMMA NextType ==
  ASSUME TypeOK
  PROVE  /\ NextOf(M) \in Nat /\ NextOf(T) \in Nat /\ NextOf(pos) \in Nat
         /\ \A a \in seen.T : a.seq \in Nat
BY DEF TypeOK, NextOf, Snap, Name

\* The track store appends a segment.
LEMMA TrackPush ==
  ASSUME TypeOK, NEW ph \in {"F1", "E2"}, NEW q \in {"F2", "E3"}, FlagsOK(ph), TrackNamesOK(ph),
         NEW x \in Seq(Nat), Appended(T', snap_clone(T, floor), x),
         seen'.T = seen.T \cup SegNames(T'), M' = M, floor' = floor, used' = used
  PROVE  TrackNamesOK(q)'
<1>1. SUFFICES ASSUME used.foreign = 0
      PROVE  /\ NamesOnce(seen'.T) /\ SegNames(T') \subseteq seen'.T
             /\ \A a \in seen'.T : a.seq < NextOf(T)' /\ a.seq < NextOf(M)' + Ahead(q)
             /\ NextOf(T)' <= NextOf(M)' + Ahead(q)
  BY DEF TrackNamesOK
<1>2. T \in Snap \cup {NoSnap} /\ floor \in Nat /\ seen.T \in SUBSET Name
  BY DEF TypeOK
<1>3. PICK sn \in Snap : sn = snap_clone(T, floor)
  BY <1>2, CloneFacts
<1>4. SegNames(sn) = SegNames(T) /\ sn.next = NextOf(T)
  BY <1>2, <1>3, CloneNames
<1>5. NamesOnce(seen.T) /\ SegNames(sn) \subseteq seen.T /\ \A a \in seen.T : a.seq < sn.next
  BY <1>1, <1>4 DEF TrackNamesOK
<1>6. NextOf(T) <= NextOf(M) + Ahead(ph)
  BY <1>1 DEF TrackNamesOK, FlagsOK
<1>7. PICK r : r = T'
  OBVIOUS
<1>8. Appended(r, sn, x)
  BY <1>3, <1>7
<1>9. /\ NamesOnce(seen.T \cup SegNames(r))
      /\ \A a \in seen.T \cup SegNames(r) : a \in seen.T \/ a.seq = sn.next
  BY <1>2, <1>5, <1>8, NamesPush
<1>10. r \in Snap /\ r.next = sn.next + 1 /\ sn.next \in Nat
  BY <1>3, <1>8 DEF Appended, Snap
<1>11. r # NoSnap
  BY <1>10, SnapNotNull
<1>12. NextOf(T)' = r.next /\ NextOf(M)' = NextOf(M)
  BY <1>7, <1>11 DEF NextOf
<1>13. Ahead(ph) = 0 /\ Ahead(q) = 1
  BY DEF Ahead
<1>14. \A a \in seen.T \cup SegNames(r) : a.seq \in Nat /\ a.seq < r.next
  BY <1>5, <1>9, <1>10, NextType
<1>15. r.next <= NextOf(M) + 1 /\ NextOf(M) \in Nat
  BY <1>4, <1>6, <1>10, <1>13, NextType
<1>16. \A a \in seen.T \cup SegNames(r) : a.seq < NextOf(M) + 1
  BY <1>10, <1>14, <1>15
<1>17. QED BY <1>7, <1>9, <1>12, <1>13, <1>14, <1>15, <1>16

\* It keeps its list.
LEMMA TrackNeutral ==
  ASSUME TypeOK, NEW ph, NEW q, TrackNamesOK(ph), T' \in Snap, SegNames(T') = SegNames(T),
         T'.next = NextOf(T), seen'.T = seen.T \cup SegNames(T'), M' = M, pos' = pos,
         floor' = floor, used' = used, seg' = seg, Ahead(q) = Ahead(ph),
         ph \in {"K1", "K2"} => q = ph, q \in {"K2", "K6", "R3"} => q = ph
  PROVE  TrackNamesOK(q)'
<1>1. T' # NoSnap
  BY SnapNotNull
<1>2. NextOf(T)' = NextOf(T) /\ NextOf(M)' = NextOf(M) /\ NextOf(pos)' = NextOf(pos)
  BY <1>1 DEF NextOf
<1>3. used.foreign = 0 => seen'.T = seen.T
  BY DEF TrackNamesOK
<1>4. QED BY <1>2, <1>3 DEF TrackNamesOK

\* It is left alone while the muxed store moves.
LEMMA TrackStill ==
  ASSUME TypeOK, NEW ph, NEW q, TrackNamesOK(ph), T' = T, seen'.T = seen.T,
         floor' = floor, used' = used, seg' = seg, NextOf(M)' \in Nat,
         NextOf(M)' + Ahead(q) >= NextOf(M) + Ahead(ph),
         ph \in {"K1", "K2"} => q \in {"K1", "K2"},
         q \in {"K2", "K6", "R3"} => NextOf(pos)' = NextOf(M)'
  PROVE  TrackNamesOK(q)'
<1>1. NextOf(T)' = NextOf(T)
  BY DEF NextOf
<1>2. Ahead(q) \in Nat /\ Ahead(ph) \in Nat
  BY DEF Ahead
<1>3. PICK a \in Nat, b \in Nat : a = NextOf(M) + Ahead(ph) /\ b = NextOf(M)' + Ahead(q)
  BY <1>2, NextType
<1>4. a <= b
  BY <1>3
<1>5. ASSUME used.foreign = 0
      PROVE  \A n \in seen.T : n.seq < NextOf(T) /\ n.seq < b
  <2>1. \A n \in seen.T : n.seq < NextOf(T) /\ n.seq < a
    BY <1>3, <1>5 DEF TrackNamesOK
  <2>2. QED BY <1>4, <2>1, NextType
<1>6. ASSUME used.foreign = 0, seg.tracks, q \notin {"K1", "K2"}
      PROVE  NextOf(T) <= b
  <2>1. NextOf(T) <= a
    BY <1>3, <1>6 DEF TrackNamesOK
  <2>2. QED BY <1>4, <2>1, NextType
<1>7. QED BY <1>1, <1>3, <1>5, <1>6 DEF TrackNamesOK

\* It restarts at the position read.
LEMMA TrackSynced ==
  ASSUME TypeOK, NEW ph \in {"K2", "K6", "R3"}, NEW q \in {"K3", "K4", "idle"}, TrackNamesOK(ph),
         T' \in Snap, T'.segs = <<>>, T'.next = NextOf(pos), seen'.T = seen.T \cup SegNames(T'),
         M' = M, floor' = floor, used' = used
  PROVE  TrackNamesOK(q)'
<1>1. T' # NoSnap /\ SegNames(T') = {}
  BY SnapNotNull, NoNames
<1>2. NextOf(T)' = NextOf(pos) /\ NextOf(M)' = NextOf(M)
  BY <1>1 DEF NextOf
<1>3. Ahead(ph) = 0 /\ Ahead(q) = 0
  BY DEF Ahead
<1>4. QED BY <1>1, <1>2, <1>3, NextType DEF TrackNamesOK

-----------------------------------------------------------------------------
(* The pump's steps preserve the invariant.                                *)

Frame == seg' = seg /\ enable' = enable /\ floor' = floor /\ used' = used

\* What publishing a snapshot does.
LEMMA PubM ==
  ASSUME TypeOK, NEW r \in Snap, PublishM(r), seg' = seg, floor' = floor, used' = used, pos' = pos,
         enable' \subseteq {"M", "T"}
  PROVE  /\ TypeOK' /\ M' = r /\ M' # NoSnap /\ T' = T /\ Val(M)' = r /\ Val(T)' = Val(T)
         /\ seen'.M = seen.M \cup SegNames(r) /\ seen'.T = seen.T
<1>1. M' = r /\ T' = T /\ seen' = [seen EXCEPT !.M = seen.M \cup SegNames(r)]
  BY DEF PublishM, TypeOK
<1>2. r # NoSnap
  BY SnapNotNull
<1>3. SegNames(r) \subseteq Name
  BY NamesType
<1>4. seen' \in [M : SUBSET Name, T : SUBSET Name] /\ seen'.M = seen.M \cup SegNames(r)
      /\ seen'.T = seen.T
  BY <1>1, <1>3 DEF TypeOK
<1>5. TypeOK'
  BY <1>1, <1>4 DEF TypeOK
<1>6. Val(M)' = r /\ Val(T)' = Val(T)
  BY <1>1, <1>2 DEF Val, snap_clone
<1>7. QED BY <1>1, <1>2, <1>4, <1>5, <1>6

\* The same of the track store.
LEMMA PubT ==
  ASSUME TypeOK, NEW r \in Snap, PublishT(r), seg' = seg, floor' = floor, used' = used,
         pos' \in {pos, NoSnap}, enable' \subseteq {"M", "T"}
  PROVE  /\ TypeOK' /\ T' = r /\ T' # NoSnap /\ M' = M /\ Val(T)' = r /\ Val(M)' = Val(M)
         /\ seen'.T = seen.T \cup SegNames(r) /\ seen'.M = seen.M
<1>1. T' = r /\ M' = M /\ seen' = [seen EXCEPT !.T = seen.T \cup SegNames(r)]
  BY DEF PublishT, TypeOK
<1>2. r # NoSnap
  BY SnapNotNull
<1>3. SegNames(r) \subseteq Name
  BY NamesType
<1>4. seen' \in [M : SUBSET Name, T : SUBSET Name] /\ seen'.T = seen.T \cup SegNames(r)
      /\ seen'.M = seen.M
  BY <1>1, <1>3 DEF TypeOK
<1>5. TypeOK'
  BY <1>1, <1>4 DEF TypeOK
<1>6. Val(T)' = r /\ Val(M)' = Val(M)
  BY <1>1, <1>2 DEF Val, snap_clone
<1>7. QED BY <1>1, <1>2, <1>4, <1>5, <1>6

\* The write operations by name.
LEMMA WriteCases ==
  ASSUME NEW sn
  PROVE  /\ Write("full", sn) = hls_push_segment_at(sn, used.frags)
         /\ Write("part", sn) = hls_push_part_at(sn, used.frags)
         /\ Write("seg", sn) = hls_push_segment_ll_at(sn)
         /\ Write("anchor", sn) = hls_store_anchor_at(sn, Wall)
         /\ Write("init", sn) = hls_set_init_segment_at(sn)
         /\ Write("disc", sn) = hls_store_discontinuity_at(sn)
BY DEF Write, Frag

\* The two stores as the operations find them.
LEMMA Stores ==
  ASSUME TypeOK
  PROVE  /\ snap_clone(M, floor) \in Snap /\ snap_clone(T, floor) \in Snap
         /\ Same(snap_clone(M, floor), Val(M)) /\ Same(snap_clone(T, floor), Val(T))
         /\ snap_clone(M, floor).live = Val(M).live /\ snap_clone(M, floor).segs = Val(M).segs
         /\ Val(M) \in Snap /\ Val(T) \in Snap /\ Val(pos) \in Snap
         /\ used.frags \in Nat /\ Wall \in Nat
<1>1. M \in Snap \cup {NoSnap} /\ T \in Snap \cup {NoSnap} /\ pos \in Snap \cup {NoSnap}
      /\ floor \in Nat /\ 0 \in Nat
  BY DEF TypeOK
<1>2. snap_clone(M, floor) \in Snap /\ snap_clone(T, floor) \in Snap
  BY <1>1, CloneFacts
<1>3. Same(snap_clone(M, floor), Val(M)) /\ Same(snap_clone(T, floor), Val(T))
  BY <1>1, SameClone
<1>4. Val(M) \in Snap /\ Val(T) \in Snap /\ Val(pos) \in Snap
  BY <1>1, CloneFacts DEF Val
<1>5. used.frags \in Nat /\ Wall \in Nat
  BY DEF TypeOK, Wall
<1>6. snap_clone(M, floor).live = Val(M).live /\ snap_clone(M, floor).segs = Val(M).segs
  BY <1>1, CloneFacts
<1>7. QED BY <1>2, <1>3, <1>4, <1>5, <1>6

\* The flags allow every move.
LEMMA MoveFlags ==
  ASSUME NEW ph, NEW q, Moves(ph, q), FlagsOK(ph), Frame, ph # "idle"
  PROVE  FlagsOK(q)'
<1>1. seg.on
  BY DEF FlagsOK
<1>2. seg.topen \/ T' = T
  <2>1. CASE ph \in {"F1", "E1", "E2", "C1", "K1", "K2", "K3", "A1", "A2", "K5", "K6", "R1", "R2", "R3"}
    BY <2>1 DEF FlagsOK
  <2>2. CASE ph \in {"F2", "E3", "E4", "C2", "A3", "K4", "R4"}
    BY <2>2 DEF Moves, OnM, Disc, PublishM
  <2>3. QED BY <2>1, <2>2 DEF Moves
<1>3. QED BY <1>1, <1>2 DEF FlagsOK, Moves, Frame

\* The track store appends a segment.
LEMMA MoveTrackPush ==
  ASSUME NEW ph, NEW q, Good(ph), Frame, Moves(ph, q), ph \in {"F1", "E2"}
  PROVE  Good(q)'
<1>0. TypeOK /\ FlagsOK(ph) /\ AlignOK(ph) /\ LiveOK(ph) /\ MuxedNamesOK /\ TrackNamesOK(ph)
  BY DEF Good
<1>1. PICK t \in Snap : t = snap_clone(T, floor) /\ Same(t, Val(T))
  BY <1>0, Stores
<1>2. seg.tracks /\ seg.mux
  BY <1>0 DEF FlagsOK
<1>3. PICK m \in Snap : m = Val(M)
  BY <1>0, Stores
<1>4. PICK r \in Snap, x \in Seq(Nat) :
        /\ PublishT(r) /\ pos' = pos /\ q \in {"F2", "E3"} /\ Appended(r, t, x)
        /\ q = "F2" => Same(r, hls_push_segment_at(m, 0))
        /\ q = "E3" => Same(r, hls_push_segment_ll_at(hls_push_part_at(m, 0)))
  <2>1. CASE ph = "F1"
    <3>1. q = "F2" /\ OnT("full")
      BY <2>1 DEF Moves
    <3>2. PICK r : r = hls_push_segment_at(t, used.frags)
      OBVIOUS
    <3>3. PublishT(r) /\ pos' = pos
      BY <1>1, <3>1, <3>2, WriteCases DEF OnT
    <3>4. used.frags \in Nat /\ <<used.frags>> \in Seq(Nat)
      BY <1>0, Stores
    <3>5. Appended(r, t, <<used.frags>>)
      BY <3>2, <3>4, FullFacts
    <3>6. Same(Val(T), m)
      BY <1>0, <1>2, <1>3, <2>1 DEF AlignOK
    <3>7. Same(t, m)
      BY <1>1, <3>6, SameChain
    <3>8. Same(r, hls_push_segment_at(m, 0))
      BY <3>2, <3>4, <3>7, SameFull
    <3>9. r \in Snap
      BY <3>5 DEF Appended
    <3>10. QED BY <3>1, <3>3, <3>4, <3>5, <3>8, <3>9
  <2>2. CASE ph = "E2"
    <3>1. q = "E3" /\ OnT("seg")
      BY <2>2 DEF Moves
    <3>2. PICK r : r = hls_push_segment_ll_at(t)
      OBVIOUS
    <3>3. PublishT(r) /\ pos' = pos
      BY <1>1, <3>1, <3>2, WriteCases DEF OnT
    <3>4. t.live \in Seq(Nat)
      BY DEF Snap
    <3>5. Appended(r, t, t.live)
      BY <3>2, SegFacts
    <3>6. PICK p \in Snap : p = hls_push_part_at(m, 0)
      BY PartFacts
    <3>7. Same(Val(T), p)
      BY <1>0, <1>2, <1>3, <2>2, <3>6 DEF AlignOK
    <3>8. Same(t, p)
      BY <1>1, <3>7, SameChain
    <3>9. Same(r, hls_push_segment_ll_at(p))
      BY <3>2, <3>8, SameSeg
    <3>10. r \in Snap
      BY <3>5 DEF Appended
    <3>11. QED BY <3>1, <3>3, <3>4, <3>5, <3>6, <3>9, <3>10
  <2>3. QED BY <2>1, <2>2
<1>5. /\ TypeOK' /\ T' = r /\ T' # NoSnap /\ M' = M /\ Val(T)' = r /\ Val(M)' = Val(M)
      /\ seen'.T = seen.T \cup SegNames(r) /\ seen'.M = seen.M
  BY <1>0, <1>4, PubT DEF Frame, TypeOK
<1>6. FlagsOK(q)'
  BY <1>0, MoveFlags
<1>7. EmptyOK(q)'
  BY <1>2, <1>4 DEF EmptyOK, Frame
<1>8. AlignOK(q)'
  <2>1. M # NoSnap
    BY <1>0, <1>2 DEF AlignOK
  <2>2. QED BY <1>3, <1>4, <1>5, <2>1 DEF AlignOK
<1>9. LiveOK(q)'
  BY <1>0, <1>4, <1>5 DEF LiveOK, Moves, Frame
<1>10. MuxedNamesOK'
  <2>1. floor \in Nat
    BY <1>0 DEF TypeOK
  <2>2. QED BY <1>0, <1>5, <2>1, MuxedStill DEF Frame
<1>11. TrackNamesOK(q)'
  BY <1>0, <1>1, <1>4, <1>5, TrackPush DEF Frame
<1>12. QED BY <1>5, <1>6, <1>7, <1>8, <1>9, <1>10, <1>11 DEF Good

\* The track store changes without a new segment.
LEMMA MoveTrackNeutral ==
  ASSUME NEW ph, NEW q, Good(ph), Frame, Moves(ph, q), ph \in {"E1", "C1", "A2", "K3"}
  PROVE  Good(q)'
<1>0. /\ TypeOK /\ FlagsOK(ph) /\ EmptyOK(ph) /\ AlignOK(ph) /\ LiveOK(ph) /\ MuxedNamesOK
      /\ TrackNamesOK(ph)
  BY DEF Good
<1>1. PICK t \in Snap : t = snap_clone(T, floor) /\ Same(t, Val(T))
  BY <1>0, Stores
<1>2. PICK m \in Snap : m = Val(M)
  BY <1>0, Stores
<1>3. PICK v \in Snap : v = Val(T)
  BY <1>0, Stores
<1>4. PICK r \in Snap :
        /\ PublishT(r) /\ pos' = pos /\ q \in {"E2", "C2", "idle", "K4"}
        /\ ph = "A2" <=> q = "idle"
        /\ r.segs = t.segs /\ r.next = t.next
        /\ seg.tracks => /\ q \in {"E2", "C2"} => Same(r, hls_push_part_at(m, 0))
                         /\ q \in {"idle", "K4"} => Same(r, m)
  <2>1. CASE ph \in {"E1", "C1"}
    <3>1. q \in {"E2", "C2"} /\ OnT("part")
      BY <2>1 DEF Moves
    <3>2. PICK r : r = hls_push_part_at(t, used.frags)
      OBVIOUS
    <3>3. PublishT(r) /\ pos' = pos
      BY <1>1, <3>1, <3>2, WriteCases DEF OnT
    <3>4. used.frags \in Nat
      BY <1>0, Stores
    <3>5. r \in Snap /\ r.segs = t.segs /\ r.next = t.next
      BY <3>2, <3>4, PartFacts
    <3>6. seg.tracks => Same(v, m)
      BY <1>0, <1>2, <1>3, <2>1 DEF AlignOK
    <3>7. seg.tracks => Same(t, m)
      BY <1>1, <1>3, <3>6, SameChain
    <3>8. seg.tracks => Same(r, hls_push_part_at(m, 0))
      BY <3>2, <3>4, <3>7, SamePart
    <3>9. QED BY <2>1, <3>1, <3>3, <3>5, <3>8
  <2>2. CASE ph = "A2"
    <3>1. q = "idle" /\ OnT("anchor")
      BY <2>2 DEF Moves
    <3>2. PICK r : r = hls_store_anchor_at(t, Wall)
      OBVIOUS
    <3>3. PublishT(r) /\ pos' = pos
      BY <1>1, <3>1, <3>2, WriteCases DEF OnT
    <3>4. Wall \in Nat
      BY <1>0, Stores
    <3>5. r \in Snap /\ r.segs = t.segs /\ r.next = t.next
      BY <3>2, <3>4, AnchorFacts
    <3>6. seg.tracks => Same(m, hls_store_anchor_at(v, Wall))
      BY <1>0, <1>2, <1>3, <2>2 DEF AlignOK
    <3>7. Same(r, hls_store_anchor_at(v, Wall))
      BY <1>1, <1>3, <3>2, <3>4, SameAnchor
    <3>8. seg.tracks => Same(r, m)
      BY <3>6, <3>7, SameChain, SameSwap
    <3>9. QED BY <2>2, <3>1, <3>3, <3>5, <3>8
  <2>3. CASE ph = "K3"
    <3>1. q = "K4" /\ OnT("init")
      BY <2>3 DEF Moves
    <3>2. PICK r : r = hls_set_init_segment_at(t)
      OBVIOUS
    <3>3. PublishT(r) /\ pos' = pos
      BY <1>1, <3>1, <3>2, WriteCases DEF OnT
    <3>4. /\ r \in Snap /\ r.segs = t.segs /\ r.next = t.next /\ r.cum = t.cum
          /\ r.epoch = t.epoch /\ r.base = t.base /\ r.live = t.live /\ r.avail = t.avail
      BY <3>2, InitFacts
    <3>5. Same(r, t)
      BY <3>4, SameFields
    <3>6. seg.tracks => Same(v, m)
      BY <1>0, <1>2, <1>3, <2>3 DEF AlignOK
    <3>7. seg.tracks => Same(r, m)
      BY <1>1, <1>3, <3>5, <3>6, SameChain
    <3>8. QED BY <2>3, <3>1, <3>3, <3>4, <3>7
  <2>4. QED BY <2>1, <2>2, <2>3
<1>5. /\ TypeOK' /\ T' = r /\ T' # NoSnap /\ M' = M /\ Val(T)' = r /\ Val(M)' = Val(M)
      /\ seen'.T = seen.T \cup SegNames(r) /\ seen'.M = seen.M
  BY <1>0, <1>4, PubT DEF Frame, TypeOK
<1>6. FlagsOK(q)'
  BY <1>0, MoveFlags
<1>7. EmptyOK(q)'
  BY <1>0, <1>4, <1>5 DEF EmptyOK, Frame
<1>8. AlignOK(q)'
  <2>1. seg.tracks /\ q # "K4" => M # NoSnap
    BY <1>0, <1>4 DEF AlignOK, Moves
  <2>2. QED BY <1>2, <1>4, <1>5, <2>1 DEF AlignOK, Frame
<1>9. LiveOK(q)'
  BY <1>0, <1>4, <1>5 DEF LiveOK, Moves, Frame
<1>10. MuxedNamesOK'
  <2>1. floor \in Nat
    BY <1>0 DEF TypeOK
  <2>2. QED BY <1>0, <1>5, <2>1, MuxedStill DEF Frame
<1>11. TrackNamesOK(q)'
  <2>1. SegNames(r) = SegNames(T) /\ r.next = NextOf(T)
    BY <1>0, <1>1, <1>4, SameSegs, CloneNames DEF TypeOK
  <2>2. Ahead(q) = 0 /\ Ahead(ph) = 0
    BY <1>4 DEF Ahead
  <2>3. QED BY <1>0, <1>4, <1>5, <2>1, <2>2, TrackNeutral DEF Frame
<1>12. QED BY <1>5, <1>6, <1>7, <1>8, <1>9, <1>10, <1>11 DEF Good

\* The muxed store appends the segment the track store has already.
LEMMA MoveMuxedPush ==
  ASSUME NEW ph, NEW q, Good(ph), Frame, Moves(ph, q), ph \in {"F2", "E4"}
  PROVE  Good(q)'
<1>0. /\ TypeOK /\ FlagsOK(ph) /\ AlignOK(ph) /\ LiveOK(ph) /\ MuxedNamesOK
      /\ TrackNamesOK(ph) /\ seg.mux
  BY DEF Good, FlagsOK
<1>1. PICK m \in Snap : m = snap_clone(M, floor) /\ Same(m, Val(M)) /\ m.live = Val(M).live
  BY <1>0, Stores
<1>2. PICK v \in Snap : v = Val(M)
  BY <1>0, Stores
<1>3. PICK r \in Snap, x \in Seq(Nat) :
        /\ PublishM(r) /\ pos' = pos /\ q = "idle" /\ Appended(r, m, x)
        /\ seg.tracks => Same(Val(T), r)
        /\ Len(r.live) <= seg.n
  <2>1. CASE ph = "F2"
    <3>1. q = "idle" /\ OnM("full")
      BY <2>1 DEF Moves
    <3>2. PICK r : r = hls_push_segment_at(m, used.frags)
      OBVIOUS
    <3>3. PublishM(r) /\ pos' = pos
      BY <1>1, <3>1, <3>2, WriteCases DEF OnM
    <3>4. used.frags \in Nat /\ <<used.frags>> \in Seq(Nat)
      BY <1>0, Stores
    <3>5. Appended(r, m, <<used.frags>>) /\ r.live = m.live
      BY <3>2, <3>4, FullFacts
    <3>6. seg.tracks => Same(Val(T), hls_push_segment_at(v, 0))
      BY <1>0, <1>2, <2>1 DEF AlignOK
    <3>7. Same(r, hls_push_segment_at(v, 0))
      BY <1>1, <1>2, <3>2, <3>4, SameFull
    <3>8. seg.tracks => Same(Val(T), r)
      BY <3>6, <3>7, SameChain, SameSwap
    <3>9. r \in Snap
      BY <3>5 DEF Appended
    <3>10. Len(r.live) <= seg.n
      BY <1>0, <1>1, <2>1, <3>5 DEF LiveOK
    <3>11. QED BY <3>1, <3>3, <3>4, <3>5, <3>8, <3>9, <3>10
  <2>2. CASE ph = "E4"
    <3>1. q = "idle" /\ OnM("seg")
      BY <2>2 DEF Moves
    <3>2. PICK r : r = hls_push_segment_ll_at(m)
      OBVIOUS
    <3>3. PublishM(r) /\ pos' = pos
      BY <1>1, <3>1, <3>2, WriteCases DEF OnM
    <3>4. m.live \in Seq(Nat)
      BY DEF Snap
    <3>5. Appended(r, m, m.live) /\ r.live = <<>>
      BY <3>2, SegFacts
    <3>6. seg.tracks => Same(Val(T), hls_push_segment_ll_at(v))
      BY <1>0, <1>2, <2>2 DEF AlignOK
    <3>7. Same(r, hls_push_segment_ll_at(v))
      BY <1>1, <1>2, <3>2, SameSeg
    <3>8. seg.tracks => Same(Val(T), r)
      BY <3>6, <3>7, SameChain, SameSwap
    <3>9. r \in Snap
      BY <3>5 DEF Appended
    <3>10. Len(r.live) <= seg.n
      BY <1>0, <3>5 DEF TypeOK
    <3>11. QED BY <3>1, <3>3, <3>4, <3>5, <3>8, <3>9, <3>10
  <2>3. QED BY <2>1, <2>2
<1>4. /\ TypeOK' /\ M' = r /\ M' # NoSnap /\ T' = T /\ Val(M)' = r /\ Val(T)' = Val(T)
      /\ seen'.M = seen.M \cup SegNames(r) /\ seen'.T = seen.T
  BY <1>0, <1>3, PubM DEF Frame, TypeOK
<1>5. FlagsOK(q)'
  BY <1>0, MoveFlags
<1>6. EmptyOK(q)'
  BY <1>0, <1>3 DEF EmptyOK, Frame
<1>7. AlignOK(q)'
  <2>1. seg.tracks => T # NoSnap
    BY <1>0 DEF AlignOK
  <2>2. QED BY <1>3, <1>4, <2>1 DEF AlignOK, Frame
<1>8. LiveOK(q)'
  BY <1>0, <1>3, <1>4 DEF LiveOK, Frame
<1>9. MuxedNamesOK'
  BY <1>0, <1>1, <1>3, <1>4, MuxedPush
<1>10. TrackNamesOK(q)'
  <2>1. m.next = NextOf(M) /\ r.next = m.next + 1 /\ m.next \in Nat
    BY <1>0, <1>1, <1>3, CloneNames DEF TypeOK, Appended, Snap
  <2>2. NextOf(M)' = r.next
    BY <1>4 DEF NextOf
  <2>3. Ahead(q) = 0 /\ Ahead(ph) = 1 /\ q \notin {"K2", "K6", "R3"}
    BY <1>3 DEF Ahead
  <2>4. NextOf(M)' \in Nat /\ NextOf(M)' + Ahead(q) >= NextOf(M) + Ahead(ph)
    BY <2>1, <2>2, <2>3
  <2>5. QED BY <1>0, <1>3, <1>4, <2>3, <2>4, TrackStill DEF Frame
<1>11. QED BY <1>4, <1>5, <1>6, <1>7, <1>8, <1>9, <1>10 DEF Good

\* The muxed store changes without a new segment.
LEMMA MoveMuxedNeutral ==
  ASSUME NEW ph, NEW q, Good(ph), Frame, Moves(ph, q), ph \in {"E3", "C2", "A1", "A3", "K4"}
  PROVE  Good(q)'
<1>0. /\ TypeOK /\ FlagsOK(ph) /\ EmptyOK(ph) /\ AlignOK(ph) /\ LiveOK(ph) /\ MuxedNamesOK
      /\ TrackNamesOK(ph)
  BY DEF Good
<1>1. PICK m \in Snap : /\ m = snap_clone(M, floor) /\ Same(m, Val(M))
                        /\ m.live = Val(M).live /\ m.segs = Val(M).segs
  BY <1>0, Stores
<1>2. PICK v \in Snap : v = Val(M)
  BY <1>0, Stores
<1>3. PICK t \in Snap : t = Val(T)
  BY <1>0, Stores
<1>4. PICK r \in Snap :
        /\ PublishM(r) /\ pos' = pos
        /\ ph = "E3" <=> q = "E4"
        /\ ph = "A1" <=> q = "A2"
        /\ ph \in {"C2", "A3", "K4"} <=> q = "idle"
        /\ r.segs = m.segs /\ r.next = m.next
        /\ ph \in {"A1", "A3", "K4"} => r.live = m.live
        /\ Len(m.live) \in Nat
        /\ Len(r.live) <= Len(m.live) + 1 /\ Len(r.live) \in Nat
        /\ seg.tracks => /\ q = "E4" => Same(t, hls_push_segment_ll_at(r))
                         /\ q = "idle" => Same(t, r)
                         /\ q = "A2" => Same(r, hls_store_anchor_at(t, Wall))
  <2>0. m.live \in Seq(Nat) /\ Len(m.live) \in Nat
    BY LenProperties DEF Snap
  <2>1. CASE ph \in {"E3", "C2"}
    <3>1. OnM("part") /\ (ph = "E3" <=> q = "E4") /\ (ph = "C2" <=> q = "idle") /\ q # "A2"
      BY <2>1 DEF Moves
    <3>2. PICK r : r = hls_push_part_at(m, used.frags)
      OBVIOUS
    <3>3. PublishM(r) /\ pos' = pos
      BY <1>1, <3>1, <3>2, WriteCases DEF OnM
    <3>4. used.frags \in Nat
      BY <1>0, Stores
    <3>5. /\ r \in Snap /\ r.segs = m.segs /\ r.next = m.next
          /\ Len(r.live) = IF Len(m.live) >= MaxParts THEN Len(m.live) ELSE Len(m.live) + 1
      BY <3>2, <3>4, PartFacts
    <3>6. PICK p \in Snap : p = hls_push_part_at(v, 0)
      BY PartFacts
    <3>7. Same(r, p) /\ Same(p, r)
      BY <1>1, <1>2, <3>2, <3>4, <3>6, SamePart, SameSwap
    <3>8. seg.tracks /\ ph = "C2" => Same(t, r)
      <4>1. seg.tracks /\ ph = "C2" => Same(t, p)
        BY <1>0, <1>2, <1>3, <3>6 DEF AlignOK
      <4>2. QED BY <3>7, <4>1, SameChain
    <3>9. seg.tracks /\ ph = "E3" => Same(t, hls_push_segment_ll_at(r))
      <4>1. seg.tracks /\ ph = "E3" => Same(t, hls_push_segment_ll_at(p))
        BY <1>0, <1>2, <1>3, <3>6 DEF AlignOK
      <4>2. Same(hls_push_segment_ll_at(p), hls_push_segment_ll_at(r))
        BY <3>5, <3>7, SameSeg
      <4>3. QED BY <4>1, <4>2, SameChain
    <3>10. Len(r.live) <= Len(m.live) + 1 /\ Len(r.live) \in Nat
      BY <2>0, <3>5
    <3>11. QED BY <2>0, <2>1, <3>1, <3>3, <3>5, <3>8, <3>9, <3>10
  <2>2. CASE ph \in {"A1", "A3"}
    <3>1. OnM("anchor") /\ (ph = "A1" <=> q = "A2") /\ (ph = "A3" <=> q = "idle") /\ q # "E4"
      BY <2>2 DEF Moves
    <3>2. PICK r : r = hls_store_anchor_at(m, Wall)
      OBVIOUS
    <3>3. PublishM(r) /\ pos' = pos
      BY <1>1, <3>1, <3>2, WriteCases DEF OnM
    <3>4. Wall \in Nat
      BY <1>0, Stores
    <3>5. r \in Snap /\ r.segs = m.segs /\ r.next = m.next /\ r.live = m.live
      BY <3>2, <3>4, AnchorFacts
    <3>6. ph = "A3" => ~seg.tracks
      BY <1>0 DEF FlagsOK
    <3>7. seg.tracks /\ ph = "A1" => Same(r, hls_store_anchor_at(t, Wall))
      <4>1. seg.tracks /\ ph = "A1" => Same(v, t)
        BY <1>0, <1>2, <1>3, SameSwap DEF AlignOK
      <4>2. seg.tracks /\ ph = "A1" => Same(m, t)
        BY <1>1, <1>2, <4>1, SameChain
      <4>3. QED BY <3>2, <3>4, <4>2, SameAnchor
    <3>8. Len(r.live) <= Len(m.live) + 1
      BY <2>0, <3>5
    <3>9. QED BY <2>0, <2>2, <3>1, <3>3, <3>5, <3>6, <3>7, <3>8
  <2>3. CASE ph = "K4"
    <3>1. q = "idle" /\ OnM("init")
      BY <2>3 DEF Moves
    <3>2. PICK r : r = hls_set_init_segment_at(m)
      OBVIOUS
    <3>3. PublishM(r) /\ pos' = pos
      BY <1>1, <3>1, <3>2, WriteCases DEF OnM
    <3>4. /\ r \in Snap /\ r.segs = m.segs /\ r.next = m.next /\ r.cum = m.cum
          /\ r.epoch = m.epoch /\ r.base = m.base /\ r.live = m.live /\ r.avail = m.avail
      BY <3>2, InitFacts
    <3>5. Same(m, r)
      BY <3>4, SameFields
    <3>6. seg.tracks => Same(t, v)
      BY <1>0, <1>2, <1>3, <2>3 DEF AlignOK
    <3>7. Same(v, m)
      BY <1>1, <1>2, SameSwap
    <3>8. seg.tracks => Same(t, r)
      BY <3>5, <3>6, <3>7, SameChain
    <3>9. Len(r.live) <= Len(m.live) + 1
      BY <2>0, <3>4
    <3>10. QED BY <2>0, <2>3, <3>1, <3>3, <3>4, <3>8, <3>9
  <2>4. QED BY <2>1, <2>2, <2>3
<1>5. /\ TypeOK' /\ M' = r /\ M' # NoSnap /\ T' = T /\ Val(M)' = r /\ Val(T)' = Val(T)
      /\ seen'.M = seen.M \cup SegNames(r) /\ seen'.T = seen.T
  BY <1>0, <1>4, PubM DEF Frame, TypeOK
<1>6. FlagsOK(q)'
  BY <1>0, MoveFlags
<1>7. q \in {"E4", "A2", "idle"}
  BY <1>4
<1>8. EmptyOK(q)'
  <2>1. ~seg.mux => ph \in {"A1", "A3"}
    BY <1>0 DEF FlagsOK
  <2>2. ~seg.mux => v.segs = <<>> /\ v.live = <<>>
    BY <1>0, <1>2, <2>1 DEF EmptyOK
  <2>3. ~seg.mux => r.segs = <<>> /\ r.live = <<>>
    BY <1>1, <1>2, <1>4, <2>1, <2>2
  <2>4. QED BY <1>5, <1>7, <2>3 DEF EmptyOK, Frame
<1>9. AlignOK(q)'
  <2>1. seg.tracks => T # NoSnap
    BY <1>0 DEF AlignOK
  <2>2. Wall' = Wall
    BY DEF Wall, Frame
  <2>3. QED BY <1>3, <1>4, <1>5, <1>7, <2>1, <2>2 DEF AlignOK, Frame
<1>10. LiveOK(q)'
  <2>1. seg.n \in Nat
    BY <1>0 DEF TypeOK
  <2>2. q # "E4" => Len(r.live) <= seg.n
    <3>1. CASE ph = "C2"
      <4>1. Len(m.live) < seg.n
        BY <1>0, <1>1, <3>1 DEF LiveOK
      <4>2. QED BY <1>4, <2>1, <4>1
    <3>2. CASE ph \in {"A1", "A3", "K4"}
      BY <1>0, <1>1, <1>4, <3>2 DEF LiveOK
    <3>3. QED BY <1>4, <3>1, <3>2
  <2>3. QED BY <1>0, <1>5, <1>7, <2>2 DEF LiveOK, Frame
<1>11. SegNames(r) = SegNames(M) /\ r.next = NextOf(M)
  BY <1>0, <1>1, <1>4, SameSegs, CloneNames DEF TypeOK
<1>12. MuxedNamesOK'
  <2>1. NextOf(M) \in Nat
    BY <1>0, NextType
  <2>2. QED BY <1>0, <1>5, <1>11, <2>1, MuxedMove
<1>13. TrackNamesOK(q)'
  <2>1. NextOf(M)' = r.next
    BY <1>5 DEF NextOf
  <2>2. Ahead(q) = Ahead(ph) /\ Ahead(q) \in Nat /\ q \notin {"K2", "K6", "R3"} /\ ph # "K1" /\ ph # "K2"
    BY <1>4, <1>7 DEF Ahead
  <2>3. NextOf(M)' \in Nat /\ NextOf(M)' + Ahead(q) >= NextOf(M) + Ahead(ph)
    BY <1>0, <1>11, <2>1, <2>2, NextType
  <2>4. QED BY <1>0, <1>4, <1>5, <2>2, <2>3, TrackStill DEF Frame
<1>14. QED BY <1>5, <1>6, <1>8, <1>9, <1>10, <1>12, <1>13 DEF Good

\* The position of the muxed store is read.
LEMMA MoveRead ==
  ASSUME NEW ph, NEW q, Good(ph), Frame, Moves(ph, q), ph \in {"K1", "K5", "R2"}
  PROVE  Good(q)'
<1>0. /\ TypeOK /\ FlagsOK(ph) /\ EmptyOK(ph) /\ AlignOK(ph) /\ LiveOK(ph) /\ MuxedNamesOK
      /\ TrackNamesOK(ph)
  BY DEF Good
<1>1. Read /\ (ph = "K1" <=> q = "K2") /\ (ph = "K5" <=> q = "K6")
      /\ (ph = "R2" <=> q = "R3") /\ q \in {"K2", "K6", "R3"}
  BY DEF Moves
<1>2. pos' = M /\ M' = M /\ T' = T /\ seen' = seen
  BY <1>1 DEF Read
<1>3. TypeOK'
  BY <1>0, <1>2 DEF TypeOK, Frame
<1>4. FlagsOK(q)'
  BY <1>0, MoveFlags
<1>5. Val(M)' = Val(M) /\ Val(T)' = Val(T) /\ Val(pos)' = Val(M)
  BY <1>2 DEF Val, snap_clone
<1>6. EmptyOK(q)'
  BY <1>0, <1>1, <1>5 DEF EmptyOK, Frame
<1>7. AlignOK(q)'
  BY <1>0, <1>1 DEF AlignOK, FlagsOK, Frame
<1>8. LiveOK(q)'
  BY <1>0, <1>1, <1>5 DEF LiveOK, Frame
<1>9. MuxedNamesOK'
  <2>1. floor \in Nat
    BY <1>0 DEF TypeOK
  <2>2. QED BY <1>0, <1>2, <2>1, MuxedStill DEF Frame
<1>10. TrackNamesOK(q)'
  <2>1. NextOf(M)' = NextOf(M) /\ NextOf(pos)' = NextOf(M)'
    BY <1>2 DEF NextOf, Frame
  <2>2. Ahead(q) = 0 /\ Ahead(ph) = 0
    BY <1>1 DEF Ahead
  <2>3. NextOf(M)' \in Nat /\ NextOf(M)' + Ahead(q) >= NextOf(M) + Ahead(ph)
    BY <1>0, <2>1, <2>2, NextType
  <2>4. ph \in {"K1", "K2"} => q \in {"K1", "K2"}
    BY <1>1
  <2>5. QED BY <1>0, <1>2, <2>1, <2>3, <2>4, TrackStill DEF Frame
<1>11. QED BY <1>3, <1>4, <1>6, <1>7, <1>8, <1>9, <1>10 DEF Good

\* The track store restarts at the position read.
LEMMA MoveSync ==
  ASSUME NEW ph, NEW q, Good(ph), Frame, Moves(ph, q), ph \in {"K2", "K6", "R3"}
  PROVE  Good(q)'
<1>0. /\ TypeOK /\ FlagsOK(ph) /\ EmptyOK(ph) /\ AlignOK(ph) /\ LiveOK(ph) /\ MuxedNamesOK
      /\ TrackNamesOK(ph)
  BY DEF Good
<1>1. Sync /\ (ph = "K2" <=> q = "K3") /\ (ph = "K6" <=> q = "K4")
      /\ (ph = "R3" <=> q = "idle") /\ q \in {"K3", "K4", "idle"}
  BY DEF Moves
<1>2. PICK r : r = hls_store_sync_at(T, pos, floor)
  OBVIOUS
<1>3. PublishT(r) /\ pos' = NoSnap
  BY <1>1, <1>2 DEF Sync
<1>4. T \in Snap \cup {NoSnap} /\ pos \in Snap \cup {NoSnap} /\ floor \in Nat
  BY <1>0 DEF TypeOK
<1>5. /\ r \in Snap /\ r.segs = <<>> /\ r.live = <<>>
      /\ r.next = (IF pos = NoSnap THEN floor ELSE pos.next) /\ r.cum = Val(pos).cum
      /\ r.epoch = Val(pos).epoch /\ r.base = Val(pos).base /\ r.avail = Val(pos).avail
  <2>1. Synced(r, pos, floor)
    BY <1>2, <1>4, SyncFacts
  <2>2. QED BY <2>1 DEF Synced
<1>6. /\ TypeOK' /\ T' = r /\ T' # NoSnap /\ M' = M /\ Val(T)' = r /\ Val(M)' = Val(M)
      /\ seen'.T = seen.T \cup SegNames(r) /\ seen'.M = seen.M
  BY <1>0, <1>3, <1>5, PubT DEF Frame, TypeOK
<1>7. FlagsOK(q)'
  BY <1>0, MoveFlags
<1>8. Val(M).segs = <<>> /\ Val(M).live = <<>>
  BY <1>0 DEF EmptyOK, FlagsOK
<1>9. EmptyOK(q)'
  BY <1>1, <1>6, <1>8 DEF EmptyOK
<1>10. AlignOK(q)'
  <2>1. PICK m : m = Val(M)
    OBVIOUS
  <2>2. r.segs = m.segs /\ r.live = m.live /\ r.cum = m.cum /\ r.epoch = m.epoch
        /\ r.base = m.base /\ r.avail = m.avail
    BY <1>0, <1>5, <1>8, <2>1 DEF EmptyOK
  <2>3. Same(r, m)
    BY <2>2, SameFields
  <2>4. q \in {"idle", "K4"} => ~seg.tracks
    BY <1>0, <1>1 DEF FlagsOK
  <2>5. QED BY <1>1, <1>6, <2>1, <2>3, <2>4 DEF AlignOK, Frame
<1>11. LiveOK(q)'
  BY <1>0, <1>1, <1>6 DEF LiveOK, Frame
<1>12. MuxedNamesOK'
  BY <1>0, <1>4, <1>6, MuxedStill DEF Frame
<1>13. TrackNamesOK(q)'
  <2>1. r.next = NextOf(pos)
    BY <1>5 DEF NextOf
  <2>2. QED BY <1>0, <1>1, <1>5, <1>6, <2>1, TrackSynced DEF Frame
<1>14. QED BY <1>6, <1>7, <1>9, <1>10, <1>11, <1>12, <1>13 DEF Good

\* The muxed store starts a new epoch.
LEMMA MoveDisc ==
  ASSUME NEW ph, NEW q, Good(ph), Frame, Moves(ph, q), ph \in {"R1", "R4"}
  PROVE  Good(q)'
<1>0. /\ TypeOK /\ FlagsOK(ph) /\ EmptyOK(ph) /\ AlignOK(ph) /\ LiveOK(ph) /\ MuxedNamesOK
      /\ TrackNamesOK(ph)
  BY DEF Good
<1>1. Disc /\ q \in {"R2", "idle"}
  BY DEF Moves
<1>2. FlagsOK(q)' /\ ~seg.tracks
  BY <1>0, MoveFlags DEF FlagsOK
<1>3. Ahead(q) = 0 /\ Ahead(ph) = 0 /\ seg.n \in Nat /\ floor \in Nat
  BY <1>0, <1>1 DEF Ahead, TypeOK
<1>4. AlignOK(q)'
  BY <1>2 DEF AlignOK, Frame
<1>5. CASE M = NoSnap
  <2>1. M' = M /\ T' = T /\ seen' = seen /\ pos' = pos
    BY <1>1, <1>5 DEF Disc
  <2>2. TypeOK'
    BY <1>0, <2>1 DEF TypeOK, Frame
  <2>3. Val(M)'.segs = <<>> /\ Val(M)'.live = <<>>
    BY <1>5, <2>1 DEF Val, snap_clone, Fresh
  <2>4. EmptyOK(q)'
    BY <1>1, <2>3 DEF EmptyOK
  <2>5. LiveOK(q)'
    BY <1>0, <1>1, <1>3, <2>3 DEF LiveOK, Frame
  <2>6. MuxedNamesOK'
    BY <1>0, <1>3, <2>1, MuxedStill DEF Frame
  <2>7. NextOf(M)' = NextOf(M)
    BY <2>1 DEF NextOf, Frame
  <2>8. TrackNamesOK(q)'
    <3>1. NextOf(M)' \in Nat /\ NextOf(M)' + Ahead(q) >= NextOf(M) + Ahead(ph)
      BY <1>0, <1>3, <2>7, NextType
    <3>2. QED BY <1>0, <1>1, <2>1, <3>1, TrackStill DEF Frame
  <2>9. QED BY <1>2, <1>4, <2>2, <2>4, <2>5, <2>6, <2>8 DEF Good
<1>6. CASE M # NoSnap
  <2>1. PICK m \in Snap : m = snap_clone(M, floor) /\ m = M
    BY <1>0, <1>6, Stores DEF snap_clone
  <2>2. PICK r : r = hls_store_discontinuity_at(m)
    OBVIOUS
  <2>3. PublishM(r) /\ pos' = pos
    BY <1>1, <1>6, <2>1, <2>2, WriteCases DEF Disc, OnM
  <2>4. r \in Snap /\ r.segs = <<>> /\ r.live = <<>> /\ r.next = m.next + 1
    BY <2>2, DiscFacts
  <2>5. /\ TypeOK' /\ M' = r /\ M' # NoSnap /\ T' = T /\ Val(M)' = r /\ Val(T)' = Val(T)
        /\ seen'.M = seen.M \cup SegNames(r) /\ seen'.T = seen.T
    BY <1>0, <2>3, <2>4, PubM DEF Frame, TypeOK
  <2>6. EmptyOK(q)'
    BY <1>1, <2>4, <2>5 DEF EmptyOK
  <2>7. LiveOK(q)'
    BY <1>0, <1>1, <1>3, <2>4, <2>5 DEF LiveOK, Frame
  <2>8. NextOf(M) = m.next /\ NextOf(M)' = r.next /\ m.next \in Nat
    BY <1>6, <2>1, <2>5 DEF NextOf, Snap
  <2>9. SegNames(r) = {}
    BY <2>4, NoNames
  <2>10. MuxedNamesOK'
    BY <1>0, <2>4, <2>5, <2>8, <2>9, MuxedMove
  <2>11. TrackNamesOK(q)'
    <3>1. NextOf(M)' \in Nat /\ NextOf(M)' + Ahead(q) >= NextOf(M) + Ahead(ph)
      BY <1>3, <2>4, <2>8
    <3>2. QED BY <1>0, <1>1, <2>5, <3>1, TrackStill DEF Frame
  <2>12. QED BY <1>2, <1>4, <2>5, <2>6, <2>7, <2>10, <2>11 DEF Good
<1>7. QED BY <1>5, <1>6

\* So does every step of the pump.
LEMMA StepPump ==
  ASSUME IInv, PumpStep
  PROVE  IInv'
<1>1. PICK ph \in Phases : Plan(ph, todo) /\ Good(ph)
  BY DEF IInv
<1>2. PICK q : Plan(q, todo') /\ Moves(ph, q)
  BY <1>1, PumpMoves
<1>3. Frame
  BY DEF PumpStep, Frame
<1>4. Good(q)'
  <2>1. \/ ph \in {"F1", "E2"} \/ ph \in {"E1", "C1", "A2", "K3"} \/ ph \in {"F2", "E4"}
        \/ ph \in {"E3", "C2", "A1", "A3", "K4"} \/ ph \in {"K1", "K5", "R2"} \/ ph \in {"K2", "K6", "R3"}
        \/ ph \in {"R1", "R4"}
    BY <1>2 DEF Moves
  <2>2. QED BY <1>1, <1>2, <1>3, <2>1, MoveTrackPush, MoveTrackNeutral, MoveMuxedPush,
               MoveMuxedNeutral, MoveRead, MoveSync, MoveDisc
<1>5. q \in Phases
  BY <1>2 DEF Moves, Phases
<1>6. QED BY <1>2, <1>4, <1>5 DEF IInv

-----------------------------------------------------------------------------
(* The other actions.                                                      *)

\* An idle pump has nothing left to do.
LEMMA IdlePhase ==
  ASSUME NEW ph, Plan(ph, <<>>)
  PROVE  ph = "idle"
BY DEF Plan

\* Alignment does not depend on what low latency changes in a store.
LEMMA AlignKeep ==
  ASSUME NEW ph, AlignOK(ph), seg' = seg, used'.frags = used.frags, TypeOK, TypeOK',
         Same(Val(M), Val(M)'), Same(Val(T), Val(T)'),
         M' = NoSnap => M = NoSnap, T' = NoSnap => T = NoSnap
  PROVE  AlignOK(ph)'
<1>0. SUFFICES ASSUME seg.tracks PROVE AlignOK(ph)'
  BY DEF AlignOK
<1>1. PICK m \in Snap, t \in Snap : m = Val(M) /\ t = Val(T)
  BY Stores
<1>2. PICK n \in Snap, u \in Snap : n = Val(M)' /\ u = Val(T)'
  <2>1. Val(M)' \in Snap /\ Val(T)' \in Snap
    <3>1. M' \in Snap \cup {NoSnap} /\ T' \in Snap \cup {NoSnap} /\ 0 \in Nat
      BY DEF TypeOK
    <3>2. QED BY <3>1, CloneFacts DEF Val
  <2>2. QED BY <2>1
<1>3. Same(m, n) /\ Same(u, t) /\ Wall' = Wall /\ Wall \in Nat
  BY <1>1, <1>2, SameSwap, Stores DEF Wall
<1>4. Same(t, m) => Same(u, n)
  BY <1>3, SameChain
<1>5. Same(t, hls_push_segment_at(m, 0)) => Same(u, hls_push_segment_at(n, 0))
  <2>1. Same(hls_push_segment_at(m, 0), hls_push_segment_at(n, 0))
    BY <1>3, SameFull
  <2>2. QED BY <1>3, <2>1, SameChain
<1>6. PICK p \in Snap, o \in Snap : p = hls_push_part_at(m, 0) /\ o = hls_push_part_at(n, 0)
  BY PartFacts
<1>7. Same(p, o)
  BY <1>3, <1>6, SamePart
<1>8. Same(t, p) => Same(u, o)
  BY <1>3, <1>7, SameChain
<1>9. Same(t, hls_push_segment_ll_at(p)) => Same(u, hls_push_segment_ll_at(o))
  <2>1. Same(hls_push_segment_ll_at(p), hls_push_segment_ll_at(o))
    BY <1>7, SameSeg
  <2>2. QED BY <1>3, <2>1, SameChain
<1>10. Same(t, hls_push_segment_ll_at(m)) => Same(u, hls_push_segment_ll_at(n))
  <2>1. Same(hls_push_segment_ll_at(m), hls_push_segment_ll_at(n))
    BY <1>3, SameSeg
  <2>2. QED BY <1>3, <2>1, SameChain
<1>11. Same(m, hls_store_anchor_at(t, Wall)) => Same(n, hls_store_anchor_at(u, Wall))
  <2>1. Same(hls_store_anchor_at(t, Wall), hls_store_anchor_at(u, Wall))
    BY <1>3, SameAnchor, SameSwap
  <2>2. Same(n, m)
    BY <1>3, SameSwap
  <2>3. QED BY <2>1, <2>2, SameChain
<1>12. QED
  BY <1>0, <1>1, <1>2, <1>3, <1>4, <1>5, <1>6, <1>8, <1>9, <1>10, <1>11 DEF AlignOK

\* What only the worker's or the pump's own state can change leaves the names.
LEMMA QuietNames ==
  ASSUME NEW ph, NEW q, TypeOK, MuxedNamesOK, TrackNamesOK(ph),
         M' = M, T' = T, pos' = pos, floor' = floor, seen' = seen, used'.foreign = used.foreign,
         Ahead(q) >= Ahead(ph),
         seg'.tracks /\ q \notin {"K1", "K2"} => seg.tracks /\ ph \notin {"K1", "K2"},
         q \in {"K2", "K6", "R3"} => q = ph
  PROVE  MuxedNamesOK' /\ TrackNamesOK(q)'
<1>1. floor \in Nat
  BY DEF TypeOK
<1>2. MuxedNamesOK'
  BY <1>1, MuxedStill
<1>3. NextOf(M)' = NextOf(M) /\ NextOf(T)' = NextOf(T) /\ NextOf(pos)' = NextOf(pos)
  BY DEF NextOf
<1>4. Ahead(q) \in Nat /\ Ahead(ph) \in Nat
  BY DEF Ahead
<1>5. PICK a \in Nat, b \in Nat : a = NextOf(M) + Ahead(ph) /\ b = NextOf(M) + Ahead(q)
  BY <1>4, NextType
<1>6. a <= b
  BY <1>4, <1>5, NextType
<1>7. ASSUME used.foreign = 0
      PROVE  \A n \in seen.T : n.seq < NextOf(T) /\ n.seq < b
  <2>1. \A n \in seen.T : n.seq < NextOf(T) /\ n.seq < a
    BY <1>5, <1>7 DEF TrackNamesOK
  <2>2. QED BY <1>6, <2>1, NextType
<1>8. ASSUME used.foreign = 0, seg'.tracks, q \notin {"K1", "K2"}
      PROVE  NextOf(T) <= b
  <2>1. NextOf(T) <= a
    BY <1>5, <1>8 DEF TrackNamesOK
  <2>2. QED BY <1>6, <2>1, NextType
<1>9. TrackNamesOK(q)'
  BY <1>3, <1>5, <1>7, <1>8 DEF TrackNamesOK
<1>10. QED BY <1>2, <1>9

\* A worker switches a store to low latency.
LEMMA StepEnable ==
  ASSUME IInv, EnableStore
  PROVE  IInv'
<1>1. PICK ph \in Phases : Plan(ph, todo) /\ Good(ph)
  BY DEF IInv
<1>2. /\ TypeOK /\ FlagsOK(ph) /\ EmptyOK(ph) /\ AlignOK(ph) /\ LiveOK(ph) /\ MuxedNamesOK
      /\ TrackNamesOK(ph)
  BY <1>1 DEF Good
<1>3. seg' = seg /\ todo' = todo /\ pos' = pos /\ floor' = floor /\ used' = used
  BY DEF EnableStore
<1>5. enable' \subseteq {"M", "T"}
  BY <1>2 DEF EnableStore, TypeOK
<1>6. floor \in Nat /\ floor' = floor
  BY <1>2, <1>3 DEF TypeOK
<1>7. ASSUME seg.on, PublishM(hls_llhls_enable(snap_clone(M, floor)))
      PROVE  IInv'
  <2>1. PICK m \in Snap : m = snap_clone(M, floor) /\ Same(m, Val(M)) /\ m.live = Val(M).live
                          /\ m.segs = Val(M).segs
    BY <1>2, Stores
  <2>2. PICK r : r = hls_llhls_enable(m)
    OBVIOUS
  <2>3. PublishM(r)
    BY <1>7, <2>1, <2>2
  <2>4. /\ r \in Snap /\ r.segs = m.segs /\ r.next = m.next /\ r.cum = m.cum
        /\ r.epoch = m.epoch /\ r.base = m.base /\ r.live = m.live /\ r.avail = m.avail
    BY <2>2, EnableFacts
  <2>5. /\ TypeOK' /\ M' = r /\ M' # NoSnap /\ T' = T /\ Val(M)' = r /\ Val(T)' = Val(T)
        /\ seen'.M = seen.M \cup SegNames(r) /\ seen'.T = seen.T
    BY <1>2, <1>3, <1>5, <2>3, <2>4, PubM
  <2>6. Val(pos)' = Val(pos)
    BY <1>3 DEF Val, snap_clone
  <2>7. /\ r.cum = Val(M).cum /\ r.epoch = Val(M).epoch /\ r.base = Val(M).base
        /\ r.avail = Val(M).avail
    BY <2>1, <2>4 DEF Same
  <2>8. EmptyOK(ph)'
    BY <1>2, <1>3, <2>1, <2>4, <2>5, <2>6, <2>7 DEF EmptyOK
  <2>9. Same(Val(M), Val(M)') /\ Same(Val(T), Val(T)')
    <3>1. Same(r, m)
      BY <2>4, SameFields
    <3>2. Same(Val(M), r)
      BY <2>1, <3>1, SameChain, SameSwap
    <3>3. Same(Val(T), Val(T))
      BY DEF Same
    <3>4. QED BY <2>5, <3>2, <3>3
  <2>10. AlignOK(ph)'
    BY <1>2, <1>3, <2>5, <2>9, AlignKeep
  <2>11. LiveOK(ph)'
    BY <1>2, <1>3, <2>1, <2>4, <2>5 DEF LiveOK
  <2>12. SegNames(r) = SegNames(M) /\ r.next = NextOf(M) /\ NextOf(M) \in Nat
    BY <1>2, <2>1, <2>4, SameSegs, CloneNames, NextType DEF TypeOK
  <2>13. MuxedNamesOK'
    BY <1>2, <2>4, <2>5, <2>12, MuxedMove
  <2>14. TrackNamesOK(ph)'
    <3>1. NextOf(M)' = NextOf(M) /\ NextOf(pos)' = NextOf(pos)
      BY <1>3, <2>5, <2>12 DEF NextOf
    <3>2. Ahead(ph) \in Nat
      BY DEF Ahead
    <3>3. NextOf(T)' = NextOf(T)
      BY <1>3, <2>5 DEF NextOf
    <3>4. QED BY <1>2, <1>3, <2>5, <3>1, <3>3 DEF TrackNamesOK
  <2>15. Good(ph)'
    <3>1. FlagsOK(ph)'
      BY <1>2, <1>3, <1>7, <2>5 DEF FlagsOK
    <3>2. QED BY <3>1, <2>5, <2>8, <2>10, <2>11, <2>13, <2>14 DEF Good
  <2>16. QED BY <1>1, <1>3, <2>15 DEF IInv
<1>8. ASSUME seg.topen, PublishT(hls_llhls_enable(snap_clone(T, floor)))
      PROVE  IInv'
  <2>1. PICK t \in Snap : t = snap_clone(T, floor) /\ Same(t, Val(T))
    BY <1>2, Stores
  <2>2. PICK r : r = hls_llhls_enable(t)
    OBVIOUS
  <2>3. PublishT(r)
    BY <1>8, <2>1, <2>2
  <2>4. /\ r \in Snap /\ r.segs = t.segs /\ r.next = t.next /\ r.cum = t.cum
        /\ r.epoch = t.epoch /\ r.base = t.base /\ r.live = t.live /\ r.avail = t.avail
    BY <2>2, EnableFacts
  <2>5. /\ TypeOK' /\ T' = r /\ T' # NoSnap /\ M' = M /\ Val(T)' = r /\ Val(M)' = Val(M)
        /\ seen'.T = seen.T \cup SegNames(r) /\ seen'.M = seen.M
    BY <1>2, <1>3, <1>5, <2>3, <2>4, PubT
  <2>6. Val(pos)' = Val(pos)
    BY <1>3 DEF Val, snap_clone
  <2>7. EmptyOK(ph)'
    BY <1>2, <1>3, <2>5, <2>6 DEF EmptyOK
  <2>8. Same(Val(M), Val(M)') /\ Same(Val(T), Val(T)')
    <3>1. Same(r, t)
      BY <2>4, SameFields
    <3>2. Same(Val(T), r)
      BY <2>1, <3>1, SameChain, SameSwap
    <3>3. Same(Val(M), Val(M))
      BY DEF Same
    <3>4. QED BY <2>5, <3>2, <3>3
  <2>9. AlignOK(ph)'
    BY <1>2, <1>3, <2>5, <2>8, AlignKeep
  <2>10. LiveOK(ph)'
    BY <1>2, <1>3, <2>5 DEF LiveOK
  <2>11. SegNames(r) = SegNames(T) /\ r.next = NextOf(T)
    BY <1>2, <2>1, <2>4, SameSegs, CloneNames DEF TypeOK
  <2>12. MuxedNamesOK'
    BY <1>2, <1>3, <1>6, <2>5, MuxedStill
  <2>13. TrackNamesOK(ph)'
    BY <1>2, <1>3, <2>4, <2>5, <2>11, TrackNeutral
  <2>14. Good(ph)'
    <3>1. FlagsOK(ph)'
      BY <1>2, <1>3, <1>8, <2>5 DEF FlagsOK
    <3>2. QED BY <3>1, <2>5, <2>7, <2>9, <2>10, <2>12, <2>13 DEF Good
  <2>15. QED BY <1>1, <1>3, <2>14 DEF IInv
<1>9. ASSUME UNCHANGED <<M, T, seen>>
      PROVE  IInv'
  <2>1. M' = M /\ T' = T /\ seen' = seen
    BY <1>9
  <2>2. TypeOK'
    BY <1>2, <1>3, <1>5, <2>1 DEF TypeOK
  <2>3. Val(M)' = Val(M) /\ Val(T)' = Val(T) /\ Val(pos)' = Val(pos)
    BY <1>3, <2>1 DEF Val, snap_clone
  <2>4. EmptyOK(ph)' /\ LiveOK(ph)'
    BY <1>2, <1>3, <2>1, <2>3 DEF EmptyOK, LiveOK
  <2>5. AlignOK(ph)'
    BY <1>2, <1>3, <2>1, <2>3 DEF AlignOK, Wall
  <2>6. NextOf(M)' = NextOf(M) /\ NextOf(T)' = NextOf(T) /\ NextOf(pos)' = NextOf(pos)
    BY <1>3, <2>1 DEF NextOf
  <2>7. MuxedNamesOK' /\ TrackNamesOK(ph)'
    BY <1>2, <1>3, <2>1, <2>6 DEF MuxedNamesOK, TrackNamesOK
  <2>8. Good(ph)'
    <3>1. FlagsOK(ph)'
      BY <1>2, <1>3, <2>1 DEF FlagsOK
    <3>2. QED BY <3>1, <2>2, <2>4, <2>5, <2>7 DEF Good
  <2>9. QED BY <1>1, <1>3, <2>8 DEF IInv
<1>10. QED BY <1>7, <1>8, <1>9 DEF EnableStore

\* Between two feeds the invariant is the one of the idle phase.
LEMMA IdleGood ==
  ASSUME IInv, todo = <<>>
  PROVE  Good("idle")
<1>1. PICK ph \in Phases : Plan(ph, todo) /\ Good(ph)
  BY DEF IInv
<1>2. ph = "idle"
  BY <1>1, IdlePhase
<1>3. QED BY <1>1, <1>2

\* A step of the idle pump that only plans a feed: what is left to show.
LEMMA Planned ==
  ASSUME NEW q \in Phases, Good("idle"), Plan(q, todo'),
         M' = M, T' = T, pos' = pos, floor' = floor, seen' = seen, used'.foreign = used.foreign,
         seg' \in [on : BOOLEAN, ll : BOOLEAN, topen : BOOLEAN, mux : BOOLEAN, tracks : BOOLEAN,
                   n : Nat],
         enable' \subseteq {"M", "T"},
         used' \in [frags : Nat, relocks : Nat, opens : Nat, foreign : Nat],
         FlagsOK(q)', EmptyOK(q)', AlignOK(q)', LiveOK(q)',
         seg'.tracks /\ q # "K1" => seg.tracks,
         q \notin {"K2", "K6", "R3"}
  PROVE  IInv'
<1>1. TypeOK /\ MuxedNamesOK /\ TrackNamesOK("idle")
  BY DEF Good
<1>2. TypeOK'
  BY <1>1 DEF TypeOK
<1>3. Ahead(q) >= Ahead("idle")
  BY DEF Ahead
<1>4. MuxedNamesOK' /\ TrackNamesOK(q)'
  BY <1>1, <1>3, QuietNames
<1>5. Good(q)'
  BY <1>2, <1>4 DEF Good
<1>6. QED BY <1>5 DEF IInv

\* The stores' contents over a step that leaves the stores alone.
LEMMA QuietVal ==
  ASSUME M' = M, T' = T
  PROVE  Val(M)' = Val(M) /\ Val(T)' = Val(T)
BY DEF Val, snap_clone

\* Everything holds before the first request.
LEMMA Start ==
  ASSUME Init
  PROVE  IInv
<1>1. TypeOK
  BY DEF Init, TypeOK, Closed
<1>2. Val(M).segs = <<>> /\ Val(M).live = <<>>
  BY DEF Init, Val, snap_clone, Fresh
<1>3. FlagsOK("idle") /\ AlignOK("idle")
  BY DEF Init, FlagsOK, AlignOK, Closed
<1>4. EmptyOK("idle")
  BY <1>2 DEF EmptyOK
<1>5. LiveOK("idle")
  BY <1>2, SegSnapshotAssumption DEF Init, LiveOK, Closed
<1>6. MuxedNamesOK /\ TrackNamesOK("idle")
  BY DEF Init, MuxedNamesOK, TrackNamesOK, SegNames, NamesOnce, Closed
<1>7. Plan("idle", todo) /\ "idle" \in Phases
  BY DEF Init, Plan, Phases
<1>8. QED BY <1>1, <1>3, <1>4, <1>5, <1>6, <1>7 DEF IInv, Good

\* A request creates the segmenter.
LEMMA StepCreate ==
  ASSUME IInv, TouchCreate
  PROVE  IInv'
<1>1. PICK ph \in Phases : Plan(ph, todo) /\ Good(ph)
  BY DEF IInv
<1>2. ph = "idle" /\ M = NoSnap /\ T = NoSnap
  <2>1. ~seg.on /\ ~seg.topen
    BY DEF TouchCreate
  <2>2. FlagsOK(ph)
    BY <1>1 DEF Good
  <2>3. QED BY <2>1, <2>2 DEF FlagsOK
<1>3. Good("idle") /\ TypeOK
  BY <1>1, <1>2 DEF Good
<1>4. /\ M' = M /\ T' = T /\ todo' = todo /\ pos' = pos /\ floor' = floor /\ seen' = seen
      /\ used' = [used EXCEPT !.opens = @ + 1]
  BY DEF TouchCreate
<1>5. PICK ll \in BOOLEAN : /\ seg' = [Closed EXCEPT !.on = TRUE, !.ll = ll]
                            /\ enable' = enable \cup (IF ll THEN {"M"} ELSE {})
  BY Zenon DEF TouchCreate
<1>6. /\ seg' \in [on : BOOLEAN, ll : BOOLEAN, topen : BOOLEAN, mux : BOOLEAN,
                   tracks : BOOLEAN, n : Nat]
      /\ seg'.on /\ ~seg'.topen /\ ~seg'.mux /\ ~seg'.tracks /\ seg'.n = 0
      /\ enable' \subseteq {"M", "T"}
  BY <1>3, <1>5 DEF Closed, TypeOK
<1>7. /\ used' \in [frags : Nat, relocks : Nat, opens : Nat, foreign : Nat]
      /\ used'.foreign = used.foreign
  BY <1>3, <1>4 DEF TypeOK
<1>8. Val(M)'.segs = <<>> /\ Val(M)'.live = <<>>
  BY <1>2, <1>4 DEF Val, snap_clone, Fresh
<1>9. FlagsOK("idle")' /\ EmptyOK("idle")' /\ AlignOK("idle")'
  BY <1>2, <1>4, <1>6, <1>8 DEF FlagsOK, EmptyOK, AlignOK
<1>10. LiveOK("idle")'
  BY <1>6, <1>8, SegSnapshotAssumption DEF LiveOK
<1>11. Plan("idle", todo') /\ "idle" \in Phases
  BY <1>1, <1>2, <1>4 DEF Phases
<1>12. QED BY <1>3, <1>4, <1>5, <1>6, <1>7, <1>9, <1>10, <1>11, Planned

\* A first low latency request sets the part target, whatever the pump does.
LEMMA StepLowLatency ==
  ASSUME IInv, TouchLowLatency
  PROVE  IInv'
<1>1. PICK ph \in Phases : Plan(ph, todo) /\ Good(ph)
  BY DEF IInv
<1>2. /\ TypeOK /\ FlagsOK(ph) /\ EmptyOK(ph) /\ AlignOK(ph) /\ LiveOK(ph) /\ MuxedNamesOK
      /\ TrackNamesOK(ph)
  BY <1>1 DEF Good
<1>3. /\ M' = M /\ T' = T /\ todo' = todo /\ pos' = pos /\ floor' = floor /\ seen' = seen
      /\ used' = used /\ seg' = [seg EXCEPT !.ll = TRUE] /\ enable' = enable \cup {"M"} /\ seg.on
  BY DEF TouchLowLatency
<1>4. /\ seg'.on = seg.on /\ seg'.topen = seg.topen /\ seg'.mux = seg.mux
      /\ seg'.tracks = seg.tracks /\ seg'.n = seg.n
      /\ seg' \in [on : BOOLEAN, ll : BOOLEAN, topen : BOOLEAN, mux : BOOLEAN,
                   tracks : BOOLEAN, n : Nat]
  BY <1>2, <1>3 DEF TypeOK
<1>5. TypeOK'
  BY <1>2, <1>3, <1>4 DEF TypeOK
<1>6. Val(M)' = Val(M) /\ Val(T)' = Val(T) /\ Val(pos)' = Val(pos) /\ Wall' = Wall
  BY <1>3 DEF Val, snap_clone, Wall
<1>7. FlagsOK(ph)'
  BY <1>2, <1>3, <1>4 DEF FlagsOK
<1>8. EmptyOK(ph)' /\ LiveOK(ph)'
  BY <1>2, <1>4, <1>6 DEF EmptyOK, LiveOK
<1>9. AlignOK(ph)'
  BY <1>2, <1>3, <1>4, <1>6 DEF AlignOK
<1>10. NextOf(M)' = NextOf(M) /\ NextOf(T)' = NextOf(T) /\ NextOf(pos)' = NextOf(pos)
  BY <1>3 DEF NextOf
<1>11. MuxedNamesOK' /\ TrackNamesOK(ph)'
  BY <1>2, <1>3, <1>4, <1>10 DEF MuxedNamesOK, TrackNamesOK
<1>12. Good(ph)'
  BY <1>5, <1>7, <1>8, <1>9, <1>11 DEF Good
<1>13. QED BY <1>1, <1>3, <1>12 DEF IInv

-----------------------------------------------------------------------------
(* The feeds the pump plans.                                               *)

\* A fragment's feed is one of the six scripts, by the part target and the
\* track muxer.
LEMMA FragmentPlan ==
  ASSUME NEW ends \in BOOLEAN, TypeOK
  PROVE  /\ ~seg.ll => Plan(IF seg.tracks THEN "F1" ELSE "F2", FragmentTodo(ends))
         /\ seg.ll /\ ends => Plan(IF seg.tracks THEN "E1" ELSE "E3", FragmentTodo(ends))
         /\ seg.ll /\ ~ends => Plan(IF seg.tracks THEN "C1" ELSE "C2", FragmentTodo(ends))
<1> DEFINE S == {"M", "T"} \X {"full", "part", "seg"}
<1>1. CASE ~seg.ll
  <2>1. FragmentOps(ends) = <<"full">>
    BY <1>1 DEF FragmentOps
  <2>2. Ops("M", FragmentOps(ends)) = <<<<"M", "full">>>> /\ Ops("T", FragmentOps(ends)) = <<<<"T", "full">>>>
    BY <2>1, Ops1
  <2>3. CASE seg.tracks
    <3>1. FragmentTodo(ends) = <<<<"T", "full">>>> \o <<<<"M", "full">>>>
      BY <2>2, <2>3 DEF FragmentTodo
    <3>2. <<<<"T", "full">>>> \o <<<<"M", "full">>>> = <<<<"T", "full">>, <<"M", "full">>>>
      <4>1. <<"T", "full">> \in S /\ <<"M", "full">> \in S
        OBVIOUS
      <4> HIDE DEF S
      <4>2. QED BY <4>1, Join11
    <3>3. QED BY <1>1, <2>3, <3>1, <3>2 DEF Plan
  <2>4. CASE ~seg.tracks
    <3>1. FragmentTodo(ends) = <<>> \o <<<<"M", "full">>>>
      BY <2>2, <2>4 DEF FragmentTodo
    <3>2. <<>> \o <<<<"M", "full">>>> = <<<<"M", "full">>>>
      OBVIOUS
    <3>3. QED BY <1>1, <2>4, <3>1, <3>2 DEF Plan
  <2>5. QED BY <2>3, <2>4
<1>2. CASE seg.ll /\ ends
  <2>1. FragmentOps(ends) = <<"part", "seg">>
    BY <1>2 DEF FragmentOps
  <2>2. /\ Ops("M", FragmentOps(ends)) = <<<<"M", "part">>, <<"M", "seg">>>>
        /\ Ops("T", FragmentOps(ends)) = <<<<"T", "part">>, <<"T", "seg">>>>
    BY <2>1, Ops2
  <2>3. CASE seg.tracks
    <3>1. FragmentTodo(ends) = <<<<"T", "part">>, <<"T", "seg">>>> \o <<<<"M", "part">>, <<"M", "seg">>>>
      BY <2>2, <2>3 DEF FragmentTodo
    <3>2. <<<<"T", "part">>, <<"T", "seg">>>> \o <<<<"M", "part">>, <<"M", "seg">>>>
            = <<<<"T", "part">>, <<"T", "seg">>, <<"M", "part">>, <<"M", "seg">>>>
      <4>1. /\ <<"T", "part">> \in S /\ <<"T", "seg">> \in S
            /\ <<"M", "part">> \in S /\ <<"M", "seg">> \in S
        OBVIOUS
      <4> HIDE DEF S
      <4>2. QED BY <4>1, Join22
    <3>3. QED BY <1>2, <2>3, <3>1, <3>2 DEF Plan
  <2>4. CASE ~seg.tracks
    <3>1. FragmentTodo(ends) = <<>> \o <<<<"M", "part">>, <<"M", "seg">>>>
      BY <2>2, <2>4 DEF FragmentTodo
    <3>2. <<>> \o <<<<"M", "part">>, <<"M", "seg">>>> = <<<<"M", "part">>, <<"M", "seg">>>>
      OBVIOUS
    <3>3. QED BY <1>2, <2>4, <3>1, <3>2 DEF Plan
  <2>5. QED BY <2>3, <2>4
<1>3. CASE seg.ll /\ ~ends
  <2>1. FragmentOps(ends) = <<"part">>
    BY <1>3 DEF FragmentOps
  <2>2. Ops("M", FragmentOps(ends)) = <<<<"M", "part">>>> /\ Ops("T", FragmentOps(ends)) = <<<<"T", "part">>>>
    BY <2>1, Ops1
  <2>3. CASE seg.tracks
    <3>1. FragmentTodo(ends) = <<<<"T", "part">>>> \o <<<<"M", "part">>>>
      BY <2>2, <2>3 DEF FragmentTodo
    <3>2. <<<<"T", "part">>>> \o <<<<"M", "part">>>> = <<<<"T", "part">>, <<"M", "part">>>>
      <4>1. <<"T", "part">> \in S /\ <<"M", "part">> \in S
        OBVIOUS
      <4> HIDE DEF S
      <4>2. QED BY <4>1, Join11
    <3>3. QED BY <1>3, <2>3, <3>1, <3>2 DEF Plan
  <2>4. CASE ~seg.tracks
    <3>1. FragmentTodo(ends) = <<>> \o <<<<"M", "part">>>>
      BY <2>2, <2>4 DEF FragmentTodo
    <3>2. <<>> \o <<<<"M", "part">>>> = <<<<"M", "part">>>>
      OBVIOUS
    <3>3. QED BY <1>3, <2>4, <3>1, <3>2 DEF Plan
  <2>5. QED BY <2>3, <2>4
<1>4. QED BY <1>1, <1>2, <1>3

\* A fragment is closed.
LEMMA StepFragment ==
  ASSUME IInv, fmp4_close_fragment
  PROVE  IInv'
<1>1. Good("idle") /\ seg.on /\ seg.mux
  BY IdleGood DEF fmp4_close_fragment, Idle
<1>2. /\ TypeOK /\ FlagsOK("idle") /\ AlignOK("idle") /\ LiveOK("idle")
  BY <1>1 DEF Good
<1>3. /\ M' = M /\ T' = T /\ pos' = pos /\ floor' = floor /\ seen' = seen /\ enable' = enable
      /\ used' = [used EXCEPT !.frags = @ + 1]
  BY DEF fmp4_close_fragment
<1>4. PICK ends \in BOOLEAN :
        /\ ends \/ ChunkNow
        /\ todo' = FragmentTodo(ends)
        /\ seg' = [seg EXCEPT !.n = IF ~seg.ll THEN @ ELSE IF ends THEN 0 ELSE @ + 1]
  BY Zenon DEF fmp4_close_fragment
<1>5. seg.n \in Nat /\ seg.n < MaxParts /\ MaxParts \in Nat \ {0}
  BY <1>2, SegSnapshotAssumption DEF TypeOK, LiveOK
<1>6. PICK n \in Nat : n = IF ~seg.ll THEN seg.n ELSE IF ends THEN 0 ELSE seg.n + 1
  BY <1>5
<1>7. /\ seg' \in [on : BOOLEAN, ll : BOOLEAN, topen : BOOLEAN, mux : BOOLEAN,
                   tracks : BOOLEAN, n : Nat]
      /\ seg'.on = seg.on /\ seg'.topen = seg.topen /\ seg'.mux = seg.mux
      /\ seg'.tracks = seg.tracks /\ seg'.n = n
  BY <1>2, <1>4, <1>6 DEF TypeOK
<1>8. /\ used' \in [frags : Nat, relocks : Nat, opens : Nat, foreign : Nat]
      /\ used'.foreign = used.foreign
  BY <1>2, <1>3 DEF TypeOK
<1>9. PICK l \in Nat : l = Len(Val(M).live)
  <2>1. Val(M) \in Snap
    BY <1>2, Stores
  <2>2. QED BY <2>1, LenProperties DEF Snap
<1>10. l <= seg.n /\ Len(Val(M).live)' = l
  BY <1>2, <1>3, <1>9, QuietVal DEF LiveOK
<1>11. n < MaxParts /\ (seg.ll /\ ~ends => l < n) /\ l < MaxParts /\ (~seg.ll => l <= n)
  BY <1>4, <1>5, <1>6, <1>10 DEF ChunkNow
<1>12. PICK q \in {"F1", "F2", "E1", "E3", "C1", "C2"} :
        /\ Plan(q, todo')
        /\ q \in {"F1", "E1", "C1"} <=> seg.tracks
        /\ q \in {"F1", "F2"} <=> ~seg.ll
        /\ q \in {"E1", "E3"} <=> seg.ll /\ ends
  <2>1. CASE ~seg.ll BY <1>2, <1>4, <2>1, FragmentPlan
  <2>2. CASE seg.ll /\ ends BY <1>2, <1>4, <2>2, FragmentPlan
  <2>3. CASE seg.ll /\ ~ends BY <1>2, <1>4, <2>3, FragmentPlan
  <2>4. QED BY <2>1, <2>2, <2>3
<1>13. q \in Phases
  BY DEF Phases
<1>14. FlagsOK(q)'
  BY <1>1, <1>2, <1>3, <1>7, <1>12 DEF FlagsOK
<1>15. EmptyOK(q)'
  BY <1>1, <1>7 DEF EmptyOK
<1>16. AlignOK(q)'
  <2>1. seg.tracks => M' # NoSnap /\ T' # NoSnap /\ Same(Val(T), Val(M))
    BY <1>2, <1>3 DEF AlignOK
  <2>2. Val(M)' = Val(M) /\ Val(T)' = Val(T)
    BY <1>3, QuietVal
  <2>3. QED BY <1>7, <1>12, <2>1, <2>2 DEF AlignOK
<1>17. LiveOK(q)'
  BY <1>7, <1>10, <1>11, <1>12 DEF LiveOK
<1>18. enable' \subseteq {"M", "T"}
  BY <1>2, <1>3 DEF TypeOK
<1>19. QED BY <1>1, <1>3, <1>7, <1>8, <1>12, <1>13, <1>14, <1>15, <1>16, <1>17, <1>18, Planned

\* The wall clock of media time 0 is set.
LEMMA StepAnchor ==
  ASSUME IInv, Anchor
  PROVE  IInv'
<1>1. Good("idle") /\ seg.on
  BY IdleGood DEF Anchor, Idle
<1>2. /\ TypeOK /\ FlagsOK("idle") /\ EmptyOK("idle") /\ AlignOK("idle") /\ LiveOK("idle")
  BY <1>1 DEF Good
<1>3. /\ M' = M /\ T' = T /\ seg' = seg /\ pos' = pos /\ floor' = floor /\ seen' = seen
      /\ enable' = enable /\ used' = used
  BY DEF Anchor
<1>4. PICK q \in {"A1", "A3"} : Plan(q, todo') /\ (q = "A1" <=> seg.topen)
  <2>1. CASE seg.topen
    <3>1. todo' = <<<<"M", "anchor">>>> \o <<<<"T", "anchor">>>>
      BY <2>1 DEF Anchor
    <3>2. <<<<"M", "anchor">>>> \o <<<<"T", "anchor">>>> = <<<<"M", "anchor">>, <<"T", "anchor">>>>
      <4> DEFINE S == {"M", "T"} \X {"anchor"}
      <4>1. <<"M", "anchor">> \in S /\ <<"T", "anchor">> \in S
        OBVIOUS
      <4> HIDE DEF S
      <4>2. QED BY <4>1, Join11
    <3>3. QED BY <2>1, <3>1, <3>2 DEF Plan
  <2>2. CASE ~seg.topen
    <3>1. todo' = <<<<"M", "anchor">>>> \o <<>>
      BY <2>2 DEF Anchor
    <3>2. <<<<"M", "anchor">>>> \o <<>> = <<<<"M", "anchor">>>>
      OBVIOUS
    <3>3. QED BY <2>2, <3>1, <3>2 DEF Plan
  <2>3. QED BY <2>1, <2>2
<1>5. q \in Phases
  BY DEF Phases
<1>6. FlagsOK(q)'
  BY <1>1, <1>2, <1>3, <1>4 DEF FlagsOK
<1>7. Val(M)' = Val(M) /\ Val(T)' = Val(T)
  BY <1>3, QuietVal
<1>8. EmptyOK(q)' /\ LiveOK(q)'
  BY <1>2, <1>3, <1>7 DEF EmptyOK, LiveOK
<1>9. AlignOK(q)'
  <2>1. q = "A3" => ~seg.tracks
    BY <1>2, <1>4 DEF FlagsOK
  <2>2. QED BY <1>2, <1>3, <1>7, <2>1 DEF AlignOK
<1>10. /\ seg' \in [on : BOOLEAN, ll : BOOLEAN, topen : BOOLEAN, mux : BOOLEAN,
                    tracks : BOOLEAN, n : Nat]
       /\ enable' \subseteq {"M", "T"}
       /\ used' \in [frags : Nat, relocks : Nat, opens : Nat, foreign : Nat]
       /\ used'.foreign = used.foreign
  BY <1>2, <1>3 DEF TypeOK
<1>11. QED BY <1>1, <1>3, <1>4, <1>5, <1>6, <1>8, <1>9, <1>10, Planned

\* The muxer of a program is created.
LEMMA StepMuxer ==
  ASSUME IInv, try_create_fmux
  PROVE  IInv'
<1>1. Good("idle") /\ seg.on /\ ~seg.mux
  BY IdleGood DEF try_create_fmux, Idle
<1>2. /\ TypeOK /\ FlagsOK("idle") /\ EmptyOK("idle") /\ AlignOK("idle") /\ LiveOK("idle")
  BY <1>1 DEF Good
<1>3. /\ M' = M /\ T' = T /\ pos' = pos /\ floor' = floor /\ seen' = seen
      /\ enable' = enable /\ used' = used
  BY DEF try_create_fmux
<1>4. PICK got \in {"muxed", "store", "synced", "tracks"} :
        /\ seg' = [seg EXCEPT !.mux = TRUE, !.tracks = (got = "tracks"),
                              !.topen = @ \/ got # "muxed"]
        /\ todo' = CreateTodo(got)
  BY Zenon DEF try_create_fmux
<1>5. PICK q \in {"K1", "K4", "K5"} : Plan(q, todo') /\ (q = "K1" <=> got = "tracks") /\ (q = "K5" <=> got = "synced")
  <2>1. CASE got = "tracks"
    BY <1>4, <2>1 DEF CreateTodo, Plan
  <2>2. CASE got = "synced"
    BY <1>4, <2>2 DEF CreateTodo, Plan
  <2>3. CASE got \in {"muxed", "store"}
    BY <1>4, <2>3 DEF CreateTodo, Plan
  <2>4. QED BY <2>1, <2>2, <2>3
<1>6. q \in Phases
  BY DEF Phases
<1>7. /\ seg' \in [on : BOOLEAN, ll : BOOLEAN, topen : BOOLEAN, mux : BOOLEAN,
                   tracks : BOOLEAN, n : Nat]
      /\ seg'.on = seg.on /\ seg'.mux /\ seg'.n = seg.n
      /\ seg'.tracks = (got = "tracks") /\ seg'.topen = (seg.topen \/ got # "muxed")
  <2>1. PICK o \in BOOLEAN, t \in BOOLEAN : o = (seg.topen \/ got # "muxed") /\ t = (got = "tracks")
    OBVIOUS
  <2>2. seg' = [seg EXCEPT !.mux = TRUE, !.tracks = t, !.topen = o]
    BY <1>4, <2>1
  <2>3. QED BY <1>2, <2>1, <2>2 DEF TypeOK
<1>8. FlagsOK(q)'
  BY <1>1, <1>2, <1>3, <1>5, <1>7 DEF FlagsOK
<1>9. Val(M)' = Val(M) /\ Val(T)' = Val(T)
  BY <1>3, QuietVal
<1>10. EmptyOK(q)' /\ LiveOK(q)'
  BY <1>1, <1>2, <1>7, <1>9 DEF EmptyOK, LiveOK
<1>11. AlignOK(q)'
  BY <1>5, <1>7 DEF AlignOK
<1>12. /\ enable' \subseteq {"M", "T"}
       /\ used' \in [frags : Nat, relocks : Nat, opens : Nat, foreign : Nat]
       /\ used'.foreign = used.foreign
  BY <1>2, <1>3 DEF TypeOK
<1>13. seg'.tracks /\ q # "K1" => seg.tracks
  BY <1>5, <1>7
<1>14. QED BY <1>1, <1>3, <1>5, <1>6, <1>7, <1>8, <1>10, <1>11, <1>12, <1>13, Planned

\* The program changes.
LEMMA StepRelock ==
  ASSUME IInv, relock_program
  PROVE  IInv'
<1>1. Good("idle") /\ seg.on
  BY IdleGood DEF relock_program, Idle
<1>2. /\ TypeOK /\ FlagsOK("idle") /\ EmptyOK("idle") /\ AlignOK("idle") /\ LiveOK("idle")
  BY <1>1 DEF Good
<1>3. /\ M' = M /\ T' = T /\ pos' = pos /\ floor' = floor /\ seen' = seen
      /\ enable' = enable /\ used' = [used EXCEPT !.relocks = @ + 1]
      /\ seg' = [seg EXCEPT !.mux = FALSE, !.tracks = FALSE]
  BY DEF relock_program
<1>4. PICK q \in {"R1", "R4"} : Plan(q, todo') /\ (q = "R1" <=> seg.topen)
  <2>1. CASE seg.topen
    <3>1. todo' = <<<<"M", "disc">>>> \o <<<<"M", "read">>, <<"T", "sync">>>>
      BY <2>1 DEF relock_program
    <3>2. <<<<"M", "disc">>>> \o <<<<"M", "read">>, <<"T", "sync">>>>
            = <<<<"M", "disc">>, <<"M", "read">>, <<"T", "sync">>>>
      <4> DEFINE S == {"M", "T"} \X {"disc", "read", "sync"}
      <4>1. <<"M", "disc">> \in S /\ <<"M", "read">> \in S /\ <<"T", "sync">> \in S
        OBVIOUS
      <4> HIDE DEF S
      <4>2. QED BY <4>1, Join12
    <3>3. QED BY <2>1, <3>1, <3>2 DEF Plan
  <2>2. CASE ~seg.topen
    <3>1. todo' = <<<<"M", "disc">>>> \o <<>>
      BY <2>2 DEF relock_program
    <3>2. <<<<"M", "disc">>>> \o <<>> = <<<<"M", "disc">>>>
      OBVIOUS
    <3>3. QED BY <2>2, <3>1, <3>2 DEF Plan
  <2>3. QED BY <2>1, <2>2
<1>5. q \in Phases
  BY DEF Phases
<1>6. /\ seg' \in [on : BOOLEAN, ll : BOOLEAN, topen : BOOLEAN, mux : BOOLEAN,
                   tracks : BOOLEAN, n : Nat]
      /\ seg'.on = seg.on /\ ~seg'.mux /\ seg'.n = seg.n /\ ~seg'.tracks
      /\ seg'.topen = seg.topen
  BY <1>2, <1>3 DEF TypeOK
<1>7. FlagsOK(q)'
  BY <1>1, <1>2, <1>3, <1>4, <1>6 DEF FlagsOK
<1>8. Val(M)' = Val(M)
  BY <1>3, QuietVal
<1>9. EmptyOK(q)' /\ LiveOK(q)' /\ AlignOK(q)'
  BY <1>2, <1>6, <1>8 DEF EmptyOK, LiveOK, AlignOK
<1>10. /\ enable' \subseteq {"M", "T"}
       /\ used' \in [frags : Nat, relocks : Nat, opens : Nat, foreign : Nat]
       /\ used'.foreign = used.foreign
  BY <1>2, <1>3 DEF TypeOK
<1>11. QED BY <1>1, <1>3, <1>4, <1>5, <1>6, <1>7, <1>9, <1>10, Planned

-----------------------------------------------------------------------------
(* Closed stores and the floor.                                            *)

\* The floor a closed store leaves is at least the number it would have given
\* next.
LEMMA FloorFacts ==
  ASSUME TypeOK, NEW sn \in {M, T}, NEW f, f = MaxNext(floor, sn)
  PROVE  f \in Nat /\ f >= floor /\ f >= NextOf(sn)
<1>1. PICK a \in Nat, n \in Nat : a = floor /\ n = NextOf(sn)
  BY NextType DEF TypeOK
<1>2. CASE sn = NoSnap
  BY <1>1, <1>2 DEF MaxNext, NextOf
<1>3. CASE sn # NoSnap
  <2>1. n = sn.next
    BY <1>1, <1>3 DEF NextOf
  <2>2. f = Max2(a, n)
    BY <1>1, <1>3, <2>1 DEF MaxNext
  <2>3. QED BY <1>1, <2>2 DEF Max2
<1>4. QED BY <1>2, <1>3

\* What is below a number is below a larger one.
LEMMA Below ==
  ASSUME NEW S \in SUBSET Name, NEW n \in Nat, NEW f \in Nat, n <= f,
         \A a \in S : a.seq < n
  PROVE  \A a \in S : a.seq < f
<1>1. \A a \in S : a.seq \in Nat
  BY DEF Name
<1>2. QED BY <1>1

\* A store is closed under a rising floor: neither store's next number falls,
\* so that the names stay below it.
LEMMA Raised ==
  ASSUME Good("idle"), floor' \in Nat, NextOf(M)' \in Nat, NextOf(T)' \in Nat,
         NextOf(M) <= NextOf(M)', NextOf(T) <= NextOf(T)',
         M' \in {M, NoSnap}, T' \in {T, NoSnap}, seen' = seen, used' = used, ~seg'.tracks
  PROVE  MuxedNamesOK' /\ TrackNamesOK("idle")'
<1>1. TypeOK /\ MuxedNamesOK /\ TrackNamesOK("idle")
  BY DEF Good
<1>2. seen.M \in SUBSET Name /\ seen.T \in SUBSET Name /\ NextOf(M) \in Nat /\ NextOf(T) \in Nat
  BY <1>1, NextType DEF TypeOK
<1>3. SegNames(M)' \subseteq SegNames(M) /\ SegNames(T)' \subseteq SegNames(T)
  BY DEF SegNames
<1>4. \A a \in seen.M : a.seq < NextOf(M)'
  BY <1>1, <1>2, Below DEF MuxedNamesOK
<1>5. MuxedNamesOK'
  BY <1>1, <1>3, <1>4 DEF MuxedNamesOK
<1>6. Ahead("idle") = 0 /\ NextOf(M) + 0 = NextOf(M) /\ NextOf(M)' + 0 = NextOf(M)'
  BY <1>2 DEF Ahead
<1>7. ASSUME used.foreign = 0
      PROVE  \A a \in seen.T : a.seq < NextOf(T)' /\ a.seq < NextOf(M)'
  <2>1. (\A a \in seen.T : a.seq < NextOf(T)) /\ (\A a \in seen.T : a.seq < NextOf(M))
    BY <1>1, <1>6, <1>7 DEF TrackNamesOK
  <2>2. \A a \in seen.T : a.seq < NextOf(T)'
    BY <1>2, <2>1, Below
  <2>3. \A a \in seen.T : a.seq < NextOf(M)'
    BY <1>2, <2>1, Below
  <2>4. QED BY <2>2, <2>3
<1>8. TrackNamesOK("idle")'
  BY <1>1, <1>3, <1>6, <1>7 DEF TrackNamesOK
<1>9. QED BY <1>5, <1>8

\* The muxed store of an idle segmenter is closed.
LEMMA StepClose ==
  ASSUME IInv, hls_store_close
  PROVE  IInv'
<1>1. Good("idle")
  BY IdleGood DEF hls_store_close, Idle
<1>2. TypeOK /\ FlagsOK("idle")
  BY <1>1 DEF Good
<1>3. /\ M' = NoSnap /\ T' = T /\ seg' = [Closed EXCEPT !.topen = seg.topen] /\ todo' = todo
      /\ pos' = pos /\ enable' = enable /\ seen' = seen /\ used' = used /\ todo = <<>>
      /\ floor' = MaxNext(floor, M)
  BY DEF hls_store_close, Idle
<1>4. floor' \in Nat /\ floor' >= NextOf(M) /\ floor' >= floor
  BY <1>2, <1>3, FloorFacts
<1>5. /\ seg' \in [on : BOOLEAN, ll : BOOLEAN, topen : BOOLEAN, mux : BOOLEAN,
                   tracks : BOOLEAN, n : Nat]
      /\ ~seg'.on /\ ~seg'.mux /\ ~seg'.tracks /\ seg'.n = 0 /\ seg'.topen = seg.topen
  BY <1>2, <1>3 DEF TypeOK, Closed
<1>6. TypeOK'
  BY <1>2, <1>3, <1>4, <1>5 DEF TypeOK
<1>7. Val(M)'.segs = <<>> /\ Val(M)'.live = <<>>
  BY <1>3 DEF Val, snap_clone, Fresh
<1>9. FlagsOK("idle")'
  BY <1>2, <1>3, <1>5 DEF FlagsOK
<1>10. EmptyOK("idle")' /\ AlignOK("idle")'
  BY <1>5, <1>7 DEF EmptyOK, AlignOK
<1>11. LiveOK("idle")'
  BY <1>5, <1>7, SegSnapshotAssumption DEF LiveOK
<1>12. /\ NextOf(M)' \in Nat /\ NextOf(T)' \in Nat
       /\ NextOf(M) <= NextOf(M)' /\ NextOf(T) <= NextOf(T)'
  <2>1. NextOf(M)' = floor' /\ NextOf(T)' = (IF T = NoSnap THEN floor' ELSE T.next)
    BY <1>3 DEF NextOf
  <2>2. NextOf(T) = (IF T = NoSnap THEN floor ELSE T.next) /\ NextOf(T) \in Nat /\ NextOf(M) \in Nat
    BY <1>2, NextType DEF NextOf
  <2>3. QED BY <1>2, <1>4, <2>1, <2>2 DEF TypeOK
<1>13. MuxedNamesOK' /\ TrackNamesOK("idle")'
  BY <1>1, <1>3, <1>4, <1>5, <1>12, Raised
<1>14. Good("idle")'
  BY <1>6, <1>9, <1>10, <1>11, <1>13 DEF Good
<1>15. Plan("idle", todo') /\ "idle" \in Phases
  BY <1>3 DEF Plan, Phases
<1>16. QED BY <1>14, <1>15 DEF IInv

\* The track store follows.
LEMMA StepCloseTrack ==
  ASSUME IInv, CloseTrack
  PROVE  IInv'
<1>1. PICK ph \in Phases : Plan(ph, todo) /\ Good(ph)
  BY DEF IInv
<1>2. ph = "idle" /\ M = NoSnap
  BY <1>1 DEF Good, FlagsOK, CloseTrack
<1>3. Good("idle") /\ TypeOK
  BY <1>1, <1>2 DEF Good
<1>4. /\ M' = M /\ T' = NoSnap /\ seg' = Closed /\ todo' = todo /\ pos' = pos
      /\ enable' = enable /\ seen' = seen /\ used' = used /\ floor' = MaxNext(floor, T)
  BY DEF CloseTrack
<1>5. floor' \in Nat /\ floor' >= NextOf(T) /\ floor' >= floor
  BY <1>3, <1>4, FloorFacts
<1>6. TypeOK'
  BY <1>3, <1>4, <1>5 DEF TypeOK, Closed
<1>7. Val(M)'.segs = <<>> /\ Val(M)'.live = <<>>
  BY <1>2, <1>4 DEF Val, snap_clone, Fresh
<1>8. FlagsOK("idle")' /\ EmptyOK("idle")' /\ AlignOK("idle")'
  BY <1>2, <1>4, <1>7 DEF FlagsOK, EmptyOK, AlignOK, Closed
<1>9. LiveOK("idle")'
  BY <1>4, <1>7, SegSnapshotAssumption DEF LiveOK, Closed
<1>10. NextOf(M)' = floor' /\ NextOf(T)' = floor' /\ NextOf(M) = floor
  BY <1>2, <1>4 DEF NextOf
<1>11. MuxedNamesOK' /\ TrackNamesOK("idle")'
  BY <1>3, <1>4, <1>5, <1>10, Raised DEF Closed
<1>12. Good("idle")'
  BY <1>6, <1>8, <1>9, <1>11 DEF Good
<1>13. QED BY <1>1, <1>2, <1>4, <1>12 DEF IInv

\* The store of another segmenter is closed.
LEMMA StepForeign ==
  ASSUME IInv, ForeignClose
  PROVE  IInv'
<1>1. PICK ph \in Phases : Plan(ph, todo) /\ Good(ph)
  BY DEF IInv
<1>2. /\ TypeOK /\ FlagsOK(ph) /\ EmptyOK(ph) /\ AlignOK(ph) /\ LiveOK(ph) /\ MuxedNamesOK
  BY <1>1 DEF Good
<1>3. /\ M' = M /\ T' = T /\ seg' = seg /\ todo' = todo /\ pos' = pos /\ enable' = enable
      /\ seen' = seen /\ floor' = floor + 1 /\ used' = [used EXCEPT !.foreign = @ + 1]
  BY DEF ForeignClose
<1>4. /\ used' \in [frags : Nat, relocks : Nat, opens : Nat, foreign : Nat]
      /\ used'.foreign # 0 /\ used'.frags = used.frags /\ floor' \in Nat /\ floor' >= floor
  BY <1>2, <1>3 DEF TypeOK
<1>5. TypeOK'
  BY <1>2, <1>3, <1>4 DEF TypeOK
<1>6. Val(M)' = Val(M) /\ Val(T)' = Val(T) /\ Val(pos)' = Val(pos) /\ Wall' = Wall
  BY <1>3, <1>4 DEF Val, snap_clone, Wall
<1>7. FlagsOK(ph)' /\ EmptyOK(ph)' /\ LiveOK(ph)'
  BY <1>2, <1>3, <1>6 DEF FlagsOK, EmptyOK, LiveOK
<1>8. AlignOK(ph)'
  BY <1>2, <1>3, <1>6 DEF AlignOK
<1>9. MuxedNamesOK'
  BY <1>2, <1>3, <1>4, MuxedStill
<1>10. TrackNamesOK(ph)'
  BY <1>4 DEF TrackNamesOK
<1>11. Good(ph)'
  BY <1>5, <1>7, <1>8, <1>9, <1>10 DEF Good
<1>12. QED BY <1>1, <1>3, <1>11 DEF IInv

\* Nothing changes.
LEMMA StepNothing ==
  ASSUME IInv, UNCHANGED vars
  PROVE  IInv'
<1>1. /\ M' = M /\ T' = T /\ seg' = seg /\ todo' = todo /\ pos' = pos /\ enable' = enable
      /\ seen' = seen /\ floor' = floor /\ used' = used
  BY DEF vars
<1>2. QED
  BY <1>1 DEF IInv, Plan, Good, TypeOK, FlagsOK, EmptyOK, AlignOK, LiveOK, MuxedNamesOK,
              TrackNamesOK, Val, NextOf, Wall

-----------------------------------------------------------------------------
(* What the invariant says of a reader.                                    *)

\* The feeds that push parts, and to which store.
LEMMA PartFeeds ==
  ASSUME NEW ph, Plan(ph, todo), NEW i \in DOMAIN todo, todo[i][2] = "part"
  PROVE  ph \in {"E1", "E2", "E3", "C1", "C2"} /\ (todo[i][1] = "M" \/ ph \in {"E1", "C1"})
<1>1. CASE ph = "E2"
  <2>1. todo = <<<<"T", "seg">>, <<"M", "part">>, <<"M", "seg">>>>
    BY <1>1 DEF Plan
  <2>2. QED BY <1>1, <2>1
<1>2. CASE ph = "E3"
  <2>1. todo = <<<<"M", "part">>, <<"M", "seg">>>>
    BY <1>2 DEF Plan
  <2>2. QED BY <1>2, <2>1
<1>3. CASE ph = "E4"
  <2>1. todo = <<<<"M", "seg">>>>
    BY <1>3 DEF Plan
  <2>2. QED BY <1>3, <2>1
<1>4. CASE ph = "C2"
  <2>1. todo = <<<<"M", "part">>>>
    BY <1>4 DEF Plan
  <2>2. QED BY <1>4, <2>1
<1>5. CASE ph \in {"E1", "C1"}
  BY <1>5
<1>6. CASE ph \notin {"E1", "E2", "E3", "E4", "C1", "C2"}
  BY <1>6 DEF Plan
<1>7. QED BY <1>1, <1>2, <1>3, <1>4, <1>5, <1>6

\* A snapshot on the timeline of one that lists segments lists some too.
LEMMA SameListed ==
  ASSUME NEW a \in Snap, NEW b \in Snap, Same(a, b), b.segs # <<>>
  PROVE  a.segs # <<>>
<1>1. Len(a.segs) = Len(b.segs)
  BY StartsType DEF Same
<1>2. a.segs \in Seq(SegRec) /\ b.segs \in Seq(SegRec)
  BY DEF Snap
<1>3. QED BY <1>1, <1>2, LenProperties, EmptySeq

\* A part of a feed finds room in its store.
LEMMA Room ==
  ASSUME IInv
  PROVE  NoPartLost
<1>1. PICK ph \in Phases : Plan(ph, todo) /\ Good(ph)
  BY DEF IInv
<1>2. TypeOK /\ FlagsOK(ph) /\ AlignOK(ph) /\ LiveOK(ph)
  BY <1>1 DEF Good
<1>3. SUFFICES ASSUME NEW i \in DOMAIN todo, todo[i][2] = "part"
               PROVE  ~PartRefused(snap_clone(IF todo[i][1] = "M" THEN M ELSE T, floor))
  BY DEF NoPartLost
<1>4. ph \in {"E1", "E2", "E3", "C1", "C2"} /\ (todo[i][1] = "M" \/ ph \in {"E1", "C1"})
  BY <1>1, <1>3, PartFeeds
<1>5. PICK m \in Snap, v \in Snap : m = snap_clone(M, floor) /\ v = Val(M) /\ m.live = v.live
  BY <1>2, Stores
<1>6. PICK l \in Nat : l = Len(v.live)
  BY LenProperties DEF Snap
<1>7. l < MaxParts
  <2>1. seg.n \in Nat /\ MaxParts \in Nat
    BY <1>2, SegSnapshotAssumption DEF TypeOK
  <2>2. CASE ph \in {"E1", "E2", "E3"}
    BY <1>2, <1>5, <1>6, <2>2 DEF LiveOK
  <2>3. CASE ph \in {"C1", "C2"}
    <3>1. l < seg.n /\ seg.n < MaxParts
      BY <1>2, <1>5, <1>6, <2>3 DEF LiveOK
    <3>2. QED BY <2>1, <3>1
  <2>4. QED BY <1>4, <2>2, <2>3
<1>8. MaxParts \in Nat
  BY SegSnapshotAssumption
<1>9. CASE todo[i][1] = "M"
  <2>1. ~PartRefused(m)
    BY <1>5, <1>6, <1>7, <1>8 DEF PartRefused
  <2>2. QED BY <1>5, <1>9, <2>1
<1>10. CASE todo[i][1] # "M"
  <2>1. ph \in {"E1", "C1"}
    BY <1>4, <1>10
  <2>2. PICK t \in Snap : t = snap_clone(T, floor) /\ Same(t, Val(T))
    BY <1>2, Stores
  <2>3. Same(Val(T), v)
    BY <1>2, <1>5, <2>1 DEF AlignOK, FlagsOK
  <2>4. Len(t.live) = l
    BY <1>6, <2>2, <2>3 DEF Same
  <2>5. ~PartRefused(t)
    BY <1>7, <1>8, <2>4 DEF PartRefused
  <2>6. QED BY <1>10, <2>2, <2>5
<1>11. QED BY <1>9, <1>10

\* Between two feeds the stores of a track muxer are on one timeline.
LEMMA Aligned ==
  ASSUME IInv
  PROVE  TracksAligned
<1>1. SUFFICES ASSUME todo = <<>>, seg.tracks
               PROVE  /\ Open(M) /\ Open(T)
                      /\ Starts(T) = Starts(M) /\ T.cum = M.cum /\ Len(T.live) = Len(M.live)
                      /\ T.epoch = M.epoch /\ T.base = M.base /\ T.avail = M.avail
  BY DEF TracksAligned
<1>2. Good("idle")
  BY <1>1, IdleGood
<1>3. AlignOK("idle")
  BY <1>2 DEF Good
<1>4. M # NoSnap /\ T # NoSnap /\ Same(Val(T), Val(M))
  BY <1>1, <1>3 DEF AlignOK
<1>5. Val(M) = M /\ Val(T) = T
  BY <1>4 DEF Val, snap_clone
<1>6. QED BY <1>4, <1>5 DEF Same, Open

\* A muxed store with segments has a track store with segments beside it.
LEMMA Ready ==
  ASSUME IInv
  PROVE  ReadyImpliesTracks
<1>1. SUFFICES ASSUME seg.tracks, M # NoSnap, M.segs # <<>>
               PROVE  T # NoSnap /\ T.segs # <<>>
  BY DEF ReadyImpliesTracks, Open
<1>2. PICK ph \in Phases : Plan(ph, todo) /\ Good(ph)
  BY DEF IInv
<1>3. TypeOK /\ FlagsOK(ph) /\ EmptyOK(ph) /\ AlignOK(ph)
  BY <1>2 DEF Good
<1>4. M \in Snap /\ Val(M) = M
  BY <1>1, <1>3 DEF TypeOK, Val, snap_clone
<1>5. ph \notin {"K1", "K2", "K3"}
  BY <1>1, <1>3, <1>4 DEF EmptyOK
<1>6. ph \notin {"R1", "R2", "R3", "R4", "A3", "K5", "K6"}
  BY <1>1, <1>3 DEF FlagsOK
<1>7. T # NoSnap
  BY <1>1, <1>3, <1>5 DEF AlignOK
<1>8. T \in Snap /\ Val(T) = T
  BY <1>3, <1>7 DEF TypeOK, Val, snap_clone
<1>9. Wall \in Nat /\ 0 \in Nat
  BY <1>3, Stores
<1>10. CASE ph \in {"idle", "F1", "E1", "C1", "A1", "K4"}
  <2>1. Same(T, M)
    BY <1>1, <1>3, <1>4, <1>8, <1>10 DEF AlignOK
  <2>2. QED BY <1>1, <1>4, <1>7, <1>8, <2>1, SameListed
<1>11. CASE ph = "F2"
  <2>1. PICK r : r = hls_push_segment_at(M, 0)
    OBVIOUS
  <2>2. r \in Snap /\ r.segs # <<>>
    BY <1>4, <1>9, <2>1, FullFacts DEF Appended
  <2>3. Same(T, r)
    BY <1>1, <1>3, <1>4, <1>8, <1>11, <2>1 DEF AlignOK
  <2>4. QED BY <1>7, <1>8, <2>2, <2>3, SameListed
<1>12. CASE ph \in {"E2", "C2"}
  <2>1. PICK r : r = hls_push_part_at(M, 0)
    OBVIOUS
  <2>2. r \in Snap /\ r.segs # <<>>
    BY <1>1, <1>4, <1>9, <2>1, PartFacts
  <2>3. Same(T, r)
    BY <1>1, <1>3, <1>4, <1>8, <1>12, <2>1 DEF AlignOK
  <2>4. QED BY <1>7, <1>8, <2>2, <2>3, SameListed
<1>13. CASE ph = "E3"
  <2>1. PICK p \in Snap : p = hls_push_part_at(M, 0)
    BY <1>4, <1>9, PartFacts
  <2>2. PICK r : r = hls_push_segment_ll_at(p)
    OBVIOUS
  <2>3. r \in Snap /\ r.segs # <<>>
    BY <2>1, <2>2, SegFacts DEF Appended
  <2>4. Same(T, r)
    BY <1>1, <1>3, <1>4, <1>8, <1>13, <2>1, <2>2 DEF AlignOK
  <2>5. QED BY <1>7, <1>8, <2>3, <2>4, SameListed
<1>14. CASE ph = "E4"
  <2>1. PICK r : r = hls_push_segment_ll_at(M)
    OBVIOUS
  <2>2. r \in Snap /\ r.segs # <<>>
    BY <1>4, <2>1, SegFacts DEF Appended
  <2>3. Same(T, r)
    BY <1>1, <1>3, <1>4, <1>8, <1>14, <2>1 DEF AlignOK
  <2>4. QED BY <1>7, <1>8, <2>2, <2>3, SameListed
<1>15. CASE ph = "A2"
  <2>1. PICK r : r = hls_store_anchor_at(T, Wall)
    OBVIOUS
  <2>2. r \in Snap /\ r.segs = T.segs
    BY <1>8, <1>9, <2>1, AnchorFacts
  <2>3. Same(r, M)
    BY <1>1, <1>3, <1>4, <1>8, <1>15, <2>1, SameSwap DEF AlignOK
  <2>4. QED BY <1>1, <1>4, <1>7, <2>2, <2>3, SameListed
<1>16. QED BY <1>5, <1>6, <1>10, <1>11, <1>12, <1>13, <1>14, <1>15 DEF Phases

\* The names served so far are unique.
LEMMA Names ==
  ASSUME IInv
  PROVE  SegNamesOnce
BY DEF IInv, Good, MuxedNamesOK, TrackNamesOK, SegNamesOnce

-----------------------------------------------------------------------------
(* The theorems.                                                           *)

\* The inductive invariant holds of every reachable state of the stores.
LEMMA Invariant == Spec => []IInv
<1>1. Init => IInv
  BY Start
<1>2. IInv /\ [Next]_vars => IInv'
  <2>1. SUFFICES ASSUME IInv, [Next]_vars PROVE IInv'
    OBVIOUS
  <2>2. CASE Next
    BY <2>1, <2>2, StepCreate, StepLowLatency, StepEnable, StepFragment, StepAnchor, StepMuxer,
       StepRelock, StepPump, StepClose, StepCloseTrack, StepForeign DEF Next
  <2>3. CASE UNCHANGED vars
    BY <2>1, <2>3, StepNothing
  <2>4. QED BY <2>1, <2>2, <2>3
<1>3. QED BY <1>1, <1>2, PTL DEF Spec

\* A sequence number of the muxed store names one segment for ever, and one of
\* the track store as long as no other store raised the floor (snapshot.c:37):
\* however program changes, closed and reopened stores, low latency switched on
\* by a worker and the operations of a feed interleave.
THEOREM SegNamesCorrect == Spec => []SegNamesOnce
BY Invariant, Names, PTL

\* Between two feeds the track store lists the media times, the epoch and the
\* anchor of the muxed store, for every window, part limit and interleaving of
\* hls_llhls_enable with the pump (mux.c).
THEOREM TracksAlignedCorrect == Spec => []TracksAligned
BY Invariant, Aligned, PTL

\* A reader that finds segments in the muxed store finds them in the track store
\* at the same instant (mux.c:329).
THEOREM ReadyCorrect == Spec => []ReadyImpliesTracks
BY Invariant, Ready, PTL

\* No part is refused: the segmenter's n_parts bounds the parts of both stores
\* (priv.h:174).
THEOREM NoPartLostCorrect == Spec => []NoPartLost
BY Invariant, Room, PTL

-----------------------------------------------------------------------------
(* What a low latency reader was told stays true: the window and the live  *)
(* edge move together.                                                     *)

\* The window ends where the segment in progress starts.
Whole(sn) == sn.oldest + Len(sn.segs) = sn.next
WindowOK == Open(M) => Whole(M)

\* What AvailableSticks says of one publication.
Sticks(sn, r) == sn.pt /\ InStep(sn) /\ InStep(r) =>
    \A seq \in sn.oldest..sn.next, part \in -1..MaxParts :
       hls_part_available(sn, seq, part) => hls_part_available(r, seq, part) \/ seq < r.oldest

\* Nothing a reader looks at has changed.
LEMMA StickSame ==
  ASSUME NEW sn \in Snap, NEW r \in Snap, Whole(sn), r.next = sn.next, r.oldest = sn.oldest,
         r.segs = sn.segs, r.live = sn.live, r.msn = sn.msn
  PROVE  Whole(r) /\ Sticks(sn, r)
<1>1. Whole(r)
  BY DEF Whole
<1>2. \A seq, part : hls_part_available(sn, seq, part) = hls_part_available(r, seq, part)
  BY DEF hls_part_available, InWindow, SegAt
<1>3. QED BY <1>1, <1>2 DEF Sticks

\* A part more is in progress.
LEMMA StickPart ==
  ASSUME NEW sn \in Snap, NEW d \in Nat, NEW r, r = hls_push_part_at(sn, d), Whole(sn)
  PROVE  r \in Snap /\ Whole(r) /\ Sticks(sn, r)
<1>1. /\ r \in Snap /\ r.segs = sn.segs /\ r.next = sn.next /\ Len(sn.live) \in Nat
      /\ Len(r.live) = IF Len(sn.live) >= MaxParts THEN Len(sn.live) ELSE Len(sn.live) + 1
  BY PartFacts
<1>2. r.oldest = sn.oldest /\ r.msn = sn.msn
  <2>1. PICK l : l = Append(sn.live, d)
    OBVIOUS
  <2>2. r = sn \/ r = [sn EXCEPT !.live = l]
    BY <2>1 DEF hls_push_part_at, Snap
  <2>3. QED BY <2>2 DEF Snap
<1>3. Whole(r)
  BY <1>1, <1>2 DEF Whole
<1>4. PICK n \in Nat, k \in Nat : n = Len(sn.live) /\ k = Len(r.live) /\ k >= n
  BY <1>1, SegSnapshotAssumption
<1>5. sn.live # <<>> => r.live # <<>>
  <2>1. sn.live \in Seq(Nat) /\ r.live \in Seq(Nat)
    BY <1>1 DEF Snap
  <2>2. QED BY <1>4, <2>1, EmptySeq
<1>6. ASSUME NEW seq \in Int, NEW part \in Int, hls_part_available(sn, seq, part)
      PROVE  hls_part_available(r, seq, part)
  <2>1. CASE part < 0
    BY <1>2, <1>6, <2>1 DEF hls_part_available
  <2>2. CASE ~(part < 0) /\ sn.msn = seq
    <3>1. n > part
      BY <1>4, <1>6, <2>2 DEF hls_part_available
    <3>2. k > part
      BY <1>4, <3>1
    <3>3. QED BY <1>2, <1>4, <2>2, <3>2 DEF hls_part_available
  <2>3. CASE ~(part < 0) /\ sn.msn # seq
    BY <1>1, <1>2, <1>5, <1>6, <2>3 DEF hls_part_available, InWindow, SegAt
  <2>4. QED BY <2>1, <2>2, <2>3
<1>7. sn.oldest \in Nat /\ sn.next \in Nat /\ MaxParts \in Nat
  BY SegSnapshotAssumption DEF Snap
<1>8. QED BY <1>1, <1>3, <1>6, <1>7 DEF Sticks

\* What AppendSegment makes of the window.
LEMMA AppendWindow ==
  ASSUME NEW sn \in Snap, NEW data \in Seq(Nat), NEW parts \in Nat, NEW r,
         r = AppendSegment(sn, data, parts), Whole(sn)
  PROVE  /\ r \in Snap /\ Whole(r) /\ r.next = sn.next + 1 /\ r.msn = sn.msn
         /\ r.oldest \in {sn.oldest, sn.oldest + 1} /\ Len(r.segs) \in Nat \ {0}
         /\ r.segs[Len(r.segs)].parts = parts
         /\ \A i \in 1..(Len(r.segs) - 1) : r.segs[i] = sn.segs[i + r.oldest - sn.oldest]
<1> DEFINE new == [seq |-> sn.next, start |-> sn.cum, data |-> data, parts |-> parts,
                   disc |-> sn.disc]
           d == Dropped(sn.segs)
           a == Append(d, new)
           full == Len(sn.segs) >= MaxSegs
<1>1. new \in SegRec /\ new.parts = parts
  BY DEF Snap, SegRec
<1>2. sn.segs \in Seq(SegRec) /\ Len(sn.segs) \in Nat /\ sn.oldest \in Nat /\ sn.next \in Nat
  BY LenProperties DEF Snap
<1>3. /\ d \in Seq(SegRec)
      /\ Len(d) = IF full THEN Len(sn.segs) - 1 ELSE Len(sn.segs)
      /\ \A i \in 1..Len(d) : d[i] = sn.segs[IF full THEN i + 1 ELSE i]
  BY <1>2, DroppedFacts
<1>4. Len(d) \in Nat
  BY <1>3, LenProperties
<1>5. /\ a \in Seq(SegRec) /\ Len(a) = Len(d) + 1 /\ a[Len(d) + 1] = new
      /\ \A i \in 1..Len(d) : a[i] = d[i]
  BY <1>1, <1>3, AppendProperties, SMTT(60)
<1>6. r \in Snap
  BY AppendFacts DEF Appended
<1>7. PICK o \in Nat, n \in Nat, c \in Nat :
         /\ o = IF full THEN sn.oldest + 1 ELSE sn.oldest
         /\ n = sn.next + 1 /\ c = sn.cum + 1
  <2>0. sn.cum \in Nat
    BY DEF Snap
  <2>1. sn.next + 1 \in Nat /\ sn.cum + 1 \in Nat
    BY <1>2, <2>0
  <2>2. (IF full THEN sn.oldest + 1 ELSE sn.oldest) \in Nat
    BY <1>2
  <2>3. QED BY <2>1, <2>2
<1>8. r = [sn EXCEPT !.segs = a, !.oldest = o, !.next = n, !.cum = c, !.disc = FALSE]
  <2>1. r = [sn EXCEPT !.segs = a,
                       !.oldest = IF full THEN sn.oldest + 1 ELSE sn.oldest,
                       !.next = sn.next + 1, !.cum = sn.cum + 1, !.disc = FALSE]
    BY DEF AppendSegment, Dropped, Snap
  <2>2. QED BY <1>7, <2>1
<1> HIDE DEF a, new, d
<1>9. r.segs = a /\ r.oldest = o /\ r.next = n /\ r.msn = sn.msn
  BY <1>8 DEF Snap
<1>10. PICK l \in Nat : l = Len(sn.segs) /\ sn.oldest + l = sn.next
  BY <1>2 DEF Whole
<1>11. Len(d) = IF full THEN l - 1 ELSE l
  BY <1>3, <1>10
<1>12. Whole(r) /\ r.oldest \in {sn.oldest, sn.oldest + 1}
  <2>1. PICK k \in Nat, q \in Nat, x \in Nat : k = Len(d) /\ q = sn.oldest /\ x = sn.next
    BY <1>2, <1>4
  <2>2. (o = q + 1 /\ k = l - 1) \/ (o = q /\ k = l)
    BY <1>7, <1>11, <2>1
  <2>3. n = x + 1 /\ q + l = x
    BY <1>7, <1>10, <2>1
  <2>4. o + (k + 1) = n /\ o \in {q, q + 1}
    BY <2>2, <2>3
  <2>5. Len(r.segs) = k + 1
    BY <1>5, <1>9, <2>1
  <2>6. QED BY <1>9, <2>1, <2>4, <2>5 DEF Whole
<1>13. Len(r.segs) \in Nat \ {0} /\ r.segs[Len(r.segs)].parts = parts
  BY <1>1, <1>4, <1>5, <1>9
<1>14. ASSUME NEW i \in 1..(Len(r.segs) - 1)
       PROVE  r.segs[i] = sn.segs[i + r.oldest - sn.oldest]
  <2>1. i \in 1..Len(d)
    BY <1>4, <1>5, <1>9
  <2>2. r.segs[i] = sn.segs[IF full THEN i + 1 ELSE i]
    BY <1>3, <1>5, <1>9, <2>1
  <2>3. i + r.oldest - sn.oldest = IF full THEN i + 1 ELSE i
    BY <1>2, <1>4, <1>7, <1>9, <2>1
  <2>4. QED BY <2>2, <2>3
<1>15. QED BY <1>6, <1>7, <1>9, <1>12, <1>13, <1>14

\* A whole segment leaves the live edge behind.
LEMMA StickFull ==
  ASSUME NEW sn \in Snap, NEW d \in Nat, NEW r, r = hls_push_segment_at(sn, d), Whole(sn)
  PROVE  r \in Snap /\ Whole(r) /\ Sticks(sn, r)
<1>1. PICK x \in Seq(Nat) : x = <<d>>
  <2>1. <<d>> \in Seq(Nat)
    OBVIOUS
  <2>2. QED BY <2>1
<1>2. r = AppendSegment(sn, x, 0) /\ 0 \in Nat
  BY <1>1 DEF hls_push_segment_at
<1>3. r \in Snap /\ Whole(r) /\ r.next = sn.next + 1 /\ r.msn = sn.msn
  BY <1>2, AppendWindow
<1>4. sn.next \in Nat
  BY DEF Snap
<1>5. ~(InStep(sn) /\ InStep(r))
  BY <1>3, <1>4 DEF InStep
<1>6. QED BY <1>3, <1>5 DEF Sticks

\* The parts in progress become a segment.
LEMMA StickSeg ==
  ASSUME NEW sn \in Snap, NEW r, r = hls_push_segment_ll_at(sn), Whole(sn)
  PROVE  r \in Snap /\ Whole(r) /\ Sticks(sn, r)
<1>1. PICK l \in Seq(Nat), k \in Nat : l = sn.live /\ k = Len(sn.live)
  BY LenProperties DEF Snap
<1>2. PICK a : a = AppendSegment(sn, l, k)
  OBVIOUS
<1>3. /\ a \in Snap /\ Whole(a) /\ a.next = sn.next + 1
      /\ a.oldest \in {sn.oldest, sn.oldest + 1} /\ Len(a.segs) \in Nat \ {0}
      /\ a.segs[Len(a.segs)].parts = k
      /\ \A i \in 1..(Len(a.segs) - 1) : a.segs[i] = sn.segs[i + a.oldest - sn.oldest]
  BY <1>2, AppendWindow
<1>4. PICK n \in Nat, e \in Seq(Nat) : n = sn.next + 1 /\ e = <<>>
  <2>1. sn.next + 1 \in Nat
    BY DEF Snap
  <2>2. <<>> \in Seq(Nat)
    OBVIOUS
  <2>3. QED BY <2>1, <2>2
<1>5. r = [a EXCEPT !.live = e, !.msn = n]
  BY <1>1, <1>2, <1>4 DEF hls_push_segment_ll_at
<1>6. r \in Snap /\ r.segs = a.segs /\ r.oldest = a.oldest /\ r.next = a.next /\ r.msn = n
  BY <1>3, <1>5 DEF Snap
<1>7. Whole(r)
  BY <1>3, <1>6 DEF Whole
<1>8. SUFFICES ASSUME sn.msn = sn.next, NEW seq \in sn.oldest..sn.next, NEW part \in -1..MaxParts,
                      hls_part_available(sn, seq, part), ~(seq < r.oldest)
               PROVE  hls_part_available(r, seq, part)
  BY <1>6, <1>7 DEF Sticks, InStep
<1>9. PICK x \in Nat, o \in Nat, p \in Nat, m \in Nat \ {0}, q \in Nat :
         /\ x = sn.next /\ o = sn.oldest /\ p = r.oldest /\ m = Len(r.segs) /\ q = Len(sn.segs)
  BY <1>3, <1>6, LenProperties DEF Snap
<1>10. /\ o + q = x /\ p + m = x + 1 /\ p \in {o, o + 1} /\ r.msn = x + 1 /\ sn.msn = x
       /\ seq \in Int /\ seq >= p /\ seq <= x /\ part \in Int
  BY <1>3, <1>4, <1>6, <1>7, <1>8, <1>9, SegSnapshotAssumption DEF Whole
<1>11. r.segs # <<>> /\ (\A s \in Int : s >= p /\ s <= x => InWindow(r, s))
  <2>1. r.segs # <<>>
    BY <1>3, <1>6
  <2>2. QED BY <1>9, <1>10, <2>1, SMTT(60) DEF InWindow
<1>12. r.msn # seq /\ InWindow(r, seq)
  BY <1>9, <1>10, <1>11
<1>13. CASE part < 0
  BY <1>9, <1>10, <1>13 DEF hls_part_available
<1>14. CASE ~(part < 0) /\ seq = x
  <2>1. Len(sn.live) > part
    BY <1>8, <1>10, <1>14 DEF hls_part_available
  <2>2. seq - r.oldest + 1 = Len(r.segs)
    <3>1. seq - p + 1 = m
      BY <1>10, <1>14
    <3>2. QED BY <1>9, <3>1
  <2>3. SegAt(r, seq).parts > part
    BY <1>1, <1>3, <1>6, <2>1, <2>2 DEF SegAt
  <2>4. QED BY <1>12, <1>14, <2>3 DEF hls_part_available
<1>15. CASE ~(part < 0) /\ seq < x
  <2>1. seq # sn.msn
    BY <1>9, <1>10, <1>15
  <2>2. SegAt(r, seq) = SegAt(sn, seq)
    <3>1. PICK i \in Int : i = seq - p + 1
      BY <1>9, <1>10
    <3>2. i \in 1..(Len(a.segs) - 1) /\ i + a.oldest - sn.oldest = seq - sn.oldest + 1
      <4>1. i >= 1 /\ i <= m - 1 /\ i + p - o = seq - o + 1
        BY <1>10, <1>15, <3>1
      <4>2. i \in 1..(m - 1)
        BY <4>1
      <4>3. Len(a.segs) = m /\ a.oldest = p /\ sn.oldest = o
        BY <1>6, <1>9
      <4>4. QED BY <4>1, <4>2, <4>3
    <3>3. r.segs[i] = sn.segs[seq - sn.oldest + 1]
      BY <1>3, <1>6, <3>2
    <3>4. QED BY <1>9, <3>1, <3>3 DEF SegAt
  <2>3. InWindow(r, seq + 1)
    <3>1. seq + 1 \in Int /\ seq + 1 >= p /\ seq + 1 <= x
      BY <1>10, <1>15
    <3>2. QED BY <1>11, <3>1
  <2>4. r.msn # seq + 1
    BY <1>9, <1>10, <1>15
  <2>5. PICK g : g = SegAt(sn, seq).parts
    OBVIOUS
  <2>6. g > part \/ (part = 0 /\ g = 0) \/ g = part
    BY <1>8, <1>15, <2>1, <2>5 DEF hls_part_available
  <2>7. QED BY <1>12, <1>15, <2>2, <2>3, <2>4, <2>5, <2>6 DEF hls_part_available
<1>16. QED BY <1>9, <1>10, <1>13, <1>14, <1>15

\* A break leaves the whole window behind.
LEMMA StickDisc ==
  ASSUME NEW sn \in Snap, NEW r, r = hls_store_discontinuity_at(sn), Whole(sn)
  PROVE  r \in Snap /\ Whole(r) /\ Sticks(sn, r)
<1>1. r \in Snap /\ r.segs = <<>> /\ r.next = sn.next + 1
  BY DiscFacts
<1>2. PICK n \in Nat : n = sn.next + 1 /\ sn.next \in Nat /\ sn.oldest \in Nat
  BY DEF Snap
<1>3. PICK s0, l0, m, e, b : /\ s0 = <<>> /\ l0 = <<>> /\ m = (IF sn.pt THEN sn.next + 1 ELSE sn.msn)
                             /\ e = sn.epoch + 1 /\ b = sn.cum
  OBVIOUS
<1>4. r = [sn EXCEPT !.segs = s0, !.live = l0, !.next = n, !.oldest = n, !.msn = m,
                     !.epoch = e, !.disc = TRUE, !.base = b]
  BY <1>2, <1>3 DEF hls_store_discontinuity_at, Snap
<1>5. r.oldest = n
  BY <1>4 DEF Snap
<1>6. Whole(r)
  <2>1. Len(r.segs) = 0
    BY <1>1
  <2>2. QED BY <1>1, <1>2, <1>5, <2>1 DEF Whole
<1>7. \A seq \in sn.oldest..sn.next : seq < r.oldest
  BY <1>2, <1>5
<1>8. QED BY <1>1, <1>6, <1>7 DEF Sticks

\* The switch to low latency, for a store that has it already.
LEMMA StickEnable ==
  ASSUME NEW sn \in Snap, NEW r, r = hls_llhls_enable(sn), Whole(sn)
  PROVE  r \in Snap /\ Whole(r) /\ Sticks(sn, r)
<1>1. r \in Snap /\ r.segs = sn.segs /\ r.next = sn.next /\ r.live = sn.live
  BY EnableFacts
<1>2. r.oldest = sn.oldest /\ r.msn = sn.next
  BY DEF hls_llhls_enable, Snap
<1>3. CASE InStep(sn)
  BY <1>1, <1>2, <1>3, StickSame DEF InStep
<1>4. CASE ~InStep(sn)
  BY <1>1, <1>2, <1>4 DEF Whole, Sticks
<1>5. QED BY <1>3, <1>4

\* What a step may make of the muxed store.
Stuck(sn, r) == r \in Snap /\ Whole(r) /\ Sticks(sn, r)
MuxedStep ==
    \/ M' \in {M, NoSnap}
    \/ Stuck(snap_clone(M, floor), M')

\* A snapshot the muxed store is cloned to has a whole window.
LEMMA CloneWhole ==
  ASSUME TypeOK, WindowOK
  PROVE  snap_clone(M, floor) \in Snap /\ Whole(snap_clone(M, floor))
<1>1. snap_clone(M, floor) \in Snap
  BY Stores
<1>2. CASE M = NoSnap
  <2>1. snap_clone(M, floor) = Fresh(floor) /\ floor \in Nat
    BY <1>2 DEF snap_clone, TypeOK
  <2>2. Fresh(floor).oldest = floor /\ Fresh(floor).next = floor /\ Len(Fresh(floor).segs) = 0
    BY DEF Fresh
  <2>3. QED BY <1>1, <2>1, <2>2 DEF Whole
<1>3. CASE M # NoSnap
  BY <1>1, <1>3 DEF WindowOK, Open, snap_clone
<1>4. QED BY <1>2, <1>3

\* Every write of the pump to the muxed store.
LEMMA StuckWrite ==
  ASSUME TypeOK, WindowOK,
         NEW op \in {"full", "part", "seg", "anchor", "init", "disc"}, OnM(op)
  PROVE  Stuck(snap_clone(M, floor), M')
<1>1. PICK sn \in Snap : sn = snap_clone(M, floor) /\ Whole(sn)
  BY CloneWhole
<1>2. PICK r : r = Write(op, sn)
  OBVIOUS
<1>3. M' = r
  BY <1>1, <1>2 DEF OnM, PublishM
<1>4. used.frags \in Nat /\ Wall \in Nat
  BY Stores
<1>5. CASE op = "full"
  <2>1. r = hls_push_segment_at(sn, used.frags)
    BY <1>2, <1>5, WriteCases
  <2>2. QED BY <1>1, <1>3, <1>4, <2>1, StickFull DEF Stuck
<1>6. CASE op = "part"
  <2>1. r = hls_push_part_at(sn, used.frags)
    BY <1>2, <1>6, WriteCases
  <2>2. QED BY <1>1, <1>3, <1>4, <2>1, StickPart DEF Stuck
<1>7. CASE op = "seg"
  <2>1. r = hls_push_segment_ll_at(sn)
    BY <1>2, <1>7, WriteCases
  <2>2. QED BY <1>1, <1>3, <2>1, StickSeg DEF Stuck
<1>8. CASE op = "anchor"
  <2>1. r = hls_store_anchor_at(sn, Wall)
    BY <1>2, <1>8, WriteCases
  <2>2. r \in Snap /\ r.segs = sn.segs /\ r.next = sn.next /\ r.live = sn.live
    BY <1>4, <2>1, AnchorFacts
  <2>3. r.oldest = sn.oldest /\ r.msn = sn.msn
    <3>1. PICK w : w = Wall
      OBVIOUS
    <3>2. r = sn \/ r = [sn EXCEPT !.avail = w]
      BY <2>1, <3>1 DEF hls_store_anchor_at
    <3>3. QED BY <3>2 DEF Snap
  <2>4. QED BY <1>1, <1>3, <2>2, <2>3, StickSame DEF Stuck
<1>9. CASE op = "init"
  <2>1. r = hls_set_init_segment_at(sn)
    BY <1>2, <1>9, WriteCases
  <2>2. r \in Snap /\ r.segs = sn.segs /\ r.next = sn.next /\ r.live = sn.live
    BY <2>1, InitFacts
  <2>3. r.oldest = sn.oldest /\ r.msn = sn.msn
    BY <2>1 DEF hls_set_init_segment_at, Snap
  <2>4. QED BY <1>1, <1>3, <2>2, <2>3, StickSame DEF Stuck
<1>10. CASE op = "disc"
  <2>1. r = hls_store_discontinuity_at(sn)
    BY <1>2, <1>10, WriteCases
  <2>2. QED BY <1>1, <1>3, <2>1, StickDisc DEF Stuck
<1>11. QED BY <1>5, <1>6, <1>7, <1>8, <1>9, <1>10

\* Every step leaves the muxed store alone, closes it or writes it.
LEMMA StepMuxed ==
  ASSUME IInv, WindowOK, [Next]_vars
  PROVE  MuxedStep
<1>1. PICK ph \in Phases : Plan(ph, todo) /\ Good(ph)
  BY DEF IInv
<1>2. TypeOK
  BY <1>1 DEF Good
<1>3. CASE PumpStep
  <2>1. PICK q : Moves(ph, q)
    BY <1>1, <1>3, PumpMoves
  <2>2. \/ M' = M
        \/ \E op \in {"full", "part", "seg", "anchor", "init", "disc"} : OnM(op)
    BY <2>1 DEF Moves, OnT, Read, Sync, Disc, PublishT
  <2>3. QED BY <1>2, <2>2, StuckWrite DEF MuxedStep
<1>4. CASE EnableStore
  <2>1. CASE PublishM(hls_llhls_enable(snap_clone(M, floor)))
    <3>1. PICK sn \in Snap : sn = snap_clone(M, floor) /\ Whole(sn)
      BY <1>2, CloneWhole
    <3>2. M' = hls_llhls_enable(sn)
      BY <2>1, <3>1 DEF PublishM
    <3>3. QED BY <3>1, <3>2, StickEnable DEF MuxedStep, Stuck
  <2>2. CASE M' = M
    BY <2>2 DEF MuxedStep
  <2>3. QED BY <1>4, <2>1, <2>2 DEF EnableStore, PublishT
<1>5. CASE TouchCreate \/ TouchLowLatency \/ fmp4_close_fragment \/ Anchor
  BY <1>5 DEF TouchCreate, TouchLowLatency, fmp4_close_fragment, Anchor, MuxedStep
<1>6. CASE try_create_fmux \/ relock_program \/ ForeignClose \/ UNCHANGED vars
  BY <1>6 DEF try_create_fmux, relock_program, ForeignClose, vars, MuxedStep
<1>7. CASE hls_store_close \/ CloseTrack
  BY <1>7 DEF hls_store_close, CloseTrack, MuxedStep
<1>8. QED BY <1>3, <1>4, <1>5, <1>6, <1>7 DEF Next

\* The window stays whole.
LEMMA WindowStep ==
  ASSUME IInv, WindowOK, [Next]_vars
  PROVE  WindowOK'
<1>1. MuxedStep
  BY StepMuxed
<1>2. CASE M' \in {M, NoSnap}
  BY <1>2 DEF WindowOK, Open
<1>3. CASE Stuck(snap_clone(M, floor), M')
  BY <1>3 DEF Stuck, WindowOK
<1>4. QED BY <1>1, <1>2, <1>3 DEF MuxedStep

\* What AvailableSticks says of a step.
StickStep == Open(M) /\ Open(M') => Sticks(M, M')

\* What was available stays available in every step.
LEMMA StickNext ==
  ASSUME IInv, WindowOK, [Next]_vars
  PROVE  StickStep
<1>1. MuxedStep
  BY StepMuxed
<1>2. CASE M' \in {M, NoSnap}
  BY <1>2 DEF StickStep, Sticks, Open
<1>3. CASE Stuck(snap_clone(M, floor), M')
  <2>1. Open(M) => snap_clone(M, floor) = M
    BY DEF Open, snap_clone
  <2>2. QED BY <1>3, <2>1 DEF Stuck, StickStep
<1>4. QED BY <1>1, <1>2, <1>3 DEF MuxedStep

\* A part that a low latency reader was told is available stays available until
\* its segment leaves the window, wherever the live edge is in step
\* (hls_part_available), for every window and part limit: through parts,
\* segments, breaks and the switch to low latency by another thread.
THEOREM AvailableSticksCorrect == Spec => AvailableSticks
<1>1. Init => WindowOK
  BY DEF Init, WindowOK, Open
<1>2. IInv /\ WindowOK /\ [Next]_vars => WindowOK'
  BY WindowStep
<1>3. IInv /\ WindowOK /\ [Next]_vars =>
        [Open(M) /\ Open(M') /\ M.pt /\ InStep(M) /\ InStep(M') =>
           \A seq \in M.oldest..M.next, part \in -1..MaxParts :
              hls_part_available(M, seq, part) =>
                 hls_part_available(M', seq, part) \/ seq < M'.oldest]_vars
  BY StickNext DEF StickStep, Sticks
<1>4. QED BY <1>1, <1>2, <1>3, Invariant, PTL DEF Spec, AvailableSticks
=============================================================================
