--------------------------- MODULE SegStoreProofs ---------------------------
(***************************************************************************)
(* Proofs about SegStore, for any number of workers, slots, keys and       *)
(* snapshots.  The argument is the one of quiescent states: a mark is      *)
(* taken after the pointer is gone from where workers find it, so a worker *)
(* that still refers to what the pointer led to was online at the mark and *)
(* has not moved since.                                                    *)
(***************************************************************************)
EXTENDS SegStore, FiniteSetTheorems, FunctionTheorems, TLAPS

AllNodes == nodes \cup Swept

WkRec == [phase : {"top", "wait", "batch"}, at : Slots \cup {None}, key : Keys \cup {NoKey},
          held : SUBSET Snaps, old : Snaps \cup {NoSnap}]
SlotRec == [st : {"FREE", "OPEN", "CLOSING"}, key : Keys \cup {NoKey},
            snap : Snaps \cup {NoSnap}, fed : BOOLEAN,
            retiring : SUBSET [snap : Snaps, mark : Marks]]
PumpRec == [key : Keys \cup {NoKey}, at : Slots \cup {None}, busy : BOOLEAN, old : Snaps \cup {NoSnap}]
MaintRec == [pc : {"idle", "wait", "claimed", "taken"}, key : Keys \cup {NoKey},
             at : Slots \cup {None}, snaps : SUBSET Snaps]
SweepRec == [on : BOOLEAN, chain : SUBSET Node, keep : SUBSET Node]

\* The variables' types without the bound on the retiring array.
Types ==
    /\ v \in [Workers -> Nat] /\ wk \in [Workers -> WkRec] /\ slot \in [Slots -> SlotRec]
    /\ pump \in PumpRec /\ maint \in MaintRec /\ nodes \in SUBSET Node
    /\ sweep \in [Sweepers -> SweepRec] /\ live \in SUBSET Snaps /\ leaked \in SUBSET Snaps

\* The retiring array has room for its entries.
RoomOK == \A s \in Slots : /\ IsFiniteSet(slot[s].retiring)
                           /\ Cardinality(slot[s].retiring) <= HLS_SNAP_RETIRE_DEPTH

\* The owners O own every snapshot of L, and each only once.
Unique(O, L) ==
    /\ \A o \in O : o[3] \in L
    /\ \A x \in L : \E o \in O : o[3] = x
    /\ \A o, p \in O : o[3] = p[3] => o = p

\* A store retires a snapshot once.
RetiringOnce == \A s \in Slots : \A e, f \in slot[s].retiring : e.snap = f.snap => e = f

\* A node is on the list, in the chain of one sweep or kept by it.
NodePlaces ==
    /\ \A t \in Sweepers : /\ nodes \cap (sweep[t].chain \cup sweep[t].keep) = {}
                           /\ sweep[t].chain \cap sweep[t].keep = {}
                           /\ ~sweep[t].on => sweep[t].chain = {} /\ sweep[t].keep = {}
    /\ \A t, u \in Sweepers : t # u =>
         (sweep[t].chain \cup sweep[t].keep) \cap (sweep[u].chain \cup sweep[u].keep) = {}

MaintAt(s) == maint.pc \in {"claimed", "taken"} /\ maint.at = s

\* Where the threads stand determines what they refer to.
ThreadsOK ==
    /\ pump.key # NoKey => pump.at \in Slots
    /\ pump.busy => pump.key # NoKey
    /\ ~pump.busy => pump.old = NoSnap
    /\ maint.pc \in {"claimed", "taken"} => maint.at \in Slots
    /\ maint.pc # "taken" => maint.snaps = {}
    /\ \A w \in Workers :
         /\ wk[w].phase # "batch" => wk[w].at = None /\ wk[w].held = {} /\ wk[w].old = NoSnap
         /\ wk[w].phase = "batch" => v[w] % 2 = 1

\* A slot is closing exactly while maintenance or one node is to free it.
ClosingOK ==
    \A s \in Slots :
      /\ slot[s].st # "CLOSING" => ~MaintAt(s) /\ \A n \in AllNodes : n.idx # s
      /\ slot[s].st = "CLOSING" => MaintAt(s) \/ \E n \in AllNodes : n.idx = s
      /\ MaintAt(s) => \A n \in AllNodes : n.idx # s
      /\ \A n, m \in AllNodes : n.idx = s /\ m.idx = s => n = m

\* What a worker has loaded waits for that worker wherever it is retired.
HeldOK ==
    \A w \in Workers : \A x \in wk[w].held :
      /\ x \in live
      /\ \A s \in Slots : \A e \in slot[s].retiring : e.snap = x => ~slot_passed(e.mark, w)
      /\ \A n \in AllNodes : x \in n.snaps => ~slot_passed(n.mark, w)

\* The store a worker has found waits for that worker before it is freed.
AtOK ==
    \A w \in Workers : wk[w].at # None =>
      /\ slot[wk[w].at].key = wk[w].key /\ slot[wk[w].at].st # "FREE"
      /\ \A n \in AllNodes : n.idx = wk[w].at => ~slot_passed(n.mark, w)

IInv == /\ Types /\ RoomOK /\ Unique(Owned, live) /\ RetiringOnce /\ NodePlaces
        /\ ThreadsOK /\ ClosingOK /\ HeldOK /\ AtOK

-----------------------------------------------------------------------------
(* Facts about owners.                                                     *)

\* Owners R give up what they own, owners A take it over or own something
\* that nobody owned before.
LEMMA MoveOwners ==
  ASSUME NEW O, NEW L, Unique(O, L), NEW R \in SUBSET O, NEW A,
         \A a, b \in A : a[3] = b[3] => a = b,
         \A a \in A : a[3] \notin L \/ \E r \in R : r[3] = a[3],
         NEW P, \A o : o \in P <=> (o \in O /\ o \notin R) \/ o \in A,
         NEW M, \A x : x \in M <=> (x \in L /\ \A r \in R : r[3] # x) \/ \E a \in A : a[3] = x
  PROVE  Unique(P, M)
<1>1. ASSUME NEW o \in P PROVE o[3] \in M
  BY DEF Unique
<1>2. ASSUME NEW x \in M PROVE \E o \in P : o[3] = x
  BY DEF Unique
<1>3. ASSUME NEW o \in P, NEW q \in P, o[3] = q[3] PROVE o = q
  BY <1>3 DEF Unique
<1>4. QED BY <1>1, <1>2, <1>3 DEF Unique

\* An owner says in its first component what kind of place it is.
LEMMA OwnerKinds ==
  /\ \A o \in InSlot : o[1] = "slot"
  /\ \A o \in InRetiring : o[1] = "retiring"
  /\ \A o \in InOld : o[1] = "old"
  /\ \A o \in InPump : o[1] = "pump"
  /\ \A o \in InClose : o[1] = "close"
  /\ \A o \in InNode : o[1] = "node"
  /\ \A o \in InLeaked : o[1] = "leaked"
BY DEF InSlot, InRetiring, InOld, InPump, InClose, InNode, InLeaked

\* Steps that leave alone what the owners have keep the owners.
LEMMA KeepOwned ==
  ASSUME \A s \in Slots : slot'[s].snap = slot[s].snap /\ slot'[s].retiring = slot[s].retiring,
         leaked' = leaked, AllNodes' = AllNodes, maint'.snaps = maint.snaps,
         pump.old' = pump.old, \A w \in Workers : wk'[w].old = wk[w].old
  PROVE  Owned' = Owned
<1>1. InSlot' = InSlot
  BY DEF InSlot
<1>2. InRetiring' = InRetiring
  BY DEF InRetiring
<1>3. InOld' = InOld
  BY DEF InOld
<1>4. InPump' = InPump /\ InClose' = InClose /\ InLeaked' = InLeaked
  BY DEF InPump, InClose, InLeaked, Ptr
<1>5. InNode' = InNode
  BY DEF InNode, AllNodes
<1>6. QED BY <1>1, <1>2, <1>3, <1>4, <1>5 DEF Owned

\* Where a node can be, before and after a step.
LEMMA NodeMember ==
  /\ \A n : n \in AllNodes <=> n \in nodes \/ \E t \in Sweepers : n \in sweep[t].chain \/ n \in sweep[t].keep
  /\ \A n : n \in AllNodes' <=> n \in nodes' \/ \E t \in Sweepers : n \in sweep'[t].chain \/ n \in sweep'[t].keep
BY DEF AllNodes, Swept

\* Every node is one.
LEMMA NodeType == ASSUME Types PROVE AllNodes \subseteq Node
<1>1. SUFFICES ASSUME NEW n \in AllNodes PROVE n \in Node
  OBVIOUS
<1>2. \A t \in Sweepers : sweep[t].chain \subseteq Node /\ sweep[t].keep \subseteq Node
  BY DEF Types, SweepRec
<1>3. nodes \subseteq Node
  BY DEF Types
<1>4. QED BY <1>2, <1>3, NodeMember

-----------------------------------------------------------------------------
(* Steps of a thread that only move the thread.                            *)

\* Nothing is allocated, retired or freed: the shared part of the invariant
\* stays as it is.
LEMMA QuietStep ==
  ASSUME IInv, UNCHANGED <<slot, maint, nodes, sweep, live, leaked>>,
         pump.old' = pump.old, \A w \in Workers : wk'[w].old = wk[w].old
  PROVE  /\ AllNodes' = AllNodes
         /\ RoomOK' /\ Unique(Owned, live)' /\ RetiringOnce' /\ NodePlaces' /\ ClosingOK'
<1>1. AllNodes' = AllNodes
  BY DEF AllNodes, Swept
<1>2. Owned' = Owned
  BY <1>1, KeepOwned
<1>3. Unique(Owned, live)'
  BY <1>2 DEF IInv, Unique
<1>4. RoomOK' /\ RetiringOnce'
  BY DEF IInv, RoomOK, RetiringOnce
<1>5. NodePlaces'
  BY DEF IInv, NodePlaces
<1>6. ClosingOK'
  BY <1>1 DEF IInv, ClosingOK, MaintAt
<1>7. QED BY <1>1, <1>3, <1>4, <1>5, <1>6

\* A worker that moves lets go of what it refers to; the others' references
\* are as good as before.
LEMMA MoveStep ==
  ASSUME IInv, Types', NEW w \in Workers,
         UNCHANGED <<slot, pump, maint, nodes, sweep, live, leaked>>,
         \A x \in Workers \ {w} : v'[x] = v[x] /\ wk'[x] = wk[x],
         wk[w].old = NoSnap, wk'[w].old = NoSnap, wk'[w].held = {}, wk'[w].at = None,
         wk'[w].phase = "batch" => v'[w] % 2 = 1
  PROVE  IInv'
<1>1. \A x \in Workers : wk'[x].old = wk[x].old
  OBVIOUS
<1>2. /\ AllNodes' = AllNodes
      /\ RoomOK' /\ Unique(Owned, live)' /\ RetiringOnce' /\ NodePlaces' /\ ClosingOK'
  BY <1>1, QuietStep
<1>3. ThreadsOK'
  BY DEF IInv, ThreadsOK
<1>4. HeldOK'
  BY <1>2 DEF IInv, HeldOK, slot_passed
<1>5. AtOK'
  BY <1>2 DEF IInv, AtOK, slot_passed
<1>6. QED BY <1>2, <1>3, <1>4, <1>5 DEF IInv

\* The worker is not in a batch and refers to nothing.
LEMMA OfflineStep ==
  ASSUME IInv, NEW w \in Workers, qsbr_worker_offline(w)
  PROVE  IInv'
<1>1. Types'
  <2>1. v' \in [Workers -> Nat]
    BY DEF IInv, Types, qsbr_worker_offline
  <2>2. wk' \in [Workers -> WkRec]
    BY DEF IInv, Types, WkRec, qsbr_worker_offline
  <2>3. QED BY <2>1, <2>2 DEF IInv, Types, qsbr_worker_offline
<1>2. \A x \in Workers \ {w} : v'[x] = v[x] /\ wk'[x] = wk[x]
  BY DEF IInv, Types, WkRec, SlotRec, PumpRec, qsbr_worker_offline
<1>3. /\ wk[w].old = NoSnap /\ wk'[w].old = NoSnap
      /\ wk'[w].held = {} /\ wk'[w].at = None /\ wk'[w].phase = "wait"
  BY DEF IInv, Types, WkRec, SlotRec, PumpRec, ThreadsOK, qsbr_worker_offline
<1>4. QED BY <1>1, <1>2, <1>3, MoveStep DEF qsbr_worker_offline

\* A worker comes back on line after its wait.
LEMMA OnlineStep ==
  ASSUME IInv, NEW w \in Workers, qsbr_worker_online(w)
  PROVE  IInv'
<1>1. PICK phase \in {"batch", "top"} : wk' = [wk EXCEPT ![w].phase = phase]
  BY DEF qsbr_worker_online
<1>2. Types'
  <2>1. v' \in [Workers -> Nat]
    BY DEF IInv, Types, qsbr_worker_online
  <2>2. wk' \in [Workers -> WkRec]
    BY <1>1 DEF IInv, Types, WkRec
  <2>3. QED BY <2>1, <2>2 DEF IInv, Types, qsbr_worker_online
<1>3. \A x \in Workers \ {w} : v'[x] = v[x] /\ wk'[x] = wk[x]
  BY <1>1 DEF IInv, Types, WkRec, SlotRec, PumpRec, qsbr_worker_online
<1>4. /\ wk[w].old = NoSnap /\ wk'[w].old = NoSnap
      /\ wk'[w].held = {} /\ wk'[w].at = None
  BY <1>1 DEF IInv, Types, WkRec, SlotRec, PumpRec, ThreadsOK, qsbr_worker_online
<1>5. v'[w] % 2 = 1
  <2>1. v[w] \in Nat /\ v'[w] = IF v[w] % 2 = 1 THEN v[w] ELSE v[w] + 1
    BY DEF IInv, Types, WkRec, SlotRec, PumpRec, qsbr_worker_online, Online
  <2>2. QED BY <2>1
<1>6. QED BY <1>2, <1>3, <1>4, <1>5, MoveStep DEF qsbr_worker_online

\* A worker is quiescent: it has let go of everything it had loaded.
LEMMA QuiescentStep ==
  ASSUME IInv, NEW w \in Workers, qsbr_worker_quiescent(w)
  PROVE  IInv'
<1>1. Types'
  BY DEF IInv, Types, WkRec, SlotRec, PumpRec, qsbr_worker_quiescent, IdleWorker, NoKey, None, NoSnap
<1>2. \A x \in Workers \ {w} : v'[x] = v[x] /\ wk'[x] = wk[x]
  BY DEF IInv, Types, WkRec, SlotRec, PumpRec, qsbr_worker_quiescent
<1>3. /\ wk[w].old = NoSnap /\ wk'[w].old = NoSnap
      /\ wk'[w].held = {} /\ wk'[w].at = None /\ wk'[w].phase = "top"
  BY DEF IInv, Types, WkRec, SlotRec, PumpRec, Batch, qsbr_worker_quiescent, IdleWorker
<1>4. QED BY <1>1, <1>2, <1>3, MoveStep DEF qsbr_worker_quiescent

\* An open store has no node on its way.
LEMMA FindStep ==
  ASSUME IInv, NEW w \in Workers, NEW k \in Keys, hls_store_find(w, k)
  PROVE  IInv'
<1>1. PICK s \in Slots : /\ slot[s].st = "OPEN" /\ slot[s].key = k
                         /\ wk' = [wk EXCEPT ![w].at = s, ![w].key = k]
  BY DEF hls_store_find
<1>2. UNCHANGED <<v, slot, pump, maint, nodes, sweep, live, leaked>>
  BY DEF hls_store_find
<1>3. Types'
  <2>1. [wk[w] EXCEPT !.at = s, !.key = k] \in WkRec
    BY DEF IInv, Types, WkRec
  <2>2. wk' = [wk EXCEPT ![w] = [wk[w] EXCEPT !.at = s, !.key = k]]
    BY <1>1 DEF IInv, Types
  <2>3. wk' \in [Workers -> WkRec]
    BY <2>1, <2>2 DEF IInv, Types
  <2>4. QED BY <1>2, <2>3 DEF IInv, Types
<1>4. \A x \in Workers : /\ wk'[x].old = wk[x].old /\ wk'[x].held = wk[x].held
                         /\ wk'[x].phase = wk[x].phase
                         /\ x # w => wk'[x].at = wk[x].at /\ wk'[x].key = wk[x].key
                         /\ x = w => wk'[x].at = s /\ wk'[x].key = k
  BY <1>1 DEF IInv, Types, WkRec, SlotRec, PumpRec
<1>5. /\ AllNodes' = AllNodes
      /\ RoomOK' /\ Unique(Owned, live)' /\ RetiringOnce' /\ NodePlaces' /\ ClosingOK'
  BY <1>2, <1>4, QuietStep
<1>6. ThreadsOK'
  BY <1>2, <1>4 DEF IInv, ThreadsOK, hls_store_find, Batch
<1>7. HeldOK'
  BY <1>2, <1>4, <1>5 DEF IInv, HeldOK, slot_passed
<1>8. AtOK'
  <2>1. \A n \in AllNodes : n.idx # s
    BY <1>1 DEF IInv, ClosingOK
  <2>2. ASSUME NEW x \in Workers, wk'[x].at # None PROVE
          /\ slot[wk'[x].at].key = wk'[x].key /\ slot[wk'[x].at].st # "FREE"
          /\ \A n \in AllNodes : n.idx = wk'[x].at => ~slot_passed(n.mark, x)
    <3>1. CASE x = w
      BY <1>1, <1>4, <2>1, <3>1
    <3>2. CASE x # w
      BY <1>4, <2>2, <3>2 DEF IInv, AtOK
    <3>3. QED BY <3>1, <3>2
  <2>3. QED BY <1>2, <1>5, <2>2 DEF AtOK, slot_passed
<1>9. QED BY <1>3, <1>5, <1>6, <1>7, <1>8 DEF IInv

\* The snapshot a store publishes is owned by the store, so no array and no
\* node has it.
LEMMA SlotOwns ==
  ASSUME IInv, NEW s \in Slots, slot[s].snap # NoSnap
  PROVE  /\ slot[s].snap \in live
         /\ \A t \in Slots : \A e \in slot[t].retiring : e.snap # slot[s].snap
         /\ \A n \in AllNodes : slot[s].snap \notin n.snaps
<1> DEFINE o == <<"slot", s, slot[s].snap>>
<1>1. o \in Owned /\ o[1] = "slot" /\ o[3] = slot[s].snap
  BY DEF Owned, InSlot
<1>2. ASSUME NEW t \in Slots, NEW e \in slot[t].retiring PROVE e.snap # slot[s].snap
  <2>1. <<"retiring", t, e.snap>> \in Owned
    BY DEF Owned, InRetiring
  <2>2. QED BY <1>1, <2>1 DEF IInv, Unique
<1>3. ASSUME NEW n \in AllNodes PROVE slot[s].snap \notin n.snaps
  <2>1. SUFFICES ASSUME slot[s].snap \in n.snaps PROVE FALSE
    OBVIOUS
  <2>2. <<"node", n, slot[s].snap>> \in Owned
    BY <2>1 DEF Owned, InNode, AllNodes
  <2>3. QED BY <1>1, <2>2 DEF IInv, Unique
<1>4. slot[s].snap \in live
  BY <1>1 DEF IInv, Unique
<1>5. QED BY <1>2, <1>3, <1>4

\* A worker loads the snapshot of the store it has found; it is published, so not retired.
LEMMA LoadSnapStep ==
  ASSUME IInv, NEW w \in Workers, LoadSnap(w)
  PROVE  IInv'
<1> DEFINE s == wk[w].at
<1>1. s \in Slots /\ slot[s].snap # NoSnap /\ slot[s].snap \in Snaps
  BY DEF IInv, Types, WkRec, SlotRec, PumpRec, LoadSnap
<1>2. UNCHANGED <<v, slot, pump, maint, nodes, sweep, live, leaked>>
  BY DEF LoadSnap
<1>3. Types'
  <2>1. [wk[w] EXCEPT !.held = @ \cup {slot[s].snap}] \in WkRec
    BY <1>1 DEF IInv, Types, WkRec
  <2>2. wk' \in [Workers -> WkRec]
    BY <2>1 DEF IInv, Types, LoadSnap
  <2>3. QED BY <1>2, <2>2 DEF IInv, Types
<1>4. \A x \in Workers : /\ wk'[x].old = wk[x].old /\ wk'[x].at = wk[x].at
                         /\ wk'[x].phase = wk[x].phase /\ wk'[x].key = wk[x].key
                         /\ x # w => wk'[x].held = wk[x].held
  BY DEF IInv, Types, WkRec, SlotRec, PumpRec, LoadSnap
<1>5. wk'[w].held = wk[w].held \cup {slot[s].snap}
  BY DEF IInv, Types, WkRec, SlotRec, PumpRec, LoadSnap
<1>6. /\ AllNodes' = AllNodes
      /\ RoomOK' /\ Unique(Owned, live)' /\ RetiringOnce' /\ NodePlaces' /\ ClosingOK'
  BY <1>2, <1>4, QuietStep
<1>7. ThreadsOK'
  BY <1>2, <1>4, <1>5 DEF IInv, ThreadsOK, LoadSnap, Batch
<1>8. HeldOK'
  <2>1. /\ slot[s].snap \in live
        /\ \A t \in Slots : \A e \in slot[t].retiring : e.snap # slot[s].snap
        /\ \A n \in AllNodes : slot[s].snap \notin n.snaps
    BY <1>1, SlotOwns
  <2>2. QED BY <1>2, <1>4, <1>5, <1>6, <2>1 DEF IInv, HeldOK, slot_passed
<1>9. AtOK'
  BY <1>2, <1>4, <1>6 DEF IInv, AtOK, slot_passed
<1>10. QED BY <1>3, <1>6, <1>7, <1>8, <1>9 DEF IInv

\* The pump takes a store and lets it go.
LEMMA FeedStartStep ==
  ASSUME IInv, NEW s \in Slots, FeedStart(s)
  PROVE  IInv'
<1>1. /\ UNCHANGED <<v, wk, slot, maint, nodes, sweep, live, leaked>>
      /\ pump'.old = pump.old /\ pump'.busy = pump.busy /\ pump'.at = s
  BY DEF IInv, Types, WkRec, SlotRec, PumpRec, FeedStart
<1>2. Types'
  BY DEF IInv, Types, WkRec, SlotRec, PumpRec, FeedStart
<1>3. /\ AllNodes' = AllNodes
      /\ RoomOK' /\ Unique(Owned, live)' /\ RetiringOnce' /\ NodePlaces' /\ ClosingOK'
  BY <1>1, QuietStep
<1>4. ~pump.busy
  BY DEF IInv, ThreadsOK, FeedStart
<1>5. ThreadsOK'
  BY <1>1, <1>4 DEF IInv, ThreadsOK
<1>6. HeldOK' /\ AtOK'
  BY <1>1, <1>3 DEF IInv, HeldOK, AtOK, slot_passed
<1>7. QED BY <1>2, <1>3, <1>5, <1>6 DEF IInv

\* The pump ends a feed, with nothing left to retire.
LEMMA FeedEndStep == ASSUME IInv, FeedEnd PROVE IInv'
<1>1. /\ UNCHANGED <<v, wk, slot, maint, nodes, sweep, live, leaked>>
      /\ pump'.old = NoSnap /\ pump.old = NoSnap /\ ~pump'.busy /\ pump'.key = NoKey
  BY DEF IInv, ThreadsOK, FeedEnd, IdlePump
<1>2. Types'
  BY DEF IInv, Types, WkRec, SlotRec, PumpRec, FeedEnd, IdlePump
<1>3. /\ AllNodes' = AllNodes
      /\ RoomOK' /\ Unique(Owned, live)' /\ RetiringOnce' /\ NodePlaces' /\ ClosingOK'
  BY <1>1, QuietStep
<1>4. ThreadsOK'
  BY <1>1 DEF IInv, ThreadsOK
<1>5. HeldOK' /\ AtOK'
  BY <1>1, <1>3 DEF IInv, HeldOK, AtOK, slot_passed
<1>6. QED BY <1>2, <1>3, <1>4, <1>5 DEF IInv

-----------------------------------------------------------------------------
(* Publishing: the store's snapshot is replaced, the thread that replaced  *)
(* it is about to retire the old one.                                      *)

\* The new owners B of the replaced snapshot and the store's new snapshot.
LEMMA PublishUnique ==
  ASSUME IInv, NEW s \in Slots, NEW ns \in Snaps \ live,
         live' = live \cup {ns}, slot' = [slot EXCEPT ![s].snap = ns],
         InClose' = InClose, InLeaked' = InLeaked, InNode' = InNode,
         NEW B, InOld' \cup InPump' = InOld \cup InPump \cup B,
         \A b \in B : b[3] = slot[s].snap /\ slot[s].snap # NoSnap,
         slot[s].snap # NoSnap => B # {}, \A b, c \in B : b = c
  PROVE  Unique(Owned, live)'
<1> DEFINE R == {o \in InSlot : o[2] = s}
           A == {<<"slot", s, ns>>} \cup B
<1>1. ns # NoSnap /\ \A x \in live : x # ns
  BY SegStoreAssumption DEF NoSnap
<1>2. \A t \in Slots : slot'[t].retiring = slot[t].retiring /\ slot'[t].snap = (IF t = s THEN ns ELSE slot[t].snap)
  BY DEF IInv, Types, SlotRec
<1>3. InRetiring' = InRetiring
  BY <1>2 DEF InRetiring
<1>4. \A o : o \in InSlot' <=> (o \in InSlot /\ o \notin R) \/ o = <<"slot", s, ns>>
  <2>1. ASSUME NEW o \in InSlot' PROVE (o \in InSlot /\ o \notin R) \/ o = <<"slot", s, ns>>
    <3>1. PICK t \in Slots : slot'[t].snap # NoSnap /\ o = <<"slot", t, slot'[t].snap>>
      BY DEF InSlot
    <3>2. QED BY <1>2, <3>1 DEF InSlot
  <2>2. ASSUME NEW o \in InSlot, o \notin R PROVE o \in InSlot'
    <3>1. PICK t \in Slots : slot[t].snap # NoSnap /\ o = <<"slot", t, slot[t].snap>>
      BY DEF InSlot
    <3>2. t # s
      BY <2>2, <3>1
    <3>3. QED BY <1>2, <3>1, <3>2 DEF InSlot
  <2>3. <<"slot", s, ns>> \in InSlot'
    BY <1>1, <1>2 DEF InSlot
  <2>4. QED BY <2>1, <2>2, <2>3
<1>5. R \subseteq Owned /\ \A r \in R : r[1] = "slot" /\ r[3] = slot[s].snap
  <2>1. R \subseteq Owned
    BY DEF Owned
  <2>2. ASSUME NEW r \in R PROVE r[1] = "slot" /\ r[3] = slot[s].snap
    BY DEF InSlot
  <2>3. QED BY <2>1, <2>2
<1>6. slot[s].snap # NoSnap => \E r \in R : r[3] = slot[s].snap
  <2>1. slot[s].snap # NoSnap => <<"slot", s, slot[s].snap>> \in R
    BY DEF InSlot
  <2>2. QED BY <2>1
<1>7. \A a, b \in A : a[3] = b[3] => a = b
  <2>1. \A b \in B : b[3] # ns
    <3>1. slot[s].snap # NoSnap => slot[s].snap \in live
      BY SlotOwns
    <3>2. QED BY <1>1, <3>1
  <2>2. <<"slot", s, ns>>[3] = ns
    OBVIOUS
  <2>3. QED BY <2>1, <2>2
<1>8. \A a \in A : a[3] \notin live \/ \E r \in R : r[3] = a[3]
  BY <1>1, <1>6
<1>9. \A o : o \in Owned' <=> (o \in Owned /\ o \notin R) \/ o \in A
  <2>1. \A o : o \in Owned' <=> o \in InSlot' \/ o \in InRetiring \/ o \in InClose \/ o \in InLeaked
                                \/ o \in InNode \/ o \in InOld \/ o \in InPump \/ o \in B
    BY <1>3 DEF Owned
  <2>2. \A o : o \in Owned <=> o \in InSlot \/ o \in InRetiring \/ o \in InClose \/ o \in InLeaked
                               \/ o \in InNode \/ o \in InOld \/ o \in InPump
    BY DEF Owned
  <2>3. \A o \in R : /\ o \notin InRetiring /\ o \notin InClose /\ o \notin InLeaked
                     /\ o \notin InNode /\ o \notin InOld /\ o \notin InPump
    BY <1>5, OwnerKinds
  <2>4. QED BY <1>4, <2>1, <2>2, <2>3
<1>10. \A x : x \in live' <=> (x \in live /\ \A r \in R : r[3] # x) \/ \E a \in A : a[3] = x
  <2>1. ASSUME NEW x \in live' PROVE (x \in live /\ \A r \in R : r[3] # x) \/ \E a \in A : a[3] = x
    <3>1. CASE x = ns
      <4>1. <<"slot", s, ns>>[3] = ns
        OBVIOUS
      <4>2. QED BY <3>1, <4>1
    <3>2. CASE x \in live /\ \E r \in R : r[3] = x
      <4>1. x = slot[s].snap
        BY <1>5, <3>2
      <4>2. slot[s].snap # NoSnap
        BY <4>1, <3>2, SegStoreAssumption DEF IInv, Types, NoSnap
      <4>3. QED BY <4>1, <4>2
    <3>3. QED BY <3>1, <3>2
  <2>2. ASSUME NEW a \in A PROVE a[3] \in live'
    <3>1. slot[s].snap # NoSnap => slot[s].snap \in live
      BY SlotOwns
    <3>2. QED BY <3>1
  <2>3. QED BY <2>1, <2>2
<1> HIDE DEF R, A
<1>11. QED BY <1>5, <1>7, <1>8, <1>9, <1>10, MoveOwners DEF IInv, Unique

\* The rest of the invariant does not look at what a store publishes.
LEMMA PublishRest ==
  ASSUME IInv, NEW s \in Slots, NEW ns \in Snaps \ live,
         live' = live \cup {ns}, slot' = [slot EXCEPT ![s].snap = ns],
         UNCHANGED <<v, maint, nodes, sweep>>,
         \A w \in Workers : /\ wk'[w].held = wk[w].held /\ wk'[w].at = wk[w].at
                            /\ wk'[w].key = wk[w].key
  PROVE  RoomOK' /\ RetiringOnce' /\ NodePlaces' /\ ClosingOK' /\ HeldOK' /\ AtOK'
<1>1. \A t \in Slots : /\ slot'[t].retiring = slot[t].retiring
                       /\ slot'[t].st = slot[t].st /\ slot'[t].key = slot[t].key
  BY DEF IInv, Types, SlotRec
<1>2. AllNodes' = AllNodes
  BY DEF AllNodes, Swept
<1>3. RoomOK' /\ RetiringOnce'
  BY <1>1 DEF IInv, RoomOK, RetiringOnce
<1>4. NodePlaces'
  BY DEF IInv, NodePlaces
<1>5. ClosingOK'
  BY <1>1, <1>2 DEF IInv, ClosingOK, MaintAt
<1>6. HeldOK'
  BY <1>1, <1>2 DEF IInv, HeldOK, slot_passed
<1>7. AtOK'
  <2>1. \A w \in Workers : wk[w].at # None => wk[w].at \in Slots
    BY DEF IInv, Types, WkRec
  <2>2. QED BY <1>1, <1>2, <2>1 DEF IInv, AtOK, slot_passed
<1>8. QED BY <1>3, <1>4, <1>5, <1>6, <1>7

\* A worker replaces a snapshot with a low latency one.
LEMMA EnableStep ==
  ASSUME IInv, NEW w \in Workers, hls_llhls_enable(w)
  PROVE  IInv'
<1> DEFINE s == wk[w].at
<1>1. s \in Slots /\ Batch(w) /\ wk[w].old = NoSnap /\ slot[s] \in SlotRec
  BY DEF IInv, Types, WkRec, hls_llhls_enable, Batch
<1>2. PICK ns \in Snaps \ live : live' = live \cup {ns} /\ slot' = [slot EXCEPT ![s].snap = ns]
  BY DEF hls_llhls_enable, Publish
<1>3. /\ UNCHANGED <<v, pump, maint, nodes, sweep, leaked>>
      /\ wk' = [wk EXCEPT ![w].old = slot[s].snap]
  BY DEF hls_llhls_enable
<1>4. Types'
  <2>1. slot[s].snap \in Snaps \cup {NoSnap}
    BY <1>1 DEF SlotRec
  <2>2. wk' \in [Workers -> WkRec]
    BY <1>3, <2>1 DEF IInv, Types, WkRec
  <2>3. slot' \in [Slots -> SlotRec]
    <3>1. [slot[s] EXCEPT !.snap = ns] \in SlotRec
      BY <1>1 DEF SlotRec
    <3>2. QED BY <1>2, <3>1 DEF IInv, Types
  <2>4. QED BY <1>2, <1>3, <2>2, <2>3 DEF IInv, Types
<1>5. \A x \in Workers : /\ wk'[x].held = wk[x].held /\ wk'[x].at = wk[x].at
                         /\ wk'[x].key = wk[x].key /\ wk'[x].phase = wk[x].phase
                         /\ x # w => wk'[x].old = wk[x].old
  BY <1>3 DEF IInv, Types, WkRec
<1>6. wk'[w].old = slot[s].snap
  BY <1>3 DEF IInv, Types, WkRec
<1>7. RoomOK' /\ RetiringOnce' /\ NodePlaces' /\ ClosingOK' /\ HeldOK' /\ AtOK'
  BY <1>1, <1>2, <1>3, <1>5, PublishRest
<1>8. ThreadsOK'
  BY <1>1, <1>3, <1>5, <1>6 DEF IInv, ThreadsOK, Batch
<1>9. Unique(Owned, live)'
  <2> DEFINE B == IF slot[s].snap = NoSnap THEN {} ELSE {<<"old", w, slot[s].snap>>}
  <2>1. InClose' = InClose /\ InLeaked' = InLeaked /\ InNode' = InNode
    BY <1>3 DEF InClose, InLeaked, InNode, Swept
  <2>2. InPump' = InPump
    BY <1>3 DEF InPump, Ptr
  <2>3. InOld' = InOld \cup B
    <3>1. ASSUME NEW o \in InOld' PROVE o \in InOld \cup B
      <4>1. PICK x \in Workers : wk'[x].old # NoSnap /\ o = <<"old", x, wk'[x].old>>
        BY DEF InOld
      <4>2. QED BY <1>5, <1>6, <4>1 DEF InOld
    <3>2. ASSUME NEW o \in InOld PROVE o \in InOld'
      <4>1. PICK x \in Workers : wk[x].old # NoSnap /\ o = <<"old", x, wk[x].old>>
        BY DEF InOld
      <4>2. x # w
        BY <1>1, <4>1
      <4>3. QED BY <1>5, <4>1, <4>2 DEF InOld
    <3>3. ASSUME NEW o \in B PROVE o \in InOld'
      BY <1>6 DEF InOld
    <3>4. QED BY <3>1, <3>2, <3>3
  <2>4. /\ InOld' \cup InPump' = InOld \cup InPump \cup B
        /\ \A b \in B : b[3] = slot[s].snap /\ slot[s].snap # NoSnap
        /\ slot[s].snap # NoSnap => B # {}
        /\ \A b, c \in B : b = c
    <3>1. <<"old", w, slot[s].snap>>[3] = slot[s].snap
      OBVIOUS
    <3>2. CASE slot[s].snap = NoSnap
      BY <2>2, <2>3, <3>2
    <3>3. CASE slot[s].snap # NoSnap
      BY <2>2, <2>3, <3>1, <3>3
    <3>4. QED BY <3>2, <3>3
  <2> HIDE DEF B
  <2>5. QED BY <1>1, <1>2, <2>1, <2>4, PublishUnique
<1>10. QED BY <1>4, <1>7, <1>8, <1>9 DEF IInv

\* The pump replaces the snapshot of its store.
LEMMA PushStep == ASSUME IInv, Push PROVE IInv'
<1> DEFINE s == pump.at
<1>1. s \in Slots /\ pump.key # NoKey /\ pump.old = NoSnap /\ slot[s] \in SlotRec
  BY DEF IInv, Types, ThreadsOK, Push
<1>2. PICK ns \in Snaps \ live : live' = live \cup {ns} /\ slot' = [slot EXCEPT ![s].snap = ns]
  BY DEF Push, Publish
<1>3. /\ UNCHANGED <<v, wk, maint, nodes, sweep, leaked>>
      /\ pump' = [pump EXCEPT !.busy = TRUE, !.old = slot[s].snap]
  BY DEF Push
<1>4. slot[s].snap \in Snaps \cup {NoSnap}
  BY <1>1 DEF SlotRec
<1>5. pump' \in PumpRec /\ pump'.old = slot[s].snap /\ pump'.busy /\ pump'.key = pump.key /\ pump'.at = s
  BY <1>3, <1>4 DEF IInv, Types, PumpRec
<1>6. Types'
  <2>1. slot' \in [Slots -> SlotRec]
    <3>1. [slot[s] EXCEPT !.snap = ns] \in SlotRec
      BY <1>1 DEF SlotRec
    <3>2. QED BY <1>2, <3>1 DEF IInv, Types
  <2>2. QED BY <1>2, <1>3, <1>5, <2>1 DEF IInv, Types
<1>7. RoomOK' /\ RetiringOnce' /\ NodePlaces' /\ ClosingOK' /\ HeldOK' /\ AtOK'
  BY <1>1, <1>2, <1>3, PublishRest
<1>8. ThreadsOK'
  BY <1>1, <1>3, <1>5 DEF IInv, ThreadsOK
<1>9. Unique(Owned, live)'
  <2> DEFINE B == IF slot[s].snap = NoSnap THEN {} ELSE {<<"pump", 0, slot[s].snap>>}
  <2>1. InClose' = InClose /\ InLeaked' = InLeaked /\ InNode' = InNode
    BY <1>3 DEF InClose, InLeaked, InNode, Swept
  <2>2. InOld' = InOld
    BY <1>3 DEF InOld
  <2>3. InPump = {} /\ InPump' = B
    BY <1>1, <1>5 DEF InPump, Ptr
  <2>4. /\ InOld' \cup InPump' = InOld \cup InPump \cup B
        /\ \A b \in B : b[3] = slot[s].snap /\ slot[s].snap # NoSnap
        /\ slot[s].snap # NoSnap => B # {}
        /\ \A b, c \in B : b = c
    <3>1. <<"pump", 0, slot[s].snap>>[3] = slot[s].snap
      OBVIOUS
    <3>2. CASE slot[s].snap = NoSnap
      BY <2>2, <2>3, <3>2
    <3>3. CASE slot[s].snap # NoSnap
      BY <2>2, <2>3, <3>1, <3>3
    <3>4. QED BY <3>2, <3>3
  <2> HIDE DEF B
  <2>5. QED BY <1>1, <1>2, <2>1, <2>4, PublishUnique
<1>10. QED BY <1>6, <1>7, <1>8, <1>9 DEF IInv

-----------------------------------------------------------------------------
(* Retiring through nodes: snapshots move to nodes marked now, or leak.    *)

AsyncNode(x) == [idx |-> None, snaps |-> {x}, mark |-> v]
AsyncOwner(lost, x) == IF x \in lost THEN <<"leaked", 0, x>> ELSE <<"node", AsyncNode(x), x>>

\* Each snapshot of S gets one new owner.
LEMMA AsyncOwners ==
  ASSUME NEW S, NEW lost \in SUBSET S, leaked' = leaked \cup lost, sweep' = sweep,
         nodes' = nodes \cup {AsyncNode(x) : x \in S \ lost}
  PROVE  /\ \A o : o \in InNode' \/ o \in InLeaked' <=>
                   o \in InNode \/ o \in InLeaked \/ \E x \in S : o = AsyncOwner(lost, x)
         /\ \A x \in S : AsyncOwner(lost, x)[3] = x
<1>1. \A x \in S : AsyncOwner(lost, x)[3] = x
  BY DEF AsyncOwner
<1>2. Swept' = Swept
  BY DEF Swept
<1>3. \A x : AsyncNode(x).snaps = {x}
  BY DEF AsyncNode
<1>4. ASSUME NEW o \in InNode' PROVE o \in InNode \/ \E x \in S : o = AsyncOwner(lost, x)
  <2>1. PICK n \in nodes' \cup Swept' : \E x \in n.snaps : o = <<"node", n, x>>
    BY DEF InNode
  <2>2. PICK x \in n.snaps : o = <<"node", n, x>>
    BY <2>1
  <2>3. CASE n \in nodes \cup Swept
    BY <2>2, <2>3 DEF InNode
  <2>4. CASE n \notin nodes \cup Swept
    <3>1. PICK y \in S \ lost : n = AsyncNode(y)
      BY <1>2, <2>1, <2>4
    <3>2. x = y
      BY <1>3, <2>2, <3>1
    <3>3. QED BY <2>2, <3>1, <3>2 DEF AsyncOwner
  <2>5. QED BY <2>3, <2>4
<1>5. ASSUME NEW o \in InNode PROVE o \in InNode'
  BY <1>2 DEF InNode
<1>6. ASSUME NEW x \in S PROVE AsyncOwner(lost, x) \in InNode' \cup InLeaked'
  <2>1. CASE x \in lost
    BY <2>1 DEF AsyncOwner, InLeaked
  <2>2. CASE x \notin lost
    <3>1. AsyncNode(x) \in nodes' /\ x \in AsyncNode(x).snaps
      BY <1>3, <2>2
    <3>2. QED BY <2>2, <3>1 DEF AsyncOwner, InNode
  <2>3. QED BY <2>1, <2>2
<1>7. \A o : o \in InLeaked' <=> o \in InLeaked \/ \E x \in lost : o = <<"leaked", 0, x>>
  BY DEF InLeaked
<1>8. \A x \in lost : AsyncOwner(lost, x) = <<"leaked", 0, x>>
  BY DEF AsyncOwner
<1>9. QED BY <1>1, <1>4, <1>5, <1>6, <1>7, <1>8

\* The mark of a new node waits for every worker that refers to something.
LEMMA MarkNow ==
  ASSUME IInv, NEW w \in Workers, wk[w].held # {} \/ wk[w].at # None, v' = v
  PROVE  ~slot_passed(v, w)'
<1>1. v[w] % 2 = 1
  BY DEF IInv, ThreadsOK, Types, WkRec
<1>2. QED BY <1>1 DEF slot_passed

\* What the nodes are after such a step, and what stays true of them.
LEMMA AsyncNodes ==
  ASSUME IInv, NEW S \in SUBSET Snaps, NEW lost \in SUBSET S, UNCHANGED <<v, sweep>>,
         nodes' = nodes \cup {AsyncNode(x) : x \in S \ lost},
         \A x \in S : \A n \in AllNodes : x \notin n.snaps
  PROVE  /\ nodes' \subseteq Node
         /\ \A n : n \in AllNodes' <=> n \in AllNodes \/ \E x \in S \ lost : n = AsyncNode(x)
         /\ NodePlaces'
         /\ \A n \in AllNodes' : n.idx # None => n \in AllNodes
         /\ \A w \in Workers : \A x \in wk[w].held : \A n \in AllNodes' :
              x \in n.snaps => ~slot_passed(n.mark, w)'
<1>1. \A x : AsyncNode(x).idx = None /\ AsyncNode(x).snaps = {x} /\ AsyncNode(x).mark = v
  BY DEF AsyncNode
<1>2. nodes' \subseteq Node
  <2>1. \A x \in S : AsyncNode(x) \in Node
    BY DEF AsyncNode, Node, Marks, IInv, Types
  <2>2. QED BY <2>1 DEF IInv, Types
<1>3. \A n : n \in AllNodes' <=> n \in AllNodes \/ \E x \in S \ lost : n = AsyncNode(x)
  BY DEF AllNodes, Swept
<1>4. \A x \in S \ lost : AsyncNode(x) \notin AllNodes
  BY <1>1
<1>5. NodePlaces'
  <2>1. \A t \in Sweepers : sweep[t].chain \cup sweep[t].keep \subseteq AllNodes
    BY NodeMember
  <2>2. \A t \in Sweepers : nodes' \cap (sweep[t].chain \cup sweep[t].keep) = {}
    BY <1>4, <2>1 DEF IInv, NodePlaces
  <2>3. QED BY <2>2 DEF IInv, NodePlaces
<1>6. \A n \in AllNodes' : n.idx # None => n \in AllNodes
  BY <1>1, <1>3
<1>7. ASSUME NEW w \in Workers, NEW x \in wk[w].held, NEW n \in AllNodes', x \in n.snaps
      PROVE  ~slot_passed(n.mark, w)'
  <2>1. CASE n \in AllNodes
    BY <1>7, <2>1 DEF IInv, HeldOK, slot_passed
  <2>2. CASE n \notin AllNodes
    <3>1. n.mark = v
      BY <1>1, <1>3, <2>2
    <3>2. ~slot_passed(v, w)'
      BY MarkNow
    <3>3. QED BY <3>1, <3>2 DEF slot_passed
  <2>3. QED BY <2>1, <2>2
<1>8. QED BY <1>2, <1>3, <1>5, <1>6, <1>7

\* An owner that is not a node keeps its snapshot out of the nodes.
LEMMA NotInNodes ==
  ASSUME IInv, NEW o \in Owned, o[1] # "node"
  PROVE  \A n \in AllNodes : o[3] \notin n.snaps
<1>1. SUFFICES ASSUME NEW n \in AllNodes, o[3] \in n.snaps PROVE FALSE
  OBVIOUS
<1>2. <<"node", n, o[3]>> \in Owned
  BY <1>1 DEF Owned, InNode, AllNodes
<1>3. <<"node", n, o[3]>>[3] = o[3] /\ <<"node", n, o[3]>>[1] = "node"
  OBVIOUS
<1>4. o = <<"node", n, o[3]>>
  BY <1>2, <1>3 DEF IInv, Unique
<1>5. QED BY <1>3, <1>4

\* A worker retires the snapshot it has replaced.
LEMMA EnableRetireStep ==
  ASSUME IInv, NEW w \in Workers, EnableRetire(w)
  PROVE  IInv'
<1> DEFINE x == wk[w].old
           own == <<"old", w, x>>
           S == {x}
<1>1. x # NoSnap /\ x \in Snaps /\ UNCHANGED <<v, slot, pump, maint, sweep, live>>
  BY DEF IInv, Types, WkRec, EnableRetire
<1>2. PICK lost \in SUBSET S : /\ leaked' = leaked \cup lost
                               /\ nodes' = nodes \cup {AsyncNode(y) : y \in S \ lost}
  BY DEF EnableRetire, snap_retire_async, AsyncNode, qsbr_mark
<1>3. own \in Owned /\ own[1] = "old" /\ own[3] = x
  BY <1>1 DEF Owned, InOld
<1>4. x \in live /\ \A n \in AllNodes : x \notin n.snaps
  BY <1>3, NotInNodes DEF IInv, Unique
<1>5. /\ nodes' \subseteq Node
      /\ NodePlaces'
      /\ \A n \in AllNodes' : n.idx # None => n \in AllNodes
      /\ \A n : n \in AllNodes => n \in AllNodes'
      /\ \A y \in Workers : \A z \in wk[y].held : \A n \in AllNodes' :
              z \in n.snaps => ~slot_passed(n.mark, y)'
  <2>1. S \in SUBSET Snaps /\ \A y \in S : \A n \in AllNodes : y \notin n.snaps
    BY <1>1, <1>4
  <2> HIDE DEF S
  <2>2. QED BY <1>1, <1>2, <2>1, AsyncNodes
<1>6. wk' = [wk EXCEPT ![w].old = NoSnap]
  BY DEF EnableRetire
<1>7. \A y \in Workers : /\ wk'[y].held = wk[y].held /\ wk'[y].at = wk[y].at
                         /\ wk'[y].key = wk[y].key /\ wk'[y].phase = wk[y].phase
                         /\ y # w => wk'[y].old = wk[y].old
                         /\ y = w => wk'[y].old = NoSnap
  BY <1>6 DEF IInv, Types, WkRec
<1>8. Types'
  <2>1. wk' \in [Workers -> WkRec]
    BY <1>6 DEF IInv, Types, WkRec
  <2>2. QED BY <1>1, <1>2, <1>5, <2>1 DEF IInv, Types
<1>9. RoomOK' /\ RetiringOnce'
  BY <1>1 DEF IInv, RoomOK, RetiringOnce
<1>10. ThreadsOK'
  BY <1>1, <1>7 DEF IInv, ThreadsOK
<1>11. ClosingOK'
  <2>1. None \notin Slots
    BY SegStoreAssumption DEF None
  <2>2. QED BY <1>1, <1>5, <2>1 DEF IInv, ClosingOK, MaintAt
<1>12. HeldOK'
  BY <1>1, <1>5, <1>7 DEF IInv, HeldOK, slot_passed
<1>13. AtOK'
  BY <1>1, <1>5, <1>7 DEF IInv, AtOK, slot_passed
<1>14. Unique(Owned, live)'
  <2> DEFINE R == {own}
             A == {AsyncOwner(lost, y) : y \in S}
  <2>1. /\ \A o : o \in InNode' \/ o \in InLeaked' <=>
                  o \in InNode \/ o \in InLeaked \/ \E y \in S : o = AsyncOwner(lost, y)
        /\ \A y \in S : AsyncOwner(lost, y)[3] = y
    BY <1>1, <1>2, AsyncOwners
  <2>2. \A o : o \in InOld' <=> o \in InOld /\ o # own
    <3>1. ASSUME NEW o \in InOld' PROVE o \in InOld /\ o # own
      <4>1. PICK y \in Workers : wk'[y].old # NoSnap /\ o = <<"old", y, wk'[y].old>>
        BY DEF InOld
      <4>2. y # w /\ wk'[y].old = wk[y].old
        BY <1>7, <4>1
      <4>3. o # own
        BY <4>1, <4>2
      <4>4. QED BY <4>1, <4>2, <4>3 DEF InOld
    <3>2. ASSUME NEW o \in InOld, o # own PROVE o \in InOld'
      <4>1. PICK y \in Workers : wk[y].old # NoSnap /\ o = <<"old", y, wk[y].old>>
        BY DEF InOld
      <4>2. y # w
        BY <3>2, <4>1
      <4>3. QED BY <1>7, <4>1, <4>2 DEF InOld
    <3>3. QED BY <3>1, <3>2
  <2>3. InSlot' = InSlot /\ InRetiring' = InRetiring /\ InPump' = InPump /\ InClose' = InClose
    BY <1>1 DEF InSlot, InRetiring, InPump, InClose, Ptr
  <2>4. \A o : o \in Owned' <=> (o \in Owned /\ o \notin R) \/ o \in A
    <3>1. own \notin InSlot /\ own \notin InRetiring /\ own \notin InPump /\ own \notin InClose
          /\ own \notin InNode /\ own \notin InLeaked
      BY <1>3, OwnerKinds
    <3>2. QED BY <2>1, <2>2, <2>3, <3>1 DEF Owned
  <2>5. \A a, b \in A : a[3] = b[3] => a = b
    BY <2>1
  <2>6. \A a \in A : \E r \in R : r[3] = a[3]
    BY <1>3, <2>1
  <2>7. \A y : y \in live' <=> (y \in live /\ \A r \in R : r[3] # y) \/ \E a \in A : a[3] = y
    BY <1>1, <1>3, <1>4, <2>1
  <2>8. R \subseteq Owned
    BY <1>3
  <2> HIDE DEF R, A
  <2>9. QED BY <2>4, <2>5, <2>6, <2>7, <2>8, MoveOwners DEF IInv, Unique
<1>15. QED BY <1>5, <1>8, <1>9, <1>10, <1>11, <1>12, <1>13, <1>14 DEF IInv

-----------------------------------------------------------------------------
(* Emptying a store: a reopened or closed store gives up what it publishes *)
(* and its retiring array.                                                 *)

StoreOwners(s) == {o \in InSlot \cup InRetiring : o[2] = s}

\* Exactly what the store has, all of it live and in no node.
LEMMA StoreOwned ==
  ASSUME IInv, NEW s \in Slots
  PROVE  /\ StoreOwners(s) \subseteq Owned
         /\ \A o \in StoreOwners(s) : o[1] \in {"slot", "retiring"} /\ o[3] \in AllOf(s)
         /\ \A x \in AllOf(s) : \E o \in StoreOwners(s) : o[3] = x
         /\ AllOf(s) \subseteq live
         /\ \A x \in AllOf(s) : \A n \in AllNodes : x \notin n.snaps
<1>1. StoreOwners(s) \subseteq Owned
  BY DEF StoreOwners, Owned
<1>2. ASSUME NEW o \in StoreOwners(s) PROVE o[1] \in {"slot", "retiring"} /\ o[3] \in AllOf(s)
  <2>1. CASE o \in InSlot
    <3>1. PICK t \in Slots : slot[t].snap # NoSnap /\ o = <<"slot", t, slot[t].snap>>
      BY <2>1 DEF InSlot
    <3>2. o[1] = "slot" /\ t = s /\ o[3] = slot[s].snap
      BY <3>1 DEF StoreOwners
    <3>3. QED BY <3>1, <3>2 DEF AllOf, Ptr
  <2>2. CASE o \in InRetiring
    <3>1. PICK t \in Slots : \E e \in slot[t].retiring : o = <<"retiring", t, e.snap>>
      BY <2>2 DEF InRetiring
    <3>2. PICK e \in slot[t].retiring : o = <<"retiring", t, e.snap>>
      BY <3>1
    <3>3. o[1] = "retiring" /\ t = s /\ o[3] = e.snap
      BY <3>2 DEF StoreOwners
    <3>4. QED BY <3>2, <3>3 DEF AllOf, Retired
  <2>3. QED BY <2>1, <2>2 DEF StoreOwners
<1>3. ASSUME NEW x \in AllOf(s) PROVE \E o \in StoreOwners(s) : o[3] = x
  <2>1. CASE x \in Ptr(slot[s].snap)
    <3>1. <<"slot", s, x>> \in StoreOwners(s)
      BY <2>1 DEF Ptr, StoreOwners, InSlot
    <3>2. <<"slot", s, x>>[3] = x
      OBVIOUS
    <3>3. QED BY <3>1, <3>2
  <2>2. CASE x \in Retired(s)
    <3>1. <<"retiring", s, x>> \in StoreOwners(s)
      BY <2>2 DEF Retired, StoreOwners, InRetiring
    <3>2. <<"retiring", s, x>>[3] = x
      OBVIOUS
    <3>3. QED BY <3>1, <3>2
  <2>3. QED BY <2>1, <2>2 DEF AllOf
<1>4. AllOf(s) \subseteq live
  BY <1>1, <1>3 DEF IInv, Unique
<1>5. \A x \in AllOf(s) : \A n \in AllNodes : x \notin n.snaps
  BY <1>1, <1>2, <1>3, NotInNodes
<1>6. QED BY <1>1, <1>2, <1>3, <1>4, <1>5

\* A slot gives up its published and its retired snapshots.
LEMMA StoreEmptied ==
  ASSUME IInv, NEW s \in Slots, slot'[s].snap = NoSnap, slot'[s].retiring = {},
         \A t \in Slots \ {s} : slot'[t] = slot[t]
  PROVE  /\ \A o : o \in InSlot' \/ o \in InRetiring' <=>
                   (o \in InSlot \/ o \in InRetiring) /\ o \notin StoreOwners(s)
         /\ RoomOK' /\ RetiringOnce'
<1>1. ASSUME NEW o \in InSlot' PROVE o \in InSlot /\ o \notin StoreOwners(s)
  <2>1. PICK t \in Slots : slot'[t].snap # NoSnap /\ o = <<"slot", t, slot'[t].snap>>
    BY DEF InSlot
  <2>2. t # s
    BY <2>1
  <2>3. o[2] # s
    BY <2>1, <2>2
  <2>4. QED BY <2>1, <2>2, <2>3 DEF InSlot, StoreOwners
<1>2. ASSUME NEW o \in InRetiring' PROVE o \in InRetiring /\ o \notin StoreOwners(s)
  <2>1. PICK t \in Slots : \E e \in slot'[t].retiring : o = <<"retiring", t, e.snap>>
    BY DEF InRetiring
  <2>2. t # s
    BY <2>1
  <2>3. o[2] # s
    BY <2>1, <2>2
  <2>4. QED BY <2>1, <2>2, <2>3 DEF InRetiring, StoreOwners
<1>3. ASSUME NEW o \in InSlot, o \notin StoreOwners(s) PROVE o \in InSlot'
  <2>1. PICK t \in Slots : slot[t].snap # NoSnap /\ o = <<"slot", t, slot[t].snap>>
    BY DEF InSlot
  <2>2. t # s
    BY <1>3, <2>1 DEF StoreOwners
  <2>3. QED BY <2>1, <2>2 DEF InSlot
<1>4. ASSUME NEW o \in InRetiring, o \notin StoreOwners(s) PROVE o \in InRetiring'
  <2>1. PICK t \in Slots : \E e \in slot[t].retiring : o = <<"retiring", t, e.snap>>
    BY DEF InRetiring
  <2>2. t # s
    BY <1>4, <2>1 DEF StoreOwners
  <2>3. QED BY <2>1, <2>2 DEF InRetiring
<1>5. RoomOK'
  <2>1. IsFiniteSet({}) /\ Cardinality({}) = 0
    BY FS_EmptySet
  <2>2. 0 <= HLS_SNAP_RETIRE_DEPTH
    BY SegStoreAssumption
  <2>3. QED BY <2>1, <2>2 DEF IInv, RoomOK
<1>6. RetiringOnce'
  BY DEF IInv, RetiringOnce
<1>7. QED BY <1>1, <1>2, <1>3, <1>4, <1>5, <1>6

\* A slot is given to a key; what it held goes to a node.
LEMMA OpenStep ==
  ASSUME IInv, NEW k \in Keys, hls_store_open(k)
  PROVE  IInv'
<1> DEFINE new == [EmptySlot EXCEPT !.st = "OPEN", !.key = k, !.fed = TRUE]
<1>1. UNCHANGED <<v, wk, pump, maint, sweep, live>>
  BY DEF hls_store_open
<1>2. PICK s \in (IF OpenFor(k) # {} THEN OpenFor(k) ELSE FirstFree) :
               /\ snap_retire_async(AllOf(s))
               /\ slot' = [slot EXCEPT ![s] = new]
  BY DEF hls_store_open
<1>3. s \in Slots /\ (slot[s].st = "FREE" \/ (slot[s].st = "OPEN" /\ slot[s].key = k))
  BY DEF OpenFor, FirstFree
<1>4. PICK lost \in SUBSET AllOf(s) : /\ leaked' = leaked \cup lost
                                      /\ nodes' = nodes \cup {AsyncNode(y) : y \in AllOf(s) \ lost}
  BY <1>2 DEF snap_retire_async, AsyncNode, qsbr_mark
<1>5. new \in SlotRec /\ new.st = "OPEN" /\ new.key = k /\ new.snap = NoSnap /\ new.retiring = {}
  BY DEF EmptySlot, SlotRec
<1> HIDE DEF new
<1>6. slot'[s] = new /\ \A t \in Slots \ {s} : slot'[t] = slot[t]
  BY <1>2, <1>3 DEF IInv, Types
<1>7. /\ StoreOwners(s) \subseteq Owned
      /\ \A o \in StoreOwners(s) : o[1] \in {"slot", "retiring"} /\ o[3] \in AllOf(s)
      /\ \A x \in AllOf(s) : \E o \in StoreOwners(s) : o[3] = x
      /\ AllOf(s) \subseteq live
      /\ \A x \in AllOf(s) : \A n \in AllNodes : x \notin n.snaps
  BY <1>3, StoreOwned
<1>8. live \subseteq Snaps
  BY DEF IInv, Types
<1>9. /\ nodes' \subseteq Node
      /\ NodePlaces'
      /\ \A n \in AllNodes' : n.idx # None => n \in AllNodes
      /\ \A n : n \in AllNodes => n \in AllNodes'
      /\ \A y \in Workers : \A z \in wk[y].held : \A n \in AllNodes' :
              z \in n.snaps => ~slot_passed(n.mark, y)'
  <2>1. AllOf(s) \in SUBSET Snaps
    BY <1>7, <1>8
  <2>2. QED BY <1>1, <1>4, <1>7, <2>1, AsyncNodes
<1>10. Types'
  <2>1. slot' \in [Slots -> SlotRec]
    BY <1>2, <1>3, <1>5 DEF IInv, Types
  <2>2. leaked' \in SUBSET Snaps
    BY <1>4, <1>7, <1>8 DEF IInv, Types
  <2>3. QED BY <1>1, <1>9, <2>1, <2>2 DEF IInv, Types
<1>11. /\ \A o : o \in InSlot' \/ o \in InRetiring' <=>
                 (o \in InSlot \/ o \in InRetiring) /\ o \notin StoreOwners(s)
       /\ RoomOK' /\ RetiringOnce'
  BY <1>3, <1>5, <1>6, StoreEmptied
<1>12. ThreadsOK'
  BY <1>1 DEF IInv, ThreadsOK
<1>13. None \notin Slots
  BY SegStoreAssumption DEF None
<1>14. ClosingOK'
  <2>1. slot[s].st # "CLOSING" /\ slot'[s].st # "CLOSING"
    BY <1>3, <1>5, <1>6
  <2>2. QED BY <1>1, <1>6, <1>9, <1>13, <2>1 DEF IInv, ClosingOK, MaintAt
<1>15. HeldOK'
  <2>1. \A t \in Slots : slot'[t].retiring \subseteq slot[t].retiring
    BY <1>5, <1>6
  <2>2. QED BY <1>1, <1>9, <2>1 DEF IInv, HeldOK, slot_passed
<1>16. AtOK'
  <2>1. ASSUME NEW w \in Workers, wk[w].at # None
        PROVE  slot'[wk[w].at].key = wk[w].key /\ slot'[wk[w].at].st # "FREE"
    <3>1. wk[w].at \in Slots /\ slot[wk[w].at].key = wk[w].key /\ slot[wk[w].at].st # "FREE"
      BY <2>1 DEF IInv, AtOK, Types, WkRec
    <3>2. QED BY <1>3, <1>5, <1>6, <3>1
  <2>2. QED BY <1>1, <1>9, <2>1 DEF IInv, AtOK, slot_passed
<1>17. Unique(Owned, live)'
  <2> DEFINE A == {AsyncOwner(lost, y) : y \in AllOf(s)}
  <2>1. /\ \A o : o \in InNode' \/ o \in InLeaked' <=>
                  o \in InNode \/ o \in InLeaked \/ \E y \in AllOf(s) : o = AsyncOwner(lost, y)
        /\ \A y \in AllOf(s) : AsyncOwner(lost, y)[3] = y
    BY <1>1, <1>4, AsyncOwners
  <2>2. InOld' = InOld /\ InPump' = InPump /\ InClose' = InClose
    BY <1>1 DEF InOld, InPump, InClose, Ptr
  <2>3. \A o : o \in Owned' <=> (o \in Owned /\ o \notin StoreOwners(s)) \/ o \in A
    <3>1. \A o \in StoreOwners(s) : /\ o \notin InOld /\ o \notin InPump /\ o \notin InClose
                                    /\ o \notin InNode /\ o \notin InLeaked
      BY <1>7, OwnerKinds
    <3>2. QED BY <1>11, <2>1, <2>2, <3>1 DEF Owned
  <2>4. \A a, b \in A : a[3] = b[3] => a = b
    BY <2>1
  <2>5. \A a \in A : \E r \in StoreOwners(s) : r[3] = a[3]
    BY <1>7, <2>1
  <2>6. \A y : y \in live' <=> (y \in live /\ \A r \in StoreOwners(s) : r[3] # y) \/ \E a \in A : a[3] = y
    BY <1>1, <1>7, <2>1
  <2> HIDE DEF A
  <2>7. QED BY <1>7, <2>3, <2>4, <2>5, <2>6, MoveOwners DEF IInv, Unique
<1>18. QED BY <1>9, <1>10, <1>11, <1>12, <1>14, <1>15, <1>16, <1>17 DEF IInv

-----------------------------------------------------------------------------
(* Maintenance.                                                            *)

\* Maintenance claims the slot of a key: nobody finds it any more.
LEMMA UnlinkStep ==
  ASSUME IInv, NEW s \in Slots, SweepUnlink(s)
  PROVE  IInv'
<1>1. /\ UNCHANGED <<v, wk, pump, nodes, sweep, live, leaked>> /\ maint.pc = "idle"
      /\ slot' = [slot EXCEPT ![s].fed = FALSE]
      /\ maint' = [maint EXCEPT !.pc = "wait", !.key = slot[s].key]
  BY DEF SweepUnlink
<1>2. slot[s] \in SlotRec /\ maint \in MaintRec
  BY DEF IInv, Types
<1>3. maint' \in MaintRec /\ maint'.pc = "wait" /\ maint'.snaps = maint.snaps
  <2>1. slot[s].key \in Keys \cup {NoKey}
    BY <1>2 DEF SlotRec
  <2>2. QED BY <1>1, <1>2, <2>1 DEF MaintRec
<1>4. \A t \in Slots : /\ slot'[t].snap = slot[t].snap /\ slot'[t].retiring = slot[t].retiring
                       /\ slot'[t].st = slot[t].st /\ slot'[t].key = slot[t].key
  BY <1>1 DEF IInv, Types, SlotRec
<1>5. Types'
  <2>1. [slot[s] EXCEPT !.fed = FALSE] \in SlotRec
    BY <1>2 DEF SlotRec
  <2>2. slot' \in [Slots -> SlotRec]
    BY <1>1, <2>1 DEF IInv, Types
  <2>3. QED BY <1>1, <1>3, <2>2 DEF IInv, Types
<1>6. AllNodes' = AllNodes
  BY <1>1 DEF AllNodes, Swept
<1>7. Owned' = Owned
  BY <1>1, <1>3, <1>4, <1>6, KeepOwned
<1>8. Unique(Owned, live)'
  BY <1>1, <1>7 DEF IInv, Unique
<1>9. RoomOK' /\ RetiringOnce' /\ NodePlaces'
  BY <1>1, <1>4 DEF IInv, RoomOK, RetiringOnce, NodePlaces
<1>10. ThreadsOK'
  BY <1>1, <1>3 DEF IInv, ThreadsOK
<1>11. ClosingOK'
  BY <1>1, <1>3, <1>4, <1>6 DEF IInv, ClosingOK, MaintAt
<1>12. HeldOK'
  BY <1>1, <1>4, <1>6 DEF IInv, HeldOK, slot_passed
<1>13. AtOK'
  <2>1. \A w \in Workers : wk[w].at # None => wk[w].at \in Slots
    BY DEF IInv, Types, WkRec
  <2>2. QED BY <1>1, <1>4, <1>6, <2>1 DEF IInv, AtOK, slot_passed
<1>14. QED BY <1>5, <1>8, <1>9, <1>10, <1>11, <1>12, <1>13 DEF IInv

\* An open store turns to closing together with the maintenance that is to
\* push its node.
LEMMA CloseClaimStep == ASSUME IInv, CloseClaim PROVE IInv'
<1>1. UNCHANGED <<v, wk, pump, nodes, sweep, live, leaked>> /\ maint.pc = "wait" /\ maint \in MaintRec
  BY DEF IInv, Types, CloseClaim
<1>2. maint.snaps = {}
  BY <1>1 DEF IInv, ThreadsOK
<1>3. PICK s \in OpenFor(maint.key) :
          \/ /\ slot' = [slot EXCEPT ![s].st = "CLOSING"]
             /\ maint' = [maint EXCEPT !.pc = "claimed", !.at = s]
          \/ maint' = IdleMaint /\ UNCHANGED slot
  BY DEF CloseClaim
<1>4. s \in Slots /\ slot[s].st = "OPEN" /\ slot[s] \in SlotRec
  BY DEF OpenFor, IInv, Types
<1>5. \A t \in Slots : /\ slot'[t].snap = slot[t].snap /\ slot'[t].retiring = slot[t].retiring
                       /\ slot'[t].key = slot[t].key
                       /\ t # s => slot'[t].st = slot[t].st
  BY <1>3, <1>4 DEF IInv, Types, SlotRec
<1>6. \/ maint'.pc = "claimed" /\ maint'.at = s /\ slot'[s].st = "CLOSING"
      \/ maint'.pc = "idle" /\ slot'[s].st = "OPEN"
  <2>1. CASE slot' = [slot EXCEPT ![s].st = "CLOSING"] /\ maint' = [maint EXCEPT !.pc = "claimed", !.at = s]
    BY <1>1, <1>4, <2>1 DEF IInv, Types, SlotRec, MaintRec
  <2>2. CASE maint' = IdleMaint /\ UNCHANGED slot
    BY <1>4, <2>2 DEF IdleMaint
  <2>3. QED BY <1>3, <2>1, <2>2
<1>7. maint' \in MaintRec /\ maint'.snaps = {}
  <2>1. [maint EXCEPT !.pc = "claimed", !.at = s] \in MaintRec /\ IdleMaint \in MaintRec
    BY <1>1, <1>4 DEF MaintRec, IdleMaint
  <2>2. [maint EXCEPT !.pc = "claimed", !.at = s].snaps = {} /\ IdleMaint.snaps = {}
    BY <1>1, <1>2 DEF MaintRec, IdleMaint
  <2>3. QED BY <1>3, <2>1, <2>2
<1>8. Types'
  <2>1. [slot[s] EXCEPT !.st = "CLOSING"] \in SlotRec
    BY <1>4 DEF SlotRec
  <2>2. slot' \in [Slots -> SlotRec]
    BY <1>3, <1>4, <2>1 DEF IInv, Types
  <2>3. QED BY <1>1, <1>7, <2>2 DEF IInv, Types
<1>9. AllNodes' = AllNodes
  BY <1>1 DEF AllNodes, Swept
<1>10. Owned' = Owned
  BY <1>1, <1>2, <1>5, <1>7, <1>9, KeepOwned
<1>11. Unique(Owned, live)'
  BY <1>1, <1>10 DEF IInv, Unique
<1>12. RoomOK' /\ RetiringOnce' /\ NodePlaces'
  BY <1>1, <1>5 DEF IInv, RoomOK, RetiringOnce, NodePlaces
<1>13. ThreadsOK'
  BY <1>1, <1>4, <1>6, <1>7 DEF IInv, ThreadsOK
<1>14. ClosingOK'
  <2>1. \A t \in Slots : ~MaintAt(t)
    BY <1>1 DEF MaintAt
  <2>2. \A t \in Slots : t # s => ~MaintAt(t)'
    BY <1>6 DEF MaintAt
  <2>3. MaintAt(s)' <=> slot'[s].st = "CLOSING"
    BY <1>6 DEF MaintAt
  <2>4. \A n \in AllNodes : n.idx # s
    BY <1>4 DEF IInv, ClosingOK
  <2>5. QED BY <1>5, <1>9, <2>1, <2>2, <2>3, <2>4 DEF IInv, ClosingOK
<1>15. HeldOK'
  BY <1>1, <1>5, <1>9 DEF IInv, HeldOK, slot_passed
<1>16. AtOK'
  <2>1. \A w \in Workers : wk[w].at # None => wk[w].at \in Slots
    BY DEF IInv, Types, WkRec
  <2>2. slot'[s].st # "FREE"
    BY <1>6
  <2>3. QED BY <1>1, <1>5, <1>9, <2>1, <2>2 DEF IInv, AtOK, slot_passed
<1>17. QED BY <1>8, <1>11, <1>12, <1>13, <1>14, <1>15, <1>16 DEF IInv

\* Maintenance takes the published and the retired snapshots of its slot.
LEMMA CloseTakeStep == ASSUME IInv, CloseTake PROVE IInv'
<1> DEFINE s == maint.at
           new == [slot[s] EXCEPT !.snap = NoSnap, !.retiring = {}]
<1>1. /\ UNCHANGED <<v, wk, pump, nodes, sweep, live, leaked>>
      /\ maint.pc = "claimed" /\ maint.snaps = {} /\ maint \in MaintRec
      /\ s \in Slots /\ slot[s] \in SlotRec
  BY DEF IInv, Types, ThreadsOK, CloseTake
<1>2. slot' = [slot EXCEPT ![s] = new] /\ maint' = [maint EXCEPT !.pc = "taken", !.snaps = AllOf(s)]
  BY <1>1 DEF CloseTake, IInv, Types
<1>3. /\ new \in SlotRec /\ new.snap = NoSnap /\ new.retiring = {}
      /\ new.st = slot[s].st /\ new.key = slot[s].key
  BY <1>1 DEF SlotRec
<1> HIDE DEF new
<1>4. slot'[s] = new /\ \A t \in Slots \ {s} : slot'[t] = slot[t]
  BY <1>1, <1>2 DEF IInv, Types
<1>5. /\ StoreOwners(s) \subseteq Owned
      /\ \A o \in StoreOwners(s) : o[1] \in {"slot", "retiring"} /\ o[3] \in AllOf(s)
      /\ \A x \in AllOf(s) : \E o \in StoreOwners(s) : o[3] = x
      /\ AllOf(s) \subseteq live
  BY <1>1, StoreOwned
<1>6. live \subseteq Snaps
  BY DEF IInv, Types
<1>7. maint' \in MaintRec /\ maint'.pc = "taken" /\ maint'.at = s /\ maint'.snaps = AllOf(s)
  <2>1. AllOf(s) \in SUBSET Snaps
    BY <1>5, <1>6
  <2> HIDE DEF s
  <2>2. QED BY <1>1, <1>2, <2>1 DEF MaintRec, s
<1>8. Types'
  <2>1. slot' \in [Slots -> SlotRec]
    BY <1>1, <1>2, <1>3 DEF IInv, Types
  <2>2. QED BY <1>1, <1>7, <2>1 DEF IInv, Types
<1>9. AllNodes' = AllNodes
  BY <1>1 DEF AllNodes, Swept
<1>10. /\ \A o : o \in InSlot' \/ o \in InRetiring' <=>
                 (o \in InSlot \/ o \in InRetiring) /\ o \notin StoreOwners(s)
       /\ RoomOK' /\ RetiringOnce'
  BY <1>1, <1>3, <1>4, StoreEmptied
<1>11. NodePlaces'
  BY <1>1 DEF IInv, NodePlaces
<1>12. ThreadsOK'
  BY <1>1, <1>7 DEF IInv, ThreadsOK
<1>13. ClosingOK'
  <2>1. \A t \in Slots : slot'[t].st = slot[t].st /\ MaintAt(t)' = MaintAt(t)
    BY <1>1, <1>3, <1>4, <1>7 DEF MaintAt
  <2>2. QED BY <1>9, <2>1 DEF IInv, ClosingOK
<1>14. HeldOK'
  <2>1. \A t \in Slots : slot'[t].retiring \subseteq slot[t].retiring
    BY <1>3, <1>4
  <2>2. QED BY <1>1, <1>9, <2>1 DEF IInv, HeldOK, slot_passed
<1>15. AtOK'
  <2>1. \A w \in Workers : wk[w].at # None => wk[w].at \in Slots
    BY DEF IInv, Types, WkRec
  <2>2. \A t \in Slots : slot'[t].key = slot[t].key /\ slot'[t].st = slot[t].st
    BY <1>3, <1>4
  <2>3. QED BY <1>1, <1>9, <2>1, <2>2 DEF IInv, AtOK, slot_passed
<1>16. Unique(Owned, live)'
  <2> DEFINE A == {<<"close", 0, x>> : x \in AllOf(s)}
  <2>1. InOld' = InOld /\ InPump' = InPump /\ InLeaked' = InLeaked /\ InNode' = InNode
    BY <1>1, <1>9 DEF InOld, InPump, InLeaked, Ptr, InNode, AllNodes
  <2>2. InClose = {} /\ InClose' = A
    BY <1>1, <1>7 DEF InClose
  <2>3. \A o : o \in Owned' <=> (o \in Owned /\ o \notin StoreOwners(s)) \/ o \in A
    <3>1. \A o \in StoreOwners(s) : /\ o \notin InOld /\ o \notin InPump
                                    /\ o \notin InNode /\ o \notin InLeaked
      BY <1>5, OwnerKinds
    <3>2. QED BY <1>10, <2>1, <2>2, <3>1 DEF Owned
  <2>4. \A x : <<"close", 0, x>>[3] = x
    OBVIOUS
  <2>5. \A a, b \in A : a[3] = b[3] => a = b
    BY <2>4
  <2>6. \A a \in A : \E r \in StoreOwners(s) : r[3] = a[3]
    BY <1>5, <2>4
  <2>7. \A y : y \in live' <=> (y \in live /\ \A r \in StoreOwners(s) : r[3] # y) \/ \E a \in A : a[3] = y
    <3>1. \A y : y \in AllOf(s) <=> \E a \in A : a[3] = y
      BY <2>4
    <3>2. \A y : y \in AllOf(s) <=> \E r \in StoreOwners(s) : r[3] = y
      BY <1>5
    <3> HIDE DEF A
    <3>3. QED BY <1>1, <1>5, <3>1, <3>2
  <2> HIDE DEF A
  <2>8. QED BY <1>5, <2>3, <2>5, <2>6, <2>7, MoveOwners DEF IInv, Unique
<1>17. QED BY <1>8, <1>10, <1>11, <1>12, <1>13, <1>14, <1>15, <1>16 DEF IInv

\* The node takes over what the close took and the slot to free.
LEMMA ClosePushStep == ASSUME IInv, ClosePush PROVE IInv'
<1> DEFINE s == maint.at
           n0 == [idx |-> s, snaps |-> maint.snaps, mark |-> v]
<1>1. /\ UNCHANGED <<v, wk, slot, pump, sweep, live, leaked>>
      /\ maint.pc = "taken" /\ maint' = IdleMaint /\ s \in Slots /\ MaintAt(s)
      /\ maint.snaps \subseteq Snaps
  BY DEF IInv, Types, MaintRec, ThreadsOK, ClosePush, MaintAt
<1>2. nodes' = nodes \cup {n0}
  BY DEF ClosePush, qsbr_mark
<1>3. n0 \in Node /\ n0.idx = s /\ n0.snaps = maint.snaps /\ n0.mark = v
  BY <1>1 DEF Node, Marks, IInv, Types
<1> HIDE DEF n0
<1>4. slot[s].st = "CLOSING" /\ \A n \in AllNodes : n.idx # s
  BY <1>1 DEF IInv, ClosingOK
<1>5. n0 \notin AllNodes
  BY <1>3, <1>4
<1>6. \A n : n \in AllNodes' <=> n \in AllNodes \/ n = n0
  BY <1>1, <1>2 DEF AllNodes, Swept
<1>7. IdleMaint \in MaintRec /\ maint'.pc = "idle" /\ maint'.snaps = {}
  BY <1>1 DEF IdleMaint, MaintRec
<1>8. Types'
  BY <1>1, <1>2, <1>3, <1>7 DEF IInv, Types
<1>9. RoomOK' /\ RetiringOnce'
  BY <1>1 DEF IInv, RoomOK, RetiringOnce
<1>10. NodePlaces'
  <2>1. \A t \in Sweepers : n0 \notin sweep[t].chain /\ n0 \notin sweep[t].keep
    BY <1>5, NodeMember
  <2>2. QED BY <1>1, <1>2, <2>1 DEF IInv, NodePlaces
<1>11. ThreadsOK'
  BY <1>1, <1>7 DEF IInv, ThreadsOK
<1>12. ClosingOK'
  <2>1. \A t \in Slots : ~MaintAt(t)'
    BY <1>7 DEF MaintAt
  <2>2. \A t \in Slots : t # s => ~MaintAt(t)
    BY <1>1 DEF MaintAt
  <2>3. ASSUME NEW t \in Slots, t # s
        PROVE  /\ slot[t].st # "CLOSING" => \A n \in AllNodes' : n.idx # t
               /\ slot[t].st = "CLOSING" => \E n \in AllNodes' : n.idx = t
               /\ \A n, m \in AllNodes' : n.idx = t /\ m.idx = t => n = m
    BY <1>3, <1>6, <2>2, <2>3 DEF IInv, ClosingOK
  <2>4. /\ \E n \in AllNodes' : n.idx = s
        /\ \A n, m \in AllNodes' : n.idx = s /\ m.idx = s => n = m
    BY <1>3, <1>4, <1>6
  <2>5. QED BY <1>1, <1>4, <2>1, <2>3, <2>4 DEF ClosingOK
<1>13. HeldOK'
  <2>1. ASSUME NEW w \in Workers, NEW x \in wk[w].held, NEW n \in AllNodes', x \in n.snaps
        PROVE  ~slot_passed(n.mark, w)'
    <3>1. CASE n = n0
      BY <1>1, <1>3, <3>1, MarkNow
    <3>2. CASE n # n0
      BY <1>1, <1>6, <2>1, <3>2 DEF IInv, HeldOK, slot_passed
    <3>3. QED BY <3>1, <3>2
  <2>2. QED BY <1>1, <2>1 DEF IInv, HeldOK, slot_passed
<1>14. AtOK'
  <2>1. ASSUME NEW w \in Workers, wk[w].at # None, NEW n \in AllNodes', n.idx = wk[w].at
        PROVE  ~slot_passed(n.mark, w)'
    <3>1. CASE n = n0
      BY <1>1, <1>3, <2>1, <3>1, MarkNow
    <3>2. CASE n # n0
      BY <1>1, <1>6, <2>1, <3>2 DEF IInv, AtOK, slot_passed
    <3>3. QED BY <3>1, <3>2
  <2>2. QED BY <1>1, <2>1 DEF IInv, AtOK, slot_passed
<1>15. Unique(Owned, live)'
  <2> DEFINE A == {<<"node", n0, x>> : x \in maint.snaps}
  <2>1. InOld' = InOld /\ InPump' = InPump /\ InLeaked' = InLeaked /\ InSlot' = InSlot /\ InRetiring' = InRetiring
    BY <1>1 DEF InOld, InPump, InLeaked, Ptr, InSlot, InRetiring
  <2>2. InClose' = {}
    BY <1>7 DEF InClose
  <2>3. \A o : o \in InNode' <=> o \in InNode \/ o \in A
    <3>1. \A o : o \in InNode' <=> \E n \in AllNodes' : \E x \in n.snaps : o = <<"node", n, x>>
      BY DEF InNode, AllNodes
    <3>2. \A o : o \in InNode <=> \E n \in AllNodes : \E x \in n.snaps : o = <<"node", n, x>>
      BY DEF InNode, AllNodes
    <3>3. \A o : o \in A <=> \E x \in n0.snaps : o = <<"node", n0, x>>
      BY <1>3
    <3> HIDE DEF A
    <3>4. QED BY <1>6, <3>1, <3>2, <3>3
  <2>4. \A x : <<"node", n0, x>>[3] = x /\ <<"close", 0, x>>[3] = x
    OBVIOUS
  <2>5. \A o : o \in Owned' <=> (o \in Owned /\ o \notin InClose) \/ o \in A
    <3>1. \A o \in InClose : /\ o \notin InOld /\ o \notin InPump /\ o \notin InSlot
                             /\ o \notin InRetiring /\ o \notin InNode /\ o \notin InLeaked
      BY OwnerKinds
    <3> HIDE DEF A
    <3>2. QED BY <2>1, <2>2, <2>3, <3>1 DEF Owned
  <2>6. \A a, b \in A : a[3] = b[3] => a = b
    BY <2>4
  <2>7. \A y : y \in maint.snaps <=> \E a \in A : a[3] = y
    BY <2>4, ZenonT(60)
  <2>8. \A y : y \in maint.snaps <=> \E r \in InClose : r[3] = y
    BY <2>4, ZenonT(60) DEF InClose
  <2>9. InClose \subseteq Owned
    BY DEF Owned
  <2> HIDE DEF A
  <2>10. maint.snaps \subseteq live
    BY <2>8, <2>9 DEF IInv, Unique
  <2>11. \A a \in A : \E r \in InClose : r[3] = a[3]
    BY <2>7, <2>8
  <2>12. \A y : y \in live' <=> (y \in live /\ \A r \in InClose : r[3] # y) \/ \E a \in A : a[3] = y
    BY <1>1, <2>7, <2>8, <2>10
  <2>13. QED BY <2>5, <2>6, <2>9, <2>11, <2>12, MoveOwners DEF IInv, Unique
<1>16. QED BY <1>8, <1>9, <1>10, <1>11, <1>12, <1>13, <1>14, <1>15 DEF IInv

-----------------------------------------------------------------------------
(* Sweeping.                                                               *)

\* Nodes that only change place keep everything but NodePlaces.
LEMMA MovedNodes ==
  ASSUME IInv, UNCHANGED <<v, wk, slot, pump, maint, live, leaked>>, AllNodes' = AllNodes,
         nodes' \subseteq Node, sweep' \in [Sweepers -> SweepRec], NodePlaces'
  PROVE  IInv'
<1>1. Types'
  BY DEF IInv, Types
<1>2. Owned' = Owned
  BY KeepOwned
<1>3. Unique(Owned, live)'
  BY <1>2 DEF IInv, Unique
<1>4. RoomOK' /\ RetiringOnce' /\ ThreadsOK'
  BY DEF IInv, RoomOK, RetiringOnce, ThreadsOK
<1>5. ClosingOK'
  BY DEF IInv, ClosingOK, MaintAt
<1>6. HeldOK' /\ AtOK'
  BY DEF IInv, HeldOK, AtOK, slot_passed
<1>7. QED BY <1>1, <1>3, <1>4, <1>5, <1>6 DEF IInv

\* A sweep takes the whole list of nodes.
LEMMA SweepTakeStep ==
  ASSUME IInv, NEW t \in Sweepers, SweepTake(t)
  PROVE  IInv'
<1> DEFINE new == [on |-> TRUE, chain |-> nodes, keep |-> {}]
<1>1. /\ UNCHANGED <<v, wk, slot, pump, maint, live, leaked>>
      /\ sweep' = [sweep EXCEPT ![t] = new] /\ nodes' = {}
  BY DEF SweepTake
<1>2. ~sweep[t].on
  BY DEF SweepTake, MaySweep, Batch
<1>3. sweep[t].chain = {} /\ sweep[t].keep = {}
  BY <1>2 DEF IInv, NodePlaces
<1>4. new.on /\ new.chain = nodes /\ new.keep = {}
  OBVIOUS
<1>5. new \in SweepRec
  BY DEF SweepRec, IInv, Types
<1> HIDE DEF new
<1>6. sweep' \in [Sweepers -> SweepRec]
  BY <1>1, <1>5 DEF IInv, Types
<1>7. sweep'[t] = new /\ \A u \in Sweepers \ {t} : sweep'[u] = sweep[u]
  BY <1>1 DEF IInv, Types
<1>8. \A n : n \in AllNodes' <=> n \in AllNodes
  BY <1>1, <1>3, <1>4, <1>7, NodeMember
<1>9. NodePlaces'
  BY <1>1, <1>3, <1>4, <1>7 DEF IInv, NodePlaces
<1>10. QED BY <1>1, <1>6, <1>8, <1>9, MovedNodes

\* A sweep puts the nodes it kept back on the list.
LEMMA SweepBackStep ==
  ASSUME IInv, NEW t \in Sweepers, SweepBack(t)
  PROVE  IInv'
<1>1. /\ UNCHANGED <<v, wk, slot, pump, maint, live, leaked>>
      /\ sweep' = [sweep EXCEPT ![t] = IdleSweep] /\ nodes' = nodes \cup sweep[t].keep
      /\ sweep[t].chain = {}
  BY DEF SweepBack
<1>2. IdleSweep \in SweepRec /\ ~IdleSweep.on /\ IdleSweep.chain = {} /\ IdleSweep.keep = {}
  BY DEF IdleSweep, SweepRec
<1>3. sweep' \in [Sweepers -> SweepRec] /\ sweep[t].keep \subseteq Node
  BY <1>1, <1>2 DEF IInv, Types, SweepRec
<1>4. nodes' \subseteq Node
  BY <1>1, <1>3 DEF IInv, Types
<1>5. sweep'[t] = IdleSweep /\ \A u \in Sweepers \ {t} : sweep'[u] = sweep[u]
  BY <1>1 DEF IInv, Types
<1>6. \A n : n \in AllNodes' <=> n \in AllNodes
  BY <1>1, <1>2, <1>5, NodeMember
<1>7. NodePlaces'
  BY <1>1, <1>2, <1>5 DEF IInv, NodePlaces
<1>8. QED BY <1>1, <1>3, <1>4, <1>6, <1>7, MovedNodes

\* A sweep that has no more nodes than before has them where they belong.
LEMMA PlacesShrink ==
  ASSUME NodePlaces, nodes' = nodes,
         \A t \in Sweepers : /\ sweep'[t].on = sweep[t].on
                             /\ \A n : n \in sweep'[t].chain \/ n \in sweep'[t].keep
                                      => n \in sweep[t].chain \/ n \in sweep[t].keep
                             /\ sweep'[t].chain \cap sweep'[t].keep = {}
  PROVE  NodePlaces'
<1>1. ASSUME NEW t \in Sweepers
      PROVE  /\ nodes' \cap (sweep'[t].chain \cup sweep'[t].keep) = {}
             /\ ~sweep'[t].on => sweep'[t].chain = {} /\ sweep'[t].keep = {}
  BY DEF NodePlaces
<1>2. ASSUME NEW t \in Sweepers, NEW u \in Sweepers, t # u
      PROVE  (sweep'[t].chain \cup sweep'[t].keep) \cap (sweep'[u].chain \cup sweep'[u].keep) = {}
  BY <1>2 DEF NodePlaces
<1>3. QED BY <1>1, <1>2 DEF NodePlaces

\* A node that has passed is freed with its snapshots, and its slot with it:
\* no worker waits for them.
LEMMA SweepNodeStep ==
  ASSUME IInv, NEW t \in Sweepers, SweepNode(t)
  PROVE  IInv'
<1>1. PICK n0 \in sweep[t].chain :
      /\ IF qsbr_mark_passed(n0.mark)
         THEN /\ live' = live \ n0.snaps
              /\ slot' = IF n0.idx = None THEN slot ELSE [slot EXCEPT ![n0.idx].st = "FREE"]
              /\ sweep' = [sweep EXCEPT ![t].chain = @ \ {n0}]
         ELSE /\ sweep' = [sweep EXCEPT ![t].chain = @ \ {n0}, ![t].keep = @ \cup {n0}]
              /\ UNCHANGED <<live, slot>>
      /\ UNCHANGED <<v, wk, pump, maint, nodes, leaked>>
  BY DEF SweepNode
<1>2. sweep[t] \in SweepRec /\ n0 \in Node
  BY DEF IInv, Types, SweepRec
<1>3. /\ n0 \in AllNodes /\ n0 \notin nodes /\ n0 \notin sweep[t].keep /\ sweep[t].on
      /\ \A u \in Sweepers : u # t => n0 \notin sweep[u].chain /\ n0 \notin sweep[u].keep
  <2>1. n0 \in AllNodes
    BY NodeMember
  <2>2. QED BY <2>1 DEF IInv, NodePlaces
<1>4. CASE ~qsbr_mark_passed(n0.mark)
  <2> DEFINE new == [sweep[t] EXCEPT !.chain = @ \ {n0}, !.keep = @ \cup {n0}]
  <2>1. /\ new \in SweepRec /\ new.on = sweep[t].on
        /\ new.chain = sweep[t].chain \ {n0} /\ new.keep = sweep[t].keep \cup {n0}
    BY <1>2 DEF SweepRec
  <2>2. sweep' = [sweep EXCEPT ![t] = new]
    BY <1>1, <1>4 DEF IInv, Types
  <2> HIDE DEF new
  <2>3. sweep' \in [Sweepers -> SweepRec]
    BY <2>1, <2>2 DEF IInv, Types
  <2>4. sweep'[t] = new /\ \A u \in Sweepers \ {t} : sweep'[u] = sweep[u]
    BY <2>2 DEF IInv, Types
  <2>5. \A n : n \in AllNodes' <=> n \in AllNodes
    BY <1>1, <2>1, <2>4, NodeMember
  <2>6. NodePlaces'
    <3>1. \A u \in Sweepers : sweep[u].chain \cap sweep[u].keep = {}
      BY DEF IInv, NodePlaces
    <3>2. QED BY <1>1, <1>3, <2>1, <2>4, <3>1, PlacesShrink DEF IInv
  <2>7. nodes' \subseteq Node
    BY <1>1 DEF IInv, Types
  <2>8. QED BY <1>1, <1>4, <2>3, <2>5, <2>6, <2>7, MovedNodes
<1>5. CASE qsbr_mark_passed(n0.mark)
  <2> DEFINE new == [sweep[t] EXCEPT !.chain = @ \ {n0}]
  <2>1. /\ new \in SweepRec /\ new.on = sweep[t].on
        /\ new.chain = sweep[t].chain \ {n0} /\ new.keep = sweep[t].keep
    BY <1>2 DEF SweepRec
  <2>2. /\ UNCHANGED <<v, wk, pump, maint, nodes, leaked>> /\ live' = live \ n0.snaps
        /\ slot' = IF n0.idx = None THEN slot ELSE [slot EXCEPT ![n0.idx].st = "FREE"]
        /\ sweep' = [sweep EXCEPT ![t] = new]
    BY <1>1, <1>5 DEF IInv, Types
  <2> HIDE DEF new
  <2>3. sweep'[t] = new /\ \A u \in Sweepers \ {t} : sweep'[u] = sweep[u]
    BY <2>2 DEF IInv, Types
  <2>4. \A n : n \in AllNodes' <=> n \in AllNodes /\ n # n0
    BY <1>3, <2>1, <2>2, <2>3, NodeMember
  <2>5. n0.idx # None => n0.idx \in Slots
    BY <1>2 DEF Node
  <2>6. \A s \in Slots : /\ slot'[s].snap = slot[s].snap /\ slot'[s].retiring = slot[s].retiring
                         /\ slot'[s].key = slot[s].key
                         /\ s # n0.idx => slot'[s].st = slot[s].st
                         /\ s = n0.idx => slot'[s].st = "FREE"
    <3>1. None \notin Slots
      BY SegStoreAssumption DEF None
    <3>2. CASE n0.idx = None
      BY <2>2, <3>1, <3>2
    <3>3. CASE n0.idx # None
      BY <2>2, <2>5, <3>3 DEF IInv, Types, SlotRec
    <3>4. QED BY <3>2, <3>3
  <2>7. Types'
    <3>1. sweep' \in [Sweepers -> SweepRec]
      BY <2>1, <2>2 DEF IInv, Types
    <3>2. slot' \in [Slots -> SlotRec]
      <4>1. CASE n0.idx = None
        BY <2>2, <4>1 DEF IInv, Types
      <4>2. CASE n0.idx # None
        <5>1. [slot[n0.idx] EXCEPT !.st = "FREE"] \in SlotRec
          BY <2>5, <4>2 DEF IInv, Types, SlotRec
        <5>2. QED BY <2>2, <2>5, <4>2, <5>1 DEF IInv, Types
      <4>3. QED BY <4>1, <4>2
    <3>3. QED BY <2>2, <3>1, <3>2 DEF IInv, Types
  <2>8. RoomOK' /\ RetiringOnce'
    BY <2>6 DEF IInv, RoomOK, RetiringOnce
  <2>9. ThreadsOK'
    BY <2>2 DEF IInv, ThreadsOK
  <2>10. NodePlaces'
    <3>1. \A u \in Sweepers : sweep[u].chain \cap sweep[u].keep = {}
      BY DEF IInv, NodePlaces
    <3>2. QED BY <1>1, <1>3, <2>1, <2>3, <3>1, PlacesShrink DEF IInv
  <2>11. ClosingOK'
    <3>1. \A s \in Slots : MaintAt(s)' = MaintAt(s)
      BY <2>2 DEF MaintAt
    <3>2. ASSUME NEW s \in Slots, s = n0.idx
          PROVE  ~MaintAt(s) /\ \A n \in AllNodes' : n.idx # s
      BY <1>3, <2>4, <3>2 DEF IInv, ClosingOK
    <3>3. ASSUME NEW s \in Slots, s # n0.idx
          PROVE  /\ slot[s].st # "CLOSING" => ~MaintAt(s) /\ \A n \in AllNodes' : n.idx # s
                 /\ slot[s].st = "CLOSING" => MaintAt(s) \/ \E n \in AllNodes' : n.idx = s
                 /\ MaintAt(s) => \A n \in AllNodes' : n.idx # s
                 /\ \A n, m \in AllNodes' : n.idx = s /\ m.idx = s => n = m
      BY <2>4, <3>3 DEF IInv, ClosingOK
    <3>4. QED BY <2>6, <3>1, <3>2, <3>3 DEF ClosingOK
  <2>12. \A w \in Workers : slot_passed(n0.mark, w)
    BY <1>5 DEF qsbr_mark_passed
  <2>13. HeldOK'
    <3>1. \A w \in Workers : \A x \in wk[w].held : x \in live'
      BY <1>3, <2>2, <2>12 DEF IInv, HeldOK
    <3>2. QED BY <2>2, <2>4, <2>6, <3>1 DEF IInv, HeldOK, slot_passed
  <2>14. AtOK'
    <3>1. ASSUME NEW w \in Workers, wk[w].at # None
          PROVE  slot'[wk[w].at].key = wk[w].key /\ slot'[wk[w].at].st # "FREE"
      <4>1. wk[w].at \in Slots
        BY <3>1 DEF IInv, Types, WkRec
      <4>2. n0.idx # wk[w].at
        BY <1>3, <2>12, <3>1 DEF IInv, AtOK
      <4>3. QED BY <2>6, <3>1, <4>1, <4>2 DEF IInv, AtOK
    <3>2. QED BY <2>2, <2>4, <3>1 DEF IInv, AtOK, slot_passed
  <2>15. Unique(Owned, live)'
    <3> DEFINE R == {<<"node", n0, x>> : x \in n0.snaps}
               A == {}
    <3>1. InSlot' = InSlot /\ InRetiring' = InRetiring
      <4>1. InSlot' = InSlot
        BY <2>6 DEF InSlot
      <4>2. InRetiring' = InRetiring
        BY <2>6 DEF InRetiring
      <4>3. QED BY <4>1, <4>2
    <3>2. InOld' = InOld /\ InPump' = InPump /\ InClose' = InClose /\ InLeaked' = InLeaked
      BY <2>2 DEF InOld, InPump, InClose, InLeaked, Ptr
    <3>3. /\ \A o : o \in InNode' <=> \E n \in AllNodes' : \E x \in n.snaps : o = <<"node", n, x>>
          /\ \A o : o \in InNode <=> \E n \in AllNodes : \E x \in n.snaps : o = <<"node", n, x>>
      BY DEF InNode, AllNodes
    <3>4. \A o : o \in R <=> \E x \in n0.snaps : o = <<"node", n0, x>>
      OBVIOUS
    <3>5. \A r \in R : r[1] = "node" /\ r[2] = n0
      OBVIOUS
    <3>6. \A y : y \in n0.snaps <=> \E r \in R : r[3] = y
      <4>1. \A x : <<"node", n0, x>>[3] = x
        OBVIOUS
      <4>2. QED BY <4>1
    <3> HIDE DEF R
    <3>7. \A n, x : <<"node", n, x>>[2] = n
      OBVIOUS
    <3>8. \A o : o \in InNode' <=> o \in InNode /\ o \notin R
      BY <2>4, <3>3, <3>4, <3>5, <3>7
    <3>9. R \subseteq InNode
      BY <1>3, <3>3, <3>4
    <3>10. \A o : o \in Owned' <=> (o \in Owned /\ o \notin R) \/ o \in A
      <4>1. \A o \in R : /\ o \notin InOld /\ o \notin InPump /\ o \notin InSlot
                         /\ o \notin InRetiring /\ o \notin InClose /\ o \notin InLeaked
        BY <3>5, OwnerKinds
      <4>2. QED BY <3>1, <3>2, <3>8, <4>1 DEF Owned
    <3>11. \A y : y \in live' <=> (y \in live /\ \A r \in R : r[3] # y) \/ \E a \in A : a[3] = y
      BY <2>2, <3>6
    <3>12. R \subseteq Owned
      BY <3>9 DEF Owned
    <3>13. (\A a, b \in A : a[3] = b[3] => a = b) /\ \A a \in A : a[3] \notin live \/ \E r \in R : r[3] = a[3]
      OBVIOUS
    <3> HIDE DEF A
    <3>14. QED BY <3>10, <3>11, <3>12, <3>13, MoveOwners DEF IInv, Unique
  <2>16. QED BY <2>7, <2>8, <2>9, <2>10, <2>11, <2>13, <2>14, <2>15 DEF IInv
<1>6. QED BY <1>4, <1>5

-----------------------------------------------------------------------------
(* The pump retires what its push replaced: entries that have passed are   *)
(* freed, the replaced snapshot goes to the array or, when that is full,   *)
(* to a node.                                                              *)

\* Entries that are kept fit, and one more fits when they do not fill the
\* array.
LEMMA ArrayRoom ==
  ASSUME IInv, NEW s \in Slots, NEW kept \in SUBSET slot[s].retiring, NEW m
  PROVE  /\ IsFiniteSet(kept) /\ Cardinality(kept) <= HLS_SNAP_RETIRE_DEPTH
         /\ ~RetireFull(kept) => /\ IsFiniteSet(kept \cup {m})
                                 /\ Cardinality(kept \cup {m}) <= HLS_SNAP_RETIRE_DEPTH
<1>1. IsFiniteSet(slot[s].retiring) /\ Cardinality(slot[s].retiring) <= HLS_SNAP_RETIRE_DEPTH
  BY DEF IInv, RoomOK
<1>2. /\ IsFiniteSet(kept) /\ Cardinality(kept) <= Cardinality(slot[s].retiring)
      /\ Cardinality(kept) \in Nat /\ Cardinality(slot[s].retiring) \in Nat
  BY <1>1, FS_Subset, FS_CardinalityType
<1>3. HLS_SNAP_RETIRE_DEPTH \in Nat
  BY SegStoreAssumption
<1>4. Cardinality(kept) <= HLS_SNAP_RETIRE_DEPTH
  BY <1>1, <1>2, <1>3
<1>5. ASSUME ~RetireFull(kept)
      PROVE  IsFiniteSet(kept \cup {m}) /\ Cardinality(kept \cup {m}) <= HLS_SNAP_RETIRE_DEPTH
  <2>1. Cardinality(kept) < HLS_SNAP_RETIRE_DEPTH
    BY <1>2, <1>3, <1>5 DEF RetireFull
  <2>2. /\ IsFiniteSet(kept \cup {m})
        /\ Cardinality(kept \cup {m}) = Cardinality(kept) \/ Cardinality(kept \cup {m}) = Cardinality(kept) + 1
    BY <1>2, FS_AddElement
  <2>3. Cardinality(kept \cup {m}) <= HLS_SNAP_RETIRE_DEPTH
    BY <1>2, <1>3, <2>1, <2>2
  <2>4. QED BY <2>2, <2>3
<1>6. QED BY <1>2, <1>4, <1>5

\* The owners in the retiring arrays after the step.
LEMMA ArrayOwners ==
  ASSUME IInv, NEW s \in Slots, NEW kept \in SUBSET slot[s].retiring, NEW extra,
         \A t \in Slots : slot'[t].retiring = IF t = s THEN kept \cup extra ELSE slot[t].retiring
  PROVE  \A o : o \in InRetiring' <=>
              \/ o \in InRetiring /\ ~(\E e \in slot[s].retiring \ kept : o = <<"retiring", s, e.snap>>)
              \/ \E m \in extra : o = <<"retiring", s, m.snap>>
<1>1. \A o : o \in InRetiring <=> \E t \in Slots : \E e \in slot[t].retiring : o = <<"retiring", t, e.snap>>
  BY DEF InRetiring
<1>2. \A o : o \in InRetiring' <=> \E t \in Slots : \E e \in slot'[t].retiring : o = <<"retiring", t, e.snap>>
  BY DEF InRetiring
<1>3. \A t, x : <<"retiring", t, x>>[2] = t /\ <<"retiring", t, x>>[3] = x
  OBVIOUS
<1>4. ASSUME NEW e \in kept, NEW f \in slot[s].retiring \ kept
      PROVE  <<"retiring", s, e.snap>> # <<"retiring", s, f.snap>>
  <2>1. e.snap # f.snap
    BY DEF IInv, RetiringOnce
  <2>2. QED BY <1>3, <2>1
<1>5. ASSUME NEW o \in InRetiring'
      PROVE  \/ o \in InRetiring /\ ~(\E e \in slot[s].retiring \ kept : o = <<"retiring", s, e.snap>>)
             \/ \E m \in extra : o = <<"retiring", s, m.snap>>
  <2>1. PICK t \in Slots : \E e \in slot'[t].retiring : o = <<"retiring", t, e.snap>>
    BY <1>2
  <2>2. CASE t # s
    <3>1. o \in InRetiring
      BY <1>1, <2>1, <2>2
    <3>2. o[2] # s
      BY <1>3, <2>1, <2>2
    <3>3. QED BY <1>3, <3>1, <3>2
  <2>3. CASE t = s
    <3>1. PICK e \in kept \cup extra : o = <<"retiring", s, e.snap>>
      BY <2>1, <2>3
    <3>2. CASE e \in extra
      BY <3>1, <3>2
    <3>3. CASE e \in kept
      BY <1>1, <1>4, <3>1, <3>3
    <3>4. QED BY <3>2, <3>3
  <2>4. QED BY <2>2, <2>3
<1>6. ASSUME NEW o \in InRetiring, ~(\E e \in slot[s].retiring \ kept : o = <<"retiring", s, e.snap>>)
      PROVE  o \in InRetiring'
  <2>1. PICK t \in Slots : \E e \in slot[t].retiring : o = <<"retiring", t, e.snap>>
    BY <1>1
  <2>2. QED BY <1>2, <1>6, <2>1
<1>7. ASSUME NEW m \in extra PROVE <<"retiring", s, m.snap>> \in InRetiring'
  BY <1>2
<1>8. QED BY <1>5, <1>6, <1>7

\* The pump retires the snapshot it has replaced.
LEMMA SnapRetireStep == ASSUME IInv, snap_retire PROVE IInv'
<1> DEFINE s == pump.at
           x == pump.old
           kept == {e \in slot[s].retiring : ~qsbr_mark_passed(e.mark)}
           freed == slot[s].retiring \ kept
           full == RetireFull(kept)
           m == [snap |-> x, mark |-> v]
           extra == IF full THEN {} ELSE {m}
           own == <<"pump", 0, x>>
<1>1. /\ UNCHANGED <<v, wk, maint, sweep>> /\ pump.busy
      /\ pump' = [pump EXCEPT !.busy = FALSE, !.old = NoSnap]
      /\ s \in Slots /\ pump.key # NoKey /\ pump \in PumpRec /\ slot[s] \in SlotRec
  BY DEF IInv, Types, ThreadsOK, snap_retire
<1>2. pump' \in PumpRec /\ ~pump'.busy /\ pump'.old = NoSnap /\ pump'.key = pump.key /\ pump'.at = s
  BY <1>1 DEF PumpRec
<1>3. ThreadsOK'
  BY <1>1, <1>2 DEF IInv, ThreadsOK
<1>4. CASE x = NoSnap
  <2>1. UNCHANGED <<slot, live, nodes, leaked>>
    BY <1>4 DEF snap_retire
  <2>2. Types'
    BY <1>1, <1>2, <2>1 DEF IInv, Types
  <2>3. /\ AllNodes' = AllNodes
        /\ RoomOK' /\ Unique(Owned, live)' /\ RetiringOnce' /\ NodePlaces' /\ ClosingOK'
    BY <1>1, <1>2, <1>4, <2>1, QuietStep
  <2>4. HeldOK' /\ AtOK'
    BY <1>1, <2>1, <2>3 DEF IInv, HeldOK, AtOK, slot_passed
  <2>5. QED BY <1>3, <2>2, <2>3, <2>4 DEF IInv
<1>5. CASE x # NoSnap
  <2>1. /\ live' = live \ {e.snap : e \in freed}
        /\ slot' = [slot EXCEPT ![s].retiring = IF full THEN kept ELSE kept \cup {m}]
        /\ IF full THEN snap_retire_async({x}) ELSE UNCHANGED <<nodes, leaked>>
    BY <1>5 DEF snap_retire, qsbr_mark
  <2>2. x \in Snaps /\ own \in InPump /\ own \in Owned /\ own[1] = "pump" /\ own[3] = x
    BY <1>1, <1>5 DEF PumpRec, Owned, InPump, Ptr
  <2>3. InPump' = {} /\ InPump = {own}
    BY <1>2, <1>5 DEF InPump, Ptr
  <2>4. /\ m.snap = x /\ m.mark = v /\ m \in [snap : Snaps, mark : Marks]
        /\ slot[s].retiring \subseteq [snap : Snaps, mark : Marks]
    BY <1>1, <2>2 DEF Marks, IInv, Types, SlotRec
  <2>5. /\ kept \subseteq slot[s].retiring
        /\ \A e \in freed : e \in slot[s].retiring /\ \A w \in Workers : slot_passed(e.mark, w)
    BY DEF qsbr_mark_passed
  <2>6. \A e \in slot[s].retiring : <<"retiring", s, e.snap>> \in Owned
    BY <1>1 DEF Owned, InRetiring
  <2>7. /\ x \in live /\ \A n \in AllNodes : x \notin n.snaps
        /\ \A t \in Slots : \A e \in slot[t].retiring : e.snap # x
    <3>1. x \in live /\ \A n \in AllNodes : x \notin n.snaps
      BY <2>2, NotInNodes DEF IInv, Unique
    <3>2. ASSUME NEW t \in Slots, NEW e \in slot[t].retiring PROVE e.snap # x
      <4>1. <<"retiring", t, e.snap>> \in Owned
        BY DEF Owned, InRetiring
      <4>2. QED BY <2>2, <4>1 DEF IInv, Unique
    <3>3. QED BY <3>1, <3>2
  <2> HIDE DEF m
  <2>8. \A t \in Slots : /\ slot'[t].retiring = IF t = s THEN kept \cup extra ELSE slot[t].retiring
                         /\ slot'[t].snap = slot[t].snap /\ slot'[t].st = slot[t].st
                         /\ slot'[t].key = slot[t].key
    <3>1. kept \cup extra = IF full THEN kept ELSE kept \cup {m}
      OBVIOUS
    <3> HIDE DEF full, kept, extra
    <3>2. QED BY <1>1, <2>1, <3>1 DEF IInv, Types, SlotRec
  <2>9. slot' \in [Slots -> SlotRec]
    <3>1. kept \cup extra \subseteq [snap : Snaps, mark : Marks]
      BY <2>4
    <3>2. kept \cup extra = IF full THEN kept ELSE kept \cup {m}
      OBVIOUS
    <3> HIDE DEF full, kept, extra
    <3>3. [slot[s] EXCEPT !.retiring = kept \cup extra] \in SlotRec
      BY <1>1, <3>1 DEF SlotRec
    <3>4. slot' = [slot EXCEPT ![s] = [slot[s] EXCEPT !.retiring = kept \cup extra]]
      BY <1>1, <2>1, <3>2 DEF IInv, Types
    <3>5. QED BY <1>1, <3>3, <3>4 DEF IInv, Types
  <2>10. RoomOK'
    <3>1. (full => kept \cup extra = kept) /\ (~full => kept \cup extra = kept \cup {m})
      OBVIOUS
    <3>2. kept \in SUBSET slot[s].retiring /\ full = RetireFull(kept)
      BY <2>5
    <3> HIDE DEF full, kept, extra, s
    <3>3. /\ IsFiniteSet(kept) /\ Cardinality(kept) <= HLS_SNAP_RETIRE_DEPTH
          /\ ~full => /\ IsFiniteSet(kept \cup {m})
                      /\ Cardinality(kept \cup {m}) <= HLS_SNAP_RETIRE_DEPTH
      BY <1>1, <3>2, ArrayRoom
    <3>4. IsFiniteSet(kept \cup extra) /\ Cardinality(kept \cup extra) <= HLS_SNAP_RETIRE_DEPTH
      <4>1. CASE full
        BY <3>1, <3>3, <4>1
      <4>2. CASE ~full
        BY <3>1, <3>3, <4>2
      <4>3. QED BY <4>1, <4>2
    <3>5. QED BY <2>8, <3>4 DEF IInv, RoomOK
  <2>11. RetiringOnce'
    <3>1. \A e \in extra : e = m
      OBVIOUS
    <3> HIDE DEF full, kept, extra
    <3>2. ASSUME NEW e \in kept \cup extra, NEW f \in kept \cup extra, e.snap = f.snap PROVE e = f
      <4>1. \A g \in kept : g.snap # x
        BY <1>1, <2>5, <2>7
      <4>2. \A g \in extra : g = m /\ g.snap = x
        BY <2>4, <3>1
      <4>3. CASE e \in kept /\ f \in kept
        BY <1>1, <2>5, <3>2, <4>3 DEF IInv, RetiringOnce
      <4>4. QED BY <3>2, <4>1, <4>2, <4>3
    <3>3. QED BY <2>8, <3>2 DEF IInv, RetiringOnce
  <2>12. \A o : o \in InRetiring' <=>
              \/ o \in InRetiring /\ ~(\E e \in freed : o = <<"retiring", s, e.snap>>)
              \/ \E e \in extra : o = <<"retiring", s, e.snap>>
    <3> HIDE DEF full, kept, extra
    <3>1. kept \in SUBSET slot[s].retiring
      BY <2>5
    <3>2. \A t \in Slots : slot'[t].retiring = IF t = s THEN kept \cup extra ELSE slot[t].retiring
      BY <2>8
    <3> HIDE DEF s
    <3>3. QED BY <1>1, <3>1, <3>2, ArrayOwners
  <2>13. InSlot' = InSlot /\ InOld' = InOld /\ InClose' = InClose
    <3> HIDE DEF full, kept, extra
    <3>1. InSlot' = InSlot
      BY <2>8 DEF InSlot
    <3>2. QED BY <1>1, <3>1 DEF InOld, InClose
  <2>14. /\ nodes' \subseteq Node /\ leaked' \subseteq Snaps
         /\ NodePlaces'
         /\ \A n \in AllNodes' : n.idx # None => n \in AllNodes
         /\ \A n : n \in AllNodes => n \in AllNodes'
         /\ \A y \in Workers : \A z \in wk[y].held : \A n \in AllNodes' :
              z \in n.snaps => ~slot_passed(n.mark, y)'
         /\ \E a : /\ a[3] = x
                   /\ \A o : o \in InRetiring' \/ o \in InNode' \/ o \in InLeaked' <=>
                        \/ o \in InRetiring /\ ~(\E e \in freed : o = <<"retiring", s, e.snap>>)
                        \/ o \in InNode \/ o \in InLeaked \/ o = a
    <3>1. CASE full
      <4>1. extra = {}
        BY <3>1
      <4>2. PICK lost \in SUBSET {x} : /\ leaked' = leaked \cup lost
                                       /\ nodes' = nodes \cup {AsyncNode(y) : y \in {x} \ lost}
        BY <2>1, <3>1 DEF snap_retire_async, AsyncNode, qsbr_mark
      <4> DEFINE S == {x}
      <4>3. S \in SUBSET Snaps /\ \A y \in S : \A n \in AllNodes : y \notin n.snaps
        BY <2>2, <2>7
      <4>4. \A y : y \in S <=> y = x
        OBVIOUS
      <4>5. lost \in SUBSET S /\ nodes' = nodes \cup {AsyncNode(y) : y \in S \ lost}
        BY <4>2
      <4>6. leaked' \subseteq Snaps
        BY <4>2, <2>2 DEF IInv, Types
      <4> HIDE DEF S, full, kept, extra, freed
      <4>7. /\ nodes' \subseteq Node
            /\ NodePlaces'
            /\ \A n \in AllNodes' : n.idx # None => n \in AllNodes
            /\ \A n : n \in AllNodes => n \in AllNodes'
            /\ \A y \in Workers : \A z \in wk[y].held : \A n \in AllNodes' :
                 z \in n.snaps => ~slot_passed(n.mark, y)'
        BY <1>1, <4>3, <4>5, AsyncNodes
      <4>8. /\ \A o : o \in InNode' \/ o \in InLeaked' <=>
                      o \in InNode \/ o \in InLeaked \/ \E y \in S : o = AsyncOwner(lost, y)
            /\ \A y \in S : AsyncOwner(lost, y)[3] = y
        BY <1>1, <4>2, <4>5, AsyncOwners
      <4>9. AsyncOwner(lost, x)[3] = x
        BY <4>4, <4>8
      <4>10. \A o : o \in InRetiring' \/ o \in InNode' \/ o \in InLeaked' <=>
                        \/ o \in InRetiring /\ ~(\E e \in freed : o = <<"retiring", s, e.snap>>)
                        \/ o \in InNode \/ o \in InLeaked \/ o = AsyncOwner(lost, x)
        BY <2>12, <4>1, <4>4, <4>8
      <4>11. QED BY <4>6, <4>7, <4>9, <4>10
    <3>2. CASE ~full
      <4>1. \A e : e \in extra <=> e = m
        BY <3>2
      <4>2. UNCHANGED <<nodes, leaked>>
        BY <2>1, <3>2
      <4> HIDE DEF full, kept, extra, freed
      <4>3. AllNodes' = AllNodes /\ InNode' = InNode /\ InLeaked' = InLeaked
        BY <1>1, <4>2 DEF AllNodes, Swept, InNode, InLeaked
      <4>4. NodePlaces' /\ nodes' \subseteq Node /\ leaked' \subseteq Snaps
        BY <1>1, <4>2 DEF IInv, NodePlaces, Types
      <4>5. \A y \in Workers : \A z \in wk[y].held : \A n \in AllNodes' :
              z \in n.snaps => ~slot_passed(n.mark, y)'
        BY <1>1, <4>3 DEF IInv, HeldOK, slot_passed
      <4>6. <<"retiring", s, x>>[3] = x
        OBVIOUS
      <4>7. \A o : o \in InRetiring' \/ o \in InNode' \/ o \in InLeaked' <=>
                        \/ o \in InRetiring /\ ~(\E e \in freed : o = <<"retiring", s, e.snap>>)
                        \/ o \in InNode \/ o \in InLeaked \/ o = <<"retiring", s, x>>
        BY <2>4, <2>12, <4>1, <4>3
      <4>8. QED BY <4>3, <4>4, <4>5, <4>6, <4>7
    <3>3. QED BY <3>1, <3>2
  <2>15. \A e \in extra : e.snap = x /\ e.mark = v
    BY <2>4
  <2> HIDE DEF full, kept, extra
  <2>16. Types'
    BY <1>1, <1>2, <2>1, <2>9, <2>14 DEF IInv, Types
  <2>17. ClosingOK'
    <3>1. None \notin Slots
      BY SegStoreAssumption DEF None
    <3>2. QED BY <1>1, <2>8, <2>14, <3>1 DEF IInv, ClosingOK, MaintAt
  <2>18. AtOK'
    <3>1. \A w \in Workers : wk[w].at # None => wk[w].at \in Slots
      BY DEF IInv, Types, WkRec
    <3>2. QED BY <1>1, <2>8, <2>14, <3>1 DEF IInv, AtOK, slot_passed
  <2>19. HeldOK'
    <3>1. ASSUME NEW w \in Workers, NEW z \in wk[w].held PROVE z \in live'
      <4>1. ASSUME NEW e \in freed, e.snap = z PROVE FALSE
        BY <1>1, <2>5, <4>1 DEF IInv, HeldOK
      <4>2. QED BY <2>1, <4>1 DEF IInv, HeldOK
    <3>2. ASSUME NEW w \in Workers, NEW z \in wk[w].held, NEW t \in Slots,
                 NEW e \in slot'[t].retiring, e.snap = z
          PROVE  ~slot_passed(e.mark, w)'
      <4>1. CASE e \in slot[t].retiring
        BY <1>1, <3>2, <4>1 DEF IInv, HeldOK, slot_passed
      <4>2. CASE e \notin slot[t].retiring
        <5>1. e.mark = v
          BY <2>5, <2>8, <2>15, <4>2
        <5>2. QED BY <1>1, <5>1, MarkNow
      <4>3. QED BY <4>1, <4>2
    <3>3. QED BY <1>1, <2>14, <3>1, <3>2 DEF HeldOK
  <2>20. Unique(Owned, live)'
    <3>1. PICK a : /\ a[3] = x
                   /\ \A o : o \in InRetiring' \/ o \in InNode' \/ o \in InLeaked' <=>
                        \/ o \in InRetiring /\ ~(\E e \in freed : o = <<"retiring", s, e.snap>>)
                        \/ o \in InNode \/ o \in InLeaked \/ o = a
      BY <2>14
    <3> DEFINE RF == {<<"retiring", s, e.snap>> : e \in freed}
               R == RF \cup {own}
               A == {a}
    <3>2. \A o : o \in RF <=> \E e \in freed : o = <<"retiring", s, e.snap>>
      OBVIOUS
    <3>3. \A o \in RF : o[1] = "retiring" /\ o \in Owned
      BY <2>5, <2>6
    <3>4. \A y : (\E o \in RF : o[3] = y) <=> y \in {e.snap : e \in freed}
      <4>1. \A y : <<"retiring", s, y>>[3] = y
        OBVIOUS
      <4>2. QED BY <3>2, <4>1
    <3> HIDE DEF RF
    <3>5. \A o : o \in Owned' <=> (o \in Owned /\ o \notin R) \/ o \in A
      <4>1. \A o \in RF : /\ o \notin InOld /\ o \notin InPump /\ o \notin InSlot
                          /\ o \notin InNode /\ o \notin InClose /\ o \notin InLeaked
        BY <3>3, OwnerKinds
      <4>2. /\ own \notin InOld /\ own \notin InRetiring /\ own \notin InSlot
            /\ own \notin InNode /\ own \notin InClose /\ own \notin InLeaked
        BY <2>2, OwnerKinds
      <4> HIDE DEF own
      <4>3. QED BY <2>3, <2>13, <3>1, <3>2, <4>1, <4>2 DEF Owned
    <3>6. \A y : y \in live' <=> (y \in live /\ \A r \in R : r[3] # y) \/ \E b \in A : b[3] = y
      <4>1. x \notin {e.snap : e \in freed}
        BY <1>1, <2>5, <2>7
      <4>2. \A y : (\E r \in R : r[3] = y) <=> (y = x \/ y \in {e.snap : e \in freed})
        BY <2>2, <3>4
      <4>3. QED BY <2>1, <2>7, <3>1, <4>1, <4>2
    <3>7. R \subseteq Owned
      BY <2>2, <3>3
    <3>8. (\A b, c \in A : b[3] = c[3] => b = c) /\ \A b \in A : \E r \in R : r[3] = b[3]
      BY <2>2, <3>1
    <3> HIDE DEF R, A
    <3>9. QED BY <3>5, <3>6, <3>7, <3>8, MoveOwners DEF IInv, Unique
  <2>21. QED BY <1>3, <2>10, <2>11, <2>14, <2>16, <2>17, <2>18, <2>19, <2>20 DEF IInv
<1>6. QED BY <1>4, <1>5

-----------------------------------------------------------------------------
(* The invariant holds.                                                    *)

\* Nothing is allocated at the start.
LEMMA InitIInv == Init => IInv
<1> SUFFICES ASSUME Init PROVE IInv
  OBVIOUS
<1>1. /\ IdleWorker \in WkRec /\ EmptySlot \in SlotRec /\ IdlePump \in PumpRec
      /\ IdleMaint \in MaintRec /\ IdleSweep \in SweepRec
  BY DEF IdleWorker, WkRec, EmptySlot, SlotRec, IdlePump, PumpRec, IdleMaint, MaintRec,
     IdleSweep, SweepRec
<1>2. Types
  BY <1>1 DEF Init, Types
<1>3. \A w \in Workers : /\ wk[w].phase = "top" /\ wk[w].at = None /\ wk[w].held = {}
                         /\ wk[w].old = NoSnap
  BY DEF Init, IdleWorker
<1>4. \A s \in Slots : slot[s].st = "FREE" /\ slot[s].snap = NoSnap /\ slot[s].retiring = {}
  BY DEF Init, EmptySlot
<1>5. \A t \in Sweepers : sweep[t].chain = {} /\ sweep[t].keep = {}
  BY DEF Init, IdleSweep
<1>6. AllNodes = {} /\ \A n : n \notin AllNodes
  BY <1>5, NodeMember DEF Init
<1>7. pump.key = NoKey /\ ~pump.busy /\ pump.old = NoSnap /\ maint.pc = "idle" /\ maint.snaps = {}
  BY DEF Init, IdlePump, IdleMaint
<1>8. RoomOK /\ RetiringOnce
  <2>1. IsFiniteSet({}) /\ Cardinality({}) = 0
    BY FS_EmptySet
  <2>2. 0 <= HLS_SNAP_RETIRE_DEPTH
    BY SegStoreAssumption
  <2>3. QED BY <1>4, <2>1, <2>2 DEF RoomOK, RetiringOnce
<1>9. Unique(Owned, live)
  <2>1. InSlot = {} /\ InRetiring = {}
    BY <1>4 DEF InSlot, InRetiring
  <2>2. InOld = {}
    BY <1>3 DEF InOld
  <2>3. InPump = {} /\ InClose = {} /\ InLeaked = {}
    BY <1>7 DEF InPump, InClose, InLeaked, Ptr, Init
  <2>4. InNode = {}
    BY <1>6 DEF InNode, AllNodes
  <2>5. Owned = {} /\ live = {}
    BY <2>1, <2>2, <2>3, <2>4 DEF Owned, Init
  <2>6. QED BY <2>5 DEF Unique
<1>10. NodePlaces
  BY <1>5 DEF NodePlaces, Init
<1>11. ThreadsOK
  BY <1>3, <1>7 DEF ThreadsOK
<1>12. ClosingOK
  BY <1>4, <1>6, <1>7 DEF ClosingOK, MaintAt
<1>13. HeldOK /\ AtOK
  BY <1>3 DEF HeldOK, AtOK
<1>14. QED BY <1>2, <1>8, <1>9, <1>10, <1>11, <1>12, <1>13 DEF IInv

\* Every step keeps the invariant.
LEMMA StepIInv == IInv /\ [Next]_vars => IInv'
<1> SUFFICES ASSUME IInv, [Next]_vars PROVE IInv'
  OBVIOUS
<1>1. ASSUME NEW w \in Workers, Worker(w) PROVE IInv'
  BY <1>1, OfflineStep, OnlineStep, QuiescentStep, FindStep, LoadSnapStep, EnableStep, EnableRetireStep
     DEF Worker
<1>2. ASSUME NEW k \in Keys, hls_store_open(k) PROVE IInv'
  BY <1>2, OpenStep
<1>3. ASSUME NEW s \in Slots, FeedStart(s) \/ SweepUnlink(s) PROVE IInv'
  BY <1>3, FeedStartStep, UnlinkStep
<1>4. ASSUME Push \/ snap_retire \/ FeedEnd PROVE IInv'
  BY <1>4, PushStep, SnapRetireStep, FeedEndStep
<1>5. ASSUME CloseClaim \/ CloseTake \/ ClosePush PROVE IInv'
  BY <1>5, CloseClaimStep, CloseTakeStep, ClosePushStep
<1>6. ASSUME NEW t \in Sweepers, SweepTake(t) \/ SweepNode(t) \/ SweepBack(t) PROVE IInv'
  BY <1>6, SweepTakeStep, SweepNodeStep, SweepBackStep
<1>7. CASE UNCHANGED vars
  <2>1. UNCHANGED <<v, wk, slot, pump, maint, nodes, sweep, live, leaked>>
    BY <1>7 DEF vars
  <2>2. AllNodes' = AllNodes
    BY <2>1 DEF AllNodes, Swept
  <2>3. nodes' \subseteq Node /\ sweep' \in [Sweepers -> SweepRec] /\ NodePlaces'
    BY <2>1 DEF IInv, Types, NodePlaces
  <2>4. QED BY <2>1, <2>2, <2>3, MovedNodes
<1>8. QED BY <1>1, <1>2, <1>3, <1>4, <1>5, <1>6, <1>7 DEF Next

-----------------------------------------------------------------------------
(* What follows from it.                                                   *)

\* The variables keep their types, and a store's retiring array never has
\* more than HLS_SNAP_RETIRE_DEPTH entries.
THEOREM TypeCorrect == Spec => []TypeOK
<1>1. IInv => TypeOK
  <2> SUFFICES ASSUME IInv PROVE TypeOK
    OBVIOUS
  <2>1. \A s \in Slots : Cardinality(slot[s].retiring) <= HLS_SNAP_RETIRE_DEPTH
    BY DEF IInv, RoomOK
  <2>2. QED BY <2>1 DEF IInv, Types, TypeOK, WkRec, SlotRec, PumpRec, MaintRec, SweepRec
<1>2. QED BY <1>1, InitIInv, StepIInv, PTL DEF Spec

\* A snapshot a worker loaded in its batch is not freed before the worker's
\* next quiescent point, for any number of workers, stores and sweeps.
THEOREM NoUseAfterFreeCorrect == Spec => []NoUseAfterFree
<1>1. IInv => NoUseAfterFree
  BY DEF IInv, HeldOK, NoUseAfterFree
<1>2. QED BY <1>1, InitIInv, StepIInv, PTL DEF Spec

\* The store a worker found for a key is still a store of that key, not freed,
\* for as long as the worker is in its batch.
THEOREM SlotStableCorrect == Spec => []SlotStable
<1>1. IInv => SlotStable
  BY DEF IInv, AtOK, SlotStable
<1>2. QED BY <1>1, InitIInv, StepIInv, PTL DEF Spec

\* Every allocated snapshot has exactly one owner: none is lost, none is in
\* two places that would both free it.
THEOREM OneOwnerCorrect == Spec => []OneOwner
<1>1. IInv => OneOwner
  <2> SUFFICES ASSUME IInv PROVE OneOwner
    OBVIOUS
  <2> DEFINE f == [o \in Owned |-> o[3]]
  <2>1. Unique(Owned, live) /\ live \subseteq Snaps
    BY DEF IInv, Types
  <2>2. live = {o[3] : o \in Owned}
    BY <2>1 DEF Unique
  <2>3. f \in [Owned -> live] /\ \A a, b \in Owned : f[a] = f[b] => a = b
    BY <2>1 DEF Unique
  <2>4. \A x \in live : \E o \in Owned : f[o] = x
    BY <2>1 DEF Unique
  <2> HIDE DEF f
  <2>5. f \in Injection(Owned, live) /\ f \in Surjection(Owned, live)
    BY <2>3, <2>4, Fun_IsInj, Fun_IsSurj
  <2>6. IsFiniteSet(live)
    BY <2>1, SegStoreAssumption, FS_Subset
  <2>7. Cardinality(Owned) = Cardinality(live)
    BY <2>5, <2>6, FS_Injection
  <2>8. QED BY <2>2, <2>7 DEF OneOwner
<1>2. QED BY <1>1, InitIInv, StepIInv, PTL DEF Spec

\* A slot is CLOSING exactly while one node, or the close about to push it, is
\* to free it: it is never freed twice and never left without.
THEOREM ClosingCorrect == Spec => []ClosingAccounted
<1>1. IInv => ClosingAccounted
  <2> SUFFICES ASSUME IInv, NEW s \in Slots
               PROVE  (slot[s].st = "CLOSING") =
                        (Cardinality({n \in AllNodes : n.idx = s}) + (IF MaintAt(s) THEN 1 ELSE 0) = 1)
    BY DEF ClosingAccounted, AllNodes, MaintAt
  <2> DEFINE N == {n \in AllNodes : n.idx = s}
  <2>1. /\ slot[s].st # "CLOSING" => ~MaintAt(s) /\ N = {}
        /\ slot[s].st = "CLOSING" => MaintAt(s) \/ N # {}
        /\ MaintAt(s) => N = {}
        /\ \A n, m \in N : n = m
    BY DEF IInv, ClosingOK
  <2> HIDE DEF N
  <2>2. N = {} => Cardinality(N) = 0
    BY FS_EmptySet
  <2>3. N # {} => Cardinality(N) = 1
    <3>1. SUFFICES ASSUME NEW n \in N PROVE Cardinality(N) = 1
      OBVIOUS
    <3>2. N = {n}
      BY <2>1
    <3>3. QED BY <3>2, FS_Singleton
  <2>4. (slot[s].st = "CLOSING") = (Cardinality(N) + (IF MaintAt(s) THEN 1 ELSE 0) = 1)
    <3>1. CASE MaintAt(s)
      BY <2>1, <2>2, <3>1
    <3>2. CASE ~MaintAt(s)
      BY <2>1, <2>2, <2>3, <3>2
    <3>3. QED BY <3>1, <3>2
  <2>5. QED BY <2>4 DEF N
<1>2. QED BY <1>1, InitIInv, StepIInv, PTL DEF Spec
=============================================================================
