-------------------------- MODULE BurstTableProofs --------------------------
(***************************************************************************)
(* Proofs about BurstTable, for any number of clients, workers, slots,      *)
(* stripes and heap addresses.                                              *)
(***************************************************************************)
EXTENDS BurstTable, SequenceTheorems, TLAPS

USE DEF Codes, BURST_UPDATE, BURST_ACCEPT, BURST_DONE, BURST_INTERNAL,
        BURST_CONGESTION, BURST_TABLE_FULL, WorkerPc, PacerPc,
        objVars, slotVars, workVars, tickVars, pacerVars

\* Where a worker stands determines which of its locals are set.
WorkerOK ==
  \A w \in Workers :
    /\ wpc[w] \in {"start", "terminateOld", "releaseOld", "reply"}
         => wClient[w] \in Clients /\ wNew[w] \in Bursts
    /\ wOld[w] # None <=> wpc[w] \in {"terminateOld", "releaseOld"}

\* The pacer's snapshots are confined to the slots it has scanned and not yet
\* processed; past the tick it works on the snapshot at pos.
PacerOK ==
  /\ pos <= scanUpto
  /\ ppc \in {"send", "release", "notify", "dropSlot", "dropSnap"}
       => pos < scanUpto /\ snap[pos] # None
  /\ ppc = "dropSlot" => pRemove
  /\ \A i \in Slots : snap[i] # None =>
       /\ snapAddr[i] \in Clients
       /\ \/ ppc = "scan" /\ i < pos
          \/ /\ ppc \in {"tick", "send", "release", "notify", "dropSlot", "dropSnap"}
             /\ pos <= i
             /\ i < scanUpto

\* A slot in use belongs to a client.
SlotOK == \A i \in Slots : slotB[i] # None => slotAddr[i] \in Clients

\* burst_table_free runs when every thread has left.
FreedOK ==
  freed => /\ ppc = "exit"
           /\ \A w \in Workers : wpc[w] = "exit"
           /\ \A i \in Slots : slotB[i] = None

\* Slot ownership of a burst is held in one place only: by the worker that
\* created it, by one slot, by the worker that swapped it out or by the pacer
\* that cleared its slot.  A burst is snapshotted at most once, at the index
\* of its own slot.
NewDistinct ==
  \A w, v \in Workers : wpc[w] = "start" /\ wpc[v] = "start" /\ wNew[w] = wNew[v] => w = v
OldDistinct ==
  \A w, v \in Workers : wOld[w] # None /\ wOld[w] = wOld[v] => w = v
SlotDistinct ==
  \A i, j \in Slots : slotB[i] # None /\ slotB[i] = slotB[j] => i = j
SnapDistinct ==
  /\ \A i, j \in Slots : snap[i] # None /\ snap[i] = snap[j] => i = j
  /\ \A i, j \in Slots : snap[i] # None /\ snap[i] = slotB[j] => i = j
NewApart ==
  /\ \A w \in Workers, i \in Slots :
       wpc[w] = "start" => wNew[w] # slotB[i] /\ wNew[w] # snap[i]
  /\ \A w, v \in Workers : wpc[w] = "start" => wNew[w] # wOld[v]
OldApart ==
  \A w \in Workers, i \in Slots : wOld[w] # None => wOld[w] # slotB[i]
ClearedApart ==
  ppc \in {"notify", "dropSlot"} /\ pRemove =>
    /\ \A w \in Workers : wOld[w] # snap[pos]
    /\ \A i \in Slots : slotB[i] # snap[pos]
OwnerOK == /\ NewDistinct /\ OldDistinct /\ SlotDistinct /\ SnapDistinct
           /\ NewApart /\ OldApart /\ ClearedApart

IInv == /\ TypeOK /\ WorkerOK /\ PacerOK /\ SlotOK /\ FreedOK
        /\ OwnerOK /\ RefsExact
        /\ IndexExact /\ FreeListExact /\ SlotReachable

\* NULL is neither a burst, a client nor a slot.
LEMMA NoneFacts == None \notin Bursts /\ None \notin Clients /\ None \notin Slots
BY NoneAssumption

\* Taking the top off a free list leaves a list of slots.
LEMMA PopFacts ==
  ASSUME NEW S, NEW s \in Seq(S), s # << >>
  PROVE  /\ Len(s) \in Nat \ {0}
         /\ s[Len(s)] \in S
         /\ SubSeq(s, 1, Len(s) - 1) \in Seq(S)
         /\ Len(SubSeq(s, 1, Len(s) - 1)) = Len(s) - 1
         /\ \A k \in 1..(Len(s) - 1) : SubSeq(s, 1, Len(s) - 1)[k] = s[k]
<1>1. Len(s) \in Nat \ {0}
  BY EmptySeq
<1>2. \A k \in 1..Len(s) : s[k] \in S
  BY ElementOfSeq
<1>3. \A k \in 1..(Len(s) - 1) : s[k] \in S
  BY <1>1, <1>2
<1> DEFINE t == SubSeq(s, 1, Len(s) - 1)
<1>4. t \in Seq(S)
  BY <1>1, <1>3, SubSeqProperties
<1>4a. Len(t) = IF 1 <= Len(s) - 1 THEN (Len(s) - 1) - 1 + 1 ELSE 0
  BY <1>1, <1>3, SubSeqProperties
<1>4b. \A k \in 1..((Len(s) - 1) - 1 + 1) : t[k] = s[1 + k - 1]
  BY <1>1, <1>3, SubSeqProperties
<1> HIDE DEF t
<1>5. Len(t) = Len(s) - 1
  <2>1. PICK n \in Nat \ {0} : n = Len(s)
    BY <1>1
  <2>2. Len(t) = IF 1 <= n - 1 THEN (n - 1) - 1 + 1 ELSE 0
    BY <2>1, <1>4a
  <2>3. (IF 1 <= n - 1 THEN (n - 1) - 1 + 1 ELSE 0) = n - 1
    OBVIOUS
  <2>4. QED BY <2>1, <2>2, <2>3
<1>6. ASSUME NEW k \in 1..(Len(s) - 1) PROVE t[k] = s[k]
  <2>1. k \in 1..((Len(s) - 1) - 1 + 1) /\ 1 + k - 1 = k
    BY <1>1
  <2>2. QED BY <2>1, <1>4b
<1>7. QED BY <1>1, <1>2, <1>4, <1>5, <1>6 DEF t

(***************************************************************************)
(* A conjunct survives a step that leaves its variables alone.              *)
(***************************************************************************)
\* Steps that leave its variables alone keep the objects' types.
LEMMA KeepObjType ==
  ASSUME ObjType, UNCHANGED <<live, refs, done, cuts, elapsed>> PROVE ObjType'
BY DEF ObjType

\* Steps that leave its variables alone keep the slots' types.
LEMMA KeepSlotType ==
  ASSUME SlotType, UNCHANGED <<slotB, slotAddr, msn, nackCount, adapted, freeList, index,
      hwm>> PROVE SlotType'
BY DEF SlotType

\* Steps that leave its variables alone keep the workers' types.
LEMMA KeepWorkerType ==
  ASSUME WorkerType, UNCHANGED <<wpc, wClient, wNew, wOld, wResp>> PROVE WorkerType'
BY DEF WorkerType

\* Steps that leave its variables alone keep the pacer's types.
LEMMA KeepPacerType ==
  ASSUME PacerType, UNCHANGED <<ppc, scanUpto, pos, snap, snapAddr, pResult, pCongestion,
      pRemove>> PROVE PacerType'
BY DEF PacerType

\* Steps that leave its variables alone keep WorkerOK.
LEMMA KeepWorkerOK ==
  ASSUME WorkerOK, UNCHANGED <<wpc, wClient, wNew, wOld>> PROVE WorkerOK'
BY DEF WorkerOK

\* Steps that leave its variables alone keep PacerOK.
LEMMA KeepPacerOK ==
  ASSUME PacerOK, UNCHANGED <<pos, scanUpto, ppc, snap, snapAddr, pRemove>> PROVE PacerOK'
BY DEF PacerOK

\* Steps that leave its variables alone keep SlotOK.
LEMMA KeepSlotOK ==
  ASSUME SlotOK, UNCHANGED <<slotB, slotAddr>> PROVE SlotOK'
BY DEF SlotOK

\* Steps that leave its variables alone keep FreedOK.
LEMMA KeepFreedOK ==
  ASSUME FreedOK, UNCHANGED <<freed, ppc, wpc, slotB>> PROVE FreedOK'
BY DEF FreedOK

\* Steps that leave its variables alone keep OwnerOK.
LEMMA KeepOwnerOK ==
  ASSUME OwnerOK, UNCHANGED <<wpc, wNew, wOld, slotB, snap, ppc, pRemove, pos>> PROVE OwnerOK'
BY DEF OwnerOK, NewDistinct, OldDistinct, SlotDistinct, SnapDistinct, NewApart, OldApart,
    ClearedApart

\* Only a pacer about to drop a slot's reference is an owner itself: any other
\* move of the pacer keeps OwnerOK.
LEMMA QuietOwnerOK ==
  ASSUME OwnerOK, UNCHANGED <<wpc, wNew, wOld, slotB, snap>>, ppc' \notin {"notify", "dropSlot"}
  PROVE  OwnerOK'
<1>1. NewDistinct' /\ OldDistinct' /\ SlotDistinct'
  BY DEF OwnerOK, NewDistinct, OldDistinct, SlotDistinct
<1>2. SnapDistinct' /\ NewApart' /\ OldApart'
  BY DEF OwnerOK, SnapDistinct, NewApart, OldApart
<1>3. ClearedApart'
  BY DEF ClearedApart
<1>4. QED BY <1>1, <1>2, <1>3 DEF OwnerOK

\* Setting or keeping one entry of a flag array gives a flag array.
LEMMA FlagSet ==
  ASSUME NEW S, NEW f \in [S -> BOOLEAN], NEW x \in S, NEW b
  PROVE  [f EXCEPT ![x] = IF b THEN TRUE ELSE @] \in [S -> BOOLEAN]
BY Zenon

\* So does clearing or keeping one entry.
LEMMA FlagClear ==
  ASSUME NEW S, NEW f \in [S -> BOOLEAN], NEW x \in S, NEW b
  PROVE  [f EXCEPT ![x] = IF b THEN FALSE ELSE @] \in [S -> BOOLEAN]
BY Zenon

\* Steps that leave its variables alone keep RefsExact.
LEMMA KeepRefsExact ==
  ASSUME RefsExact, UNCHANGED <<live, refs, wpc, wNew, wOld, slotB, snap, ppc, pRemove,
      pos>> PROVE RefsExact'
BY DEF RefsExact, Owned, OwnedByNew, OwnedBySlot, OwnedByOld, OwnedByPacer, Snapped

\* Steps that leave its variables alone keep IndexExact.
LEMMA KeepIndexExact ==
  ASSUME IndexExact, UNCHANGED <<index, slotB, slotAddr>> PROVE IndexExact'
BY DEF IndexExact

\* Steps that leave its variables alone keep FreeListExact.
LEMMA KeepFreeListExact ==
  ASSUME FreeListExact, UNCHANGED <<freed, freeList, slotB>> PROVE FreeListExact'
BY DEF FreeListExact

\* Steps that leave its variables alone keep SlotReachable.
LEMMA KeepSlotReachable ==
  ASSUME SlotReachable, UNCHANGED <<slotB, slotAddr, hwm>> PROVE SlotReachable'
BY DEF SlotReachable

(***************************************************************************)
(* Facts about states that satisfy the invariant.                           *)
(***************************************************************************)

\* find_valid finds the client's session, and finds it if there is one.
LEMMA FindFacts ==
  ASSUME IInv, NEW c \in Clients
  PROVE  /\ FindValid(c) = index[c]
         /\ FindValid(c) \in Slots \cup {None}
         /\ FindValid(c) # None =>
              slotB[FindValid(c)] \in Bursts /\ slotAddr[FindValid(c)] = c
         /\ FindValid(c) = None => \A i \in Slots : slotB[i] = None \/ slotAddr[i] # c
<1>1. index[c] \in Slots \cup {None}
  BY DEF IInv, TypeOK, SlotType
<1>2. index[c] # None => slotB[index[c]] # None /\ slotAddr[index[c]] = c
  BY <1>1 DEF IInv, IndexExact
<1>3. FindValid(c) = index[c]
  BY <1>2 DEF FindValid
<1>4. QED BY <1>1, <1>2, <1>3, NoneFacts DEF IInv, IndexExact, TypeOK, SlotType

\* Past the tick, the pacer works on a burst it has a reference to.
LEMMA PacerFacts ==
  ASSUME IInv, ppc \in {"send", "release", "notify", "dropSlot", "dropSnap"}
  PROVE  /\ pos \in Slots
         /\ snap[pos] \in Bursts
         /\ snapAddr[pos] \in Clients
         /\ Snapped(snap[pos])
         /\ refs[snap[pos]] >= 1
<1>1. pos \in Slots /\ snap[pos] \in Bursts /\ snapAddr[pos] \in Clients
  BY CapAssumption DEF IInv, TypeOK, PacerType, PacerOK, Slots
<1>2. QED BY <1>1 DEF IInv, RefsExact, Snapped

\* A worker with a new or a swapped-out burst in hand owns it.
LEMMA WorkerFacts ==
  ASSUME IInv, NEW w \in Workers
  PROVE  /\ wpc[w] = "start" => /\ wNew[w] \in Bursts /\ wClient[w] \in Clients
                                /\ refs[wNew[w]] = 1
         /\ wpc[w] \in {"terminateOld", "releaseOld"}
              => wOld[w] \in Bursts /\ refs[wOld[w]] >= 1
         /\ wpc[w] = "reply" => wNew[w] \in Bursts /\ wClient[w] \in Clients
<1>1. ASSUME wpc[w] = "start" PROVE refs[wNew[w]] = 1
  <2>1. wNew[w] \in Bursts
    BY <1>1 DEF IInv, WorkerOK
  <2>2. Owned(wNew[w])
    BY <1>1 DEF Owned, OwnedByNew
  <2>3. ~Snapped(wNew[w])
    BY <1>1, <2>1, NoneFacts DEF IInv, OwnerOK, NewApart, Snapped
  <2>4. QED BY <2>1, <2>2, <2>3 DEF IInv, RefsExact
<1>2. ASSUME wpc[w] \in {"terminateOld", "releaseOld"}
      PROVE  wOld[w] \in Bursts /\ refs[wOld[w]] >= 1
  <2>1. wOld[w] \in Bursts
    BY <1>2 DEF IInv, WorkerOK, TypeOK, WorkerType
  <2>2. Owned(wOld[w])
    BY DEF Owned, OwnedByOld
  <2>3. QED BY <2>1, <2>2 DEF IInv, RefsExact
<1>3. QED BY <1>1, <1>2 DEF IInv, WorkerOK

\* msn is a counter modulo its width.
LEMMA MsnFacts == \A n \in 0..(MsnMod - 1) : (n + 1) % MsnMod \in 0..(MsnMod - 1)
BY NumberAssumption

\* free() keeps the object table well typed.
LEMMA WipeType ==
  ASSUME ObjType, NEW bs, Wipe(bs), refs' \in [Bursts -> Nat]
  PROVE  ObjType'
<1>1. live' \in [Bursts -> BOOLEAN] /\ done' \in [Bursts -> BOOLEAN]
  BY DEF ObjType, Wipe
<1>2. cuts' \in [Bursts -> 0..2] /\ elapsed' \in [Bursts -> 0..DurationTicks]
  BY NumberAssumption DEF ObjType, Wipe
<1>3. QED BY <1>1, <1>2 DEF ObjType

\* burst_release keeps the object table well typed.
LEMMA ReleaseType ==
  ASSUME ObjType, NEW b \in Bursts, refs[b] >= 1, ReleaseRef(b)
  PROVE  ObjType'
<1>1. refs' \in [Bursts -> Nat]
  BY DEF ObjType, ReleaseRef
<1>2. CASE refs[b] = 1
  BY <1>1, <1>2, WipeType DEF ReleaseRef
<1>3. CASE refs[b] # 1
  BY <1>1, <1>3 DEF ReleaseRef, ObjType
<1>4. QED BY <1>2, <1>3


\* Steps that move no reference: the owners and the snapshots stay the same.
LEMMA SameOwners ==
  ASSUME RefsExact, UNCHANGED <<live, refs, slotB, snap, wOld>>,
         \A w \in Workers : /\ wpc'[w] = "start" <=> wpc[w] = "start"
                            /\ wpc[w] = "start" => wNew'[w] = wNew[w],
         ppc' \in {"notify", "dropSlot"} /\ pRemove' <=> ppc \in {"notify", "dropSlot"} /\ pRemove,
         ppc \in {"notify", "dropSlot"} => pos' = pos
  PROVE  RefsExact'
<1>1. \A b \in Bursts : OwnedByNew(b)' <=> OwnedByNew(b)
  BY DEF OwnedByNew
<1>2. \A b \in Bursts : OwnedByPacer(b)' <=> OwnedByPacer(b)
  BY DEF OwnedByPacer
<1>3. \A b \in Bursts : /\ OwnedBySlot(b)' <=> OwnedBySlot(b)
                        /\ OwnedByOld(b)' <=> OwnedByOld(b)
                        /\ Snapped(b)' <=> Snapped(b)
  BY DEF OwnedBySlot, OwnedByOld, Snapped
<1>4. QED BY <1>1, <1>2, <1>3 DEF RefsExact, Owned

\* burst_release by the owner or by the snapshot holder of x.
LEMMA ReleaseRefs ==
  ASSUME RefsExact, ObjType, NEW x \in Bursts, ReleaseRef(x),
         \A b \in Bursts \ {x} : (Owned(b)' <=> Owned(b)) /\ (Snapped(b)' <=> Snapped(b)),
         \/ Owned(x) /\ ~Owned(x)' /\ (Snapped(x)' <=> Snapped(x))
         \/ Snapped(x) /\ ~Snapped(x)' /\ (Owned(x)' <=> Owned(x))
  PROVE  RefsExact'
<1>1. \A b \in Bursts : /\ refs'[b] = IF b = x THEN refs[b] - 1 ELSE refs[b]
                        /\ live'[b] = IF b = x /\ refs[x] = 1 THEN FALSE ELSE live[b]
  BY DEF ReleaseRef, Wipe, ObjType
<1>2. ASSUME NEW b \in Bursts \ {x}
      PROVE  /\ refs'[b] = (IF Owned(b)' THEN 1 ELSE 0) + (IF Snapped(b)' THEN 1 ELSE 0)
             /\ live'[b] <=> refs'[b] > 0
  BY <1>1 DEF RefsExact
<1>3. /\ refs'[x] = (IF Owned(x)' THEN 1 ELSE 0) + (IF Snapped(x)' THEN 1 ELSE 0)
      /\ live'[x] <=> refs'[x] > 0
  <2>1. refs[x] = (IF Owned(x) THEN 1 ELSE 0) + (IF Snapped(x) THEN 1 ELSE 0) /\ (live[x] <=> refs[x] > 0)
    BY DEF RefsExact
  <2>2. refs'[x] = refs[x] - 1 /\ live'[x] = IF refs[x] = 1 THEN FALSE ELSE live[x]
    BY <1>1
  <2>3. QED BY <2>1, <2>2
<1>4. QED BY <1>2, <1>3 DEF RefsExact

(***************************************************************************)
(* The invariant is inductive.                                              *)
(***************************************************************************)
\* burst_table_new establishes the invariant.
LEMMA InitIInv == Init => IInv
<1> SUFFICES ASSUME Init PROVE IInv
  OBVIOUS
<1> USE NoneFacts, CapAssumption, NumberAssumption
<1>1. ObjType
  BY DEF Init, ObjType
<1>2. SlotType
  BY FreeAssumption DEF Init, SlotType
<1>3. WorkerType
  BY DEF Init, WorkerType
<1>3a. PacerType /\ stop \in BOOLEAN /\ freed \in BOOLEAN /\ sent = None
  <2>1. ppc \in PacerPc /\ pResult \in {"continue", "done"} /\ scanUpto \in 0..Cap /\ pos \in 0..Cap
    BY DEF Init
  <2>2. snap \in [Slots -> Bursts \cup {None}] /\ snapAddr \in [Slots -> Clients \cup {None}]
    BY DEF Init
  <2>3. QED BY <2>1, <2>2 DEF Init, PacerType
<1>4. WorkerOK /\ PacerOK /\ SlotOK /\ FreedOK /\ OwnerOK
  BY DEF Init, WorkerOK, PacerOK, SlotOK, FreedOK, OwnerOK, NewDistinct, OldDistinct,
         SlotDistinct, SnapDistinct, NewApart, OldApart, ClearedApart
<1>5. RefsExact
  BY DEF Init, RefsExact, Owned, OwnedByNew, OwnedBySlot, OwnedByOld, OwnedByPacer, Snapped
<1>6. IndexExact /\ SlotReachable
  BY DEF Init, IndexExact, SlotReachable
<1>7. FreeListExact
  <2>1. ASSUME NEW st \in Stripes, NEW i \in Slots
        PROVE  (\E j \in 1..Len(InitFree[st]) : InitFree[st][j] = i) <=> SlotStripe[i] = st
    BY FreeAssumption
  <2>2. freeList = InitFree /\ \A i \in Slots : slotB[i] = None
    BY DEF Init
  <2>3. QED BY <2>1, <2>2, FreeAssumption DEF FreeListExact
<1>8. QED BY <1>1, <1>2, <1>3, <1>3a, <1>4, <1>5, <1>6, <1>7 DEF IInv, TypeOK

\* burst_new: a recycled address has no owner left, so the count of 1 is exact.
LEMMA StepRamsRNew ==
  ASSUME IInv, NEW w \in Workers, NEW c \in Clients, NEW b \in Bursts, RamsRNew(w, c,
      b) PROVE IInv'
<1> USE NoneFacts, CapAssumption, NumberAssumption, StripeAssumption DEF IInv
<1>a. ~Owned(b) /\ ~Snapped(b)
  BY DEF RamsRNew, RefsExact, TypeOK, ObjType
<1>1. SlotType' /\ PacerType' /\ PacerOK' /\ SlotOK' /\ IndexExact' /\ FreeListExact' /\
      SlotReachable'
  BY KeepSlotType, KeepPacerType, KeepPacerOK, KeepSlotOK, KeepIndexExact, KeepFreeListExact,
      KeepSlotReachable DEF RamsRNew, TypeOK
<1>2. ObjType'
  BY <1>a DEF TypeOK, ObjType, RamsRNew, Silent
<1>3. WorkerType'
  BY <1>a DEF TypeOK, WorkerType, RamsRNew, Silent
<1>4. WorkerOK'
  BY <1>a DEF TypeOK, SlotType, WorkerType, PacerType, WorkerOK, RamsRNew, Silent
<1>5. FreedOK'
  BY <1>a DEF TypeOK, SlotType, WorkerType, PacerType, FreedOK, RamsRNew, Silent
<1>6. OwnerOK'
  BY <1>a DEF OwnerOK, NewDistinct, OldDistinct, SlotDistinct, SnapDistinct, NewApart,
      OldApart, ClearedApart, RamsRNew, TypeOK, WorkerType, SlotType, PacerType, WorkerOK,
              Owned, OwnedByNew, OwnedBySlot, OwnedByOld, OwnedByPacer, Snapped
<1>7. RefsExact'
  <2>1. \A x \in Bursts : OwnedByNew(x)' <=> OwnedByNew(x) \/ x = b
    BY DEF OwnedByNew, RamsRNew, TypeOK, WorkerType
  <2>2. \A x \in Bursts : /\ OwnedBySlot(x)' <=> OwnedBySlot(x)
                          /\ OwnedByOld(x)' <=> OwnedByOld(x)
                          /\ OwnedByPacer(x)' <=> OwnedByPacer(x)
                          /\ Snapped(x)' <=> Snapped(x)
    BY DEF OwnedBySlot, OwnedByOld, OwnedByPacer, Snapped, RamsRNew
  <2>3. \A x \in Bursts : /\ refs'[x] = IF x = b THEN 1 ELSE refs[x]
                          /\ live'[x] = IF x = b THEN TRUE ELSE live[x]
    BY DEF RamsRNew, TypeOK, ObjType
  <2>8. ASSUME NEW x \in Bursts
        PROVE  /\ refs'[x] = (IF Owned(x)' THEN 1 ELSE 0) + (IF Snapped(x)' THEN 1 ELSE 0)
               /\ live'[x] <=> refs'[x] > 0
    <3>1. Snapped(x)' <=> Snapped(x)
      BY <2>2
    <3>2. CASE x = b
      <4>1. refs'[b] = 1 /\ live'[b]
        BY DEF RamsRNew, TypeOK, ObjType
      <4>2. Owned(b)' /\ ~Snapped(b)'
        BY <1>a, <2>1, <2>2 DEF Owned
      <4>3. QED BY <3>2, <4>1, <4>2
    <3>3. CASE x # b
      <4>1. Owned(x)' <=> Owned(x)
        BY <1>a, <2>1, <2>2, <2>3, <3>3 DEF Owned
      <4>2. refs'[x] = refs[x] /\ live'[x] = live[x]
        BY <1>a, <2>1, <2>2, <2>3, <3>3
      <4>3. QED BY <4>1, <4>2, <3>1 DEF RefsExact
    <3>4. QED BY <3>2, <3>3
  <2>9. QED BY <2>8 DEF RefsExact
<1>8. stop' \in BOOLEAN /\ freed' \in BOOLEAN /\ sent' \in [to : Clients, code : Codes] \cup {None}
  BY <1>a DEF TypeOK, RamsRNew, Silent
<1>9. QED BY <1>1, <1>2, <1>3, <1>4, <1>5, <1>6, <1>7, <1>8 DEF TypeOK

\* A failed burst_new changes nothing but the answer.
LEMMA StepRamsRNoMemory ==
  ASSUME IInv, NEW w \in Workers, NEW c \in Clients, RamsRNoMemory(w, c) PROVE IInv'
<1> USE NoneFacts, CapAssumption, NumberAssumption, StripeAssumption DEF IInv
<1>1. ObjType' /\ SlotType' /\ WorkerType' /\ PacerType' /\ WorkerOK' /\ PacerOK' /\ SlotOK' /\
      FreedOK' /\ OwnerOK' /\ RefsExact' /\ IndexExact' /\ FreeListExact' /\ SlotReachable'
  BY KeepObjType, KeepSlotType, KeepWorkerType, KeepPacerType, KeepWorkerOK, KeepPacerOK,
      KeepSlotOK, KeepFreedOK, KeepOwnerOK, KeepRefsExact, KeepIndexExact, KeepFreeListExact,
      KeepSlotReachable DEF RamsRNoMemory, TypeOK
<1>2. stop' \in BOOLEAN /\ freed' \in BOOLEAN /\ sent' \in [to : Clients, code : Codes] \cup {None}
  BY DEF TypeOK, RamsRNoMemory, Say
<1>3. QED BY <1>1, <1>2 DEF TypeOK

\* burst_table_note_nack only writes the session's own counters and flags.
LEMMA StepNoteNack ==
  ASSUME IInv, NEW w \in Workers, NEW c \in Clients, NoteNack(w, c) PROVE IInv'
<1> USE NoneFacts, CapAssumption, NumberAssumption, StripeAssumption DEF IInv
<1>a. PICK i \in Slots : i = FindValid(c) /\ slotB[i] \in Bursts
  BY FindFacts DEF NoteNack
<1>1. WorkerType' /\ PacerType' /\ WorkerOK' /\ PacerOK' /\ SlotOK' /\ FreedOK' /\ OwnerOK' /\
      RefsExact' /\ IndexExact' /\ FreeListExact' /\ SlotReachable'
  BY KeepWorkerType, KeepPacerType, KeepWorkerOK, KeepPacerOK, KeepSlotOK, KeepFreedOK,
      KeepOwnerOK, KeepRefsExact, KeepIndexExact, KeepFreeListExact,
      KeepSlotReachable DEF NoteNack, TypeOK
<1>2. ObjType'
  <2>1. done' \in [Bursts -> BOOLEAN]
    <3>1. done' = [done EXCEPT ![slotB[i]] = IF NackTerminates(i) THEN TRUE ELSE @]
      BY <1>a DEF NoteNack
    <3>2. done \in [Bursts -> BOOLEAN]
      BY DEF TypeOK, ObjType
    <3>3. QED BY ONLY <1>a, <3>1, <3>2, FlagSet
  <2>2. cuts' \in [Bursts -> 0..2]
    BY <1>a DEF TypeOK, ObjType, NoteNack
  <2>3. QED BY <2>1, <2>2 DEF TypeOK, ObjType, NoteNack
<1>3. SlotType'
  <2>1. nackCount' \in [Slots -> 0..Threshold]
    BY <1>a DEF TypeOK, SlotType, NoteNack, CountNack
  <2>2. adapted' \in [Slots -> BOOLEAN]
    <3>1. adapted' = [adapted EXCEPT ![i] = IF NackAdapts(i) THEN TRUE ELSE @]
      BY <1>a DEF NoteNack
    <3>2. adapted \in [Slots -> BOOLEAN]
      BY DEF TypeOK, SlotType
    <3>3. QED BY ONLY <1>a, <3>1, <3>2, FlagSet
  <2>3. msn' \in [Slots -> 0..(MsnMod - 1)]
    <3>1. msn' = [msn EXCEPT ![i] = IF NackAdapts(i) THEN (@ + 1) % MsnMod ELSE @]
      BY <1>a DEF NoteNack
    <3>2. msn \in [Slots -> 0..(MsnMod - 1)] /\ (msn[i] + 1) % MsnMod \in 0..(MsnMod - 1)
      BY <1>a, MsnFacts DEF TypeOK, SlotType
    <3>3. QED BY ONLY <1>a, <3>1, <3>2
  <2>4. QED BY <2>1, <2>2, <2>3 DEF TypeOK, SlotType, NoteNack
<1>4. stop' \in BOOLEAN /\ freed' \in BOOLEAN /\ sent' \in [to : Clients, code : Codes] \cup {None}
  BY <1>a DEF TypeOK, NoteNack
<1>5. QED BY <1>1, <1>2, <1>3, <1>4 DEF TypeOK

\* burst_table_terminate only sets done.
LEMMA StepRamsT ==
  ASSUME IInv, NEW w \in Workers, NEW c \in Clients, RamsT(w, c) PROVE IInv'
<1> USE NoneFacts, CapAssumption, NumberAssumption, StripeAssumption DEF IInv
<1>a. PICK i \in Slots : i = FindValid(c) /\ slotB[i] \in Bursts
  BY FindFacts DEF RamsT
<1>1. SlotType' /\ WorkerType' /\ PacerType' /\ WorkerOK' /\ PacerOK' /\ SlotOK' /\ FreedOK' /\
      OwnerOK' /\ RefsExact' /\ IndexExact' /\ FreeListExact' /\ SlotReachable'
  BY KeepSlotType, KeepWorkerType, KeepPacerType, KeepWorkerOK, KeepPacerOK, KeepSlotOK,
      KeepFreedOK, KeepOwnerOK, KeepRefsExact, KeepIndexExact, KeepFreeListExact,
      KeepSlotReachable DEF RamsT, TypeOK
<1>2. ObjType'
  BY <1>a DEF TypeOK, ObjType, RamsT, Silent
<1>3. stop' \in BOOLEAN /\ freed' \in BOOLEAN /\ sent' \in [to : Clients, code : Codes] \cup {None}
  BY <1>a DEF TypeOK, RamsT, Silent
<1>4. QED BY <1>1, <1>2, <1>3 DEF TypeOK

\* burst_table_start, swap: the slot's reference passes to the worker, the worker's to the slot.
LEMMA StepStartSwap ==
  ASSUME IInv, NEW w \in Workers, StartSwap(w) PROVE IInv'
<1> USE NoneFacts, CapAssumption, NumberAssumption, StripeAssumption DEF IInv
<1>a. wNew[w] \in Bursts /\ wClient[w] \in Clients /\ wpc[w] = "start"
  BY WorkerFacts DEF StartSwap
<1>b. PICK i \in Slots : /\ i = FindValid(wClient[w])
                         /\ slotB[i] \in Bursts /\ slotAddr[i] = wClient[w]
  BY <1>a, FindFacts DEF StartSwap
<1>c. /\ wOld' = [wOld EXCEPT ![w] = slotB[i]]
      /\ slotB' = [slotB EXCEPT ![i] = wNew[w]]
      /\ msn' = [msn EXCEPT ![i] = (@ + 1) % MsnMod]
      /\ nackCount' = [nackCount EXCEPT ![i] = 0]
      /\ adapted' = [adapted EXCEPT ![i] = FALSE]
      /\ wResp' = [wResp EXCEPT ![w] = BURST_UPDATE]
      /\ wpc' = [wpc EXCEPT ![w] = "terminateOld"]
      /\ UNCHANGED <<refs, live, slotAddr, freeList, index, hwm, wClient, wNew, freed, snap, ppc, pos, pRemove>>
  BY <1>b DEF StartSwap
<1>1. ObjType' /\ PacerType' /\ PacerOK'
  BY KeepObjType, KeepPacerType, KeepPacerOK DEF StartSwap, TypeOK
<1>2. SlotType'
  <2>1. slotB' \in [Slots -> Bursts \cup {None}]
    BY <1>a, <1>b, <1>c DEF TypeOK, SlotType
  <2>2. msn' \in [Slots -> 0..(MsnMod - 1)]
    BY <1>b, <1>c, MsnFacts DEF TypeOK, SlotType
  <2>3. nackCount' \in [Slots -> 0..Threshold] /\ adapted' \in [Slots -> BOOLEAN]
    BY <1>b, <1>c DEF TypeOK, SlotType
  <2>4. QED BY <1>c, <2>1, <2>2, <2>3 DEF TypeOK, SlotType
<1>3. WorkerType'
  BY <1>a, <1>b, <1>c DEF TypeOK, WorkerType
<1>4. WorkerOK'
  BY <1>a, <1>b, <1>c DEF TypeOK, WorkerType, WorkerOK
<1>5. SlotOK'
  BY <1>a, <1>b, <1>c DEF TypeOK, SlotType, SlotOK
<1>6. FreedOK'
  BY <1>a, <1>b, <1>c DEF FreedOK
<1>7. OwnerOK'
  <2>0. /\ \A j \in Slots : slotB'[j] = IF j = i THEN wNew[w] ELSE slotB[j]
        /\ \A v \in Workers : /\ wOld'[v] = IF v = w THEN slotB[i] ELSE wOld[v]
                              /\ wpc'[v] = "start" <=> wpc[v] = "start" /\ v # w
        /\ wNew' = wNew /\ snap' = snap
    BY <1>c DEF TypeOK, SlotType, WorkerType
  <2>1. NewDistinct'
    BY <2>0 DEF OwnerOK, NewDistinct
  <2>2. OldDistinct'
    BY <1>b, <2>0 DEF OwnerOK, OldDistinct, OldApart
  <2>3. SlotDistinct'
    BY <1>a, <2>0 DEF OwnerOK, SlotDistinct, NewApart
  <2>4. SnapDistinct'
    BY <1>a, <2>0 DEF OwnerOK, SnapDistinct, NewApart
  <2>5. NewApart'
    <3>1. SUFFICES ASSUME NEW v \in Workers, wpc[v] = "start", v # w
                   PROVE  /\ \A k \in Slots : wNew[v] # slotB'[k] /\ wNew[v] # snap[k]
                          /\ \A u \in Workers : wNew[v] # wOld'[u]
      BY <2>0 DEF NewApart
    <3>2. wNew[v] # wNew[w] /\ wNew[v] # slotB[i]
      BY <1>a, <1>b, <3>1 DEF OwnerOK, NewDistinct, NewApart
    <3>3. QED BY <2>0, <3>1, <3>2 DEF OwnerOK, NewApart
  <2>6. OldApart'
    BY <1>a, <1>b, <2>0 DEF OwnerOK, OldApart, SlotDistinct, NewApart
  <2>7. ClearedApart'
    <3>1. SUFFICES ASSUME ppc \in {"notify", "dropSlot"}, pRemove
                   PROVE  /\ \A v \in Workers : wOld'[v] # snap[pos]
                          /\ \A j \in Slots : slotB'[j] # snap[pos]
      BY <1>c DEF ClearedApart
    <3>2. pos \in Slots /\ snap[pos] \in Bursts
      BY <3>1, PacerFacts
    <3>3. wNew[w] # snap[pos] /\ \A j \in Slots : slotB[j] # snap[pos]
      BY <1>a, <3>1, <3>2 DEF OwnerOK, NewApart, ClearedApart
    <3>4. \A v \in Workers : wOld[v] # snap[pos]
      BY <3>1 DEF OwnerOK, ClearedApart
    <3>5. QED BY <1>b, <3>3, <3>4, <1>c DEF TypeOK, SlotType, WorkerType
  <2>8. QED BY <2>1, <2>2, <2>3, <2>4, <2>5, <2>6, <2>7 DEF OwnerOK
<1>8. RefsExact'
  <2>1. \A x \in Bursts : OwnedByNew(x)' <=> OwnedByNew(x) /\ x # wNew[w]
    BY <1>a, <1>c DEF OwnedByNew, OwnerOK, NewDistinct, OldDistinct, SlotDistinct,
        SnapDistinct, NewApart, OldApart, ClearedApart, TypeOK, WorkerType
  <2>2. \A x \in Bursts : OwnedBySlot(x)' <=> (OwnedBySlot(x) /\ x # slotB[i]) \/ x = wNew[w]
    BY <1>a, <1>b, <1>c, SMTT(60) DEF OwnedBySlot, OwnerOK, NewDistinct, OldDistinct, SlotDistinct,
        SnapDistinct, NewApart, OldApart, ClearedApart, TypeOK, SlotType
  <2>3. \A x \in Bursts : OwnedByOld(x)' <=> OwnedByOld(x) \/ x = slotB[i]
    BY <1>a, <1>b, <1>c DEF OwnedByOld, WorkerOK, TypeOK, WorkerType
  <2>4. \A x \in Bursts : /\ OwnedByPacer(x)' <=> OwnedByPacer(x)
                          /\ Snapped(x)' <=> Snapped(x)
    BY <1>c DEF OwnedByPacer, Snapped
  <2>5. OwnedBySlot(slotB[i]) /\ OwnedByNew(wNew[w])
    BY <1>a, <1>b DEF OwnedBySlot, OwnedByNew
  <2>6. \A x \in Bursts : Owned(x)' <=> Owned(x)
    BY <2>1, <2>2, <2>3, <2>4, <2>5, <1>a, <1>b DEF Owned
  <2>7. QED BY <1>c, <2>4, <2>6 DEF RefsExact
<1>9. IndexExact'
  BY <1>a, <1>b, <1>c DEF TypeOK, SlotType, IndexExact
<1>10. FreeListExact'
  BY <1>a, <1>b, <1>c DEF TypeOK, SlotType, FreeListExact
<1>11. SlotReachable'
  BY <1>a, <1>b, <1>c DEF TypeOK, SlotType, SlotReachable
<1>12. stop' \in BOOLEAN /\ freed' \in BOOLEAN /\ sent' \in [to : Clients, code : Codes] \cup {None}
  BY DEF TypeOK, StartSwap, Silent
<1>13. QED BY <1>1, <1>2, <1>3, <1>4, <1>5, <1>6, <1>7, <1>8, <1>9, <1>10, <1>11,
    <1>12 DEF TypeOK

\* burst_table_start, claim: the popped slot was idle and in the client's stripe.
LEMMA StepStartClaim ==
  ASSUME IInv, NEW w \in Workers, StartClaim(w) PROVE IInv'
<1> USE NoneFacts, CapAssumption, NumberAssumption, StripeAssumption DEF IInv
<1>a. wNew[w] \in Bursts /\ wClient[w] \in Clients /\ wpc[w] = "start"
  BY WorkerFacts DEF StartClaim
<1> DEFINE c == wClient[w]
           st == ClientStripe[c]
           fl == freeList[st]
<1>b1. st \in Stripes /\ fl # << >>
  BY <1>a DEF StartClaim
<1>b. st \in Stripes /\ fl \in Seq(Slots) /\ fl # << >>
  BY <1>b1 DEF TypeOK, SlotType
<1>c. PICK i \in Slots : /\ i = fl[Len(fl)] /\ slotB[i] = None /\ SlotStripe[i] = st
  <2>1. fl[Len(fl)] \in Slots /\ Len(fl) \in Nat \ {0}
    BY <1>b, PopFacts
  <2>2. ~freed
    BY <1>a DEF FreedOK
  <2>3. QED BY <1>b, <2>1, <2>2 DEF FreeListExact
<1>d. \A j \in Slots : slotB[j] = None \/ slotAddr[j] # c
  BY <1>a, FindFacts DEF StartClaim
<1>e. /\ freeList' = [freeList EXCEPT ![st] = SubSeq(fl, 1, Len(fl) - 1)]
      /\ hwm' = (IF i + 1 > hwm THEN i + 1 ELSE hwm)
      /\ slotAddr' = [slotAddr EXCEPT ![i] = c]
      /\ slotB' = [slotB EXCEPT ![i] = wNew[w]]
      /\ msn' = [msn EXCEPT ![i] = 0]
      /\ nackCount' = [nackCount EXCEPT ![i] = 0]
      /\ adapted' = [adapted EXCEPT ![i] = FALSE]
      /\ index' = [index EXCEPT ![c] = i]
      /\ wResp' = [wResp EXCEPT ![w] = BURST_ACCEPT]
      /\ wpc' = [wpc EXCEPT ![w] = "reply"]
      /\ UNCHANGED <<refs, live, wClient, wNew, wOld, freed, snap, ppc, pos, pRemove>>
  BY <1>c DEF StartClaim, RaiseHwm
<1> HIDE DEF c, st, fl
<1>1. ObjType' /\ PacerType' /\ PacerOK'
  BY KeepObjType, KeepPacerType, KeepPacerOK DEF StartClaim, TypeOK
<1>2. SlotType'
  <2>1. freeList' \in [Stripes -> Seq(Slots)]
    BY <1>b, <1>e, PopFacts DEF TypeOK, SlotType
  <2>2. hwm' \in 0..Cap
    <3>1. hwm \in 0..Cap /\ i \in 0..(Cap - 1)
      BY DEF TypeOK, SlotType, Slots
    <3>2. hwm' = IF i + 1 > hwm THEN i + 1 ELSE hwm
      BY <1>e
    <3>3. QED BY <3>1, <3>2
  <2>3. /\ slotB' \in [Slots -> Bursts \cup {None}]
        /\ slotAddr' \in [Slots -> Clients \cup {None}]
        /\ index' \in [Clients -> Slots \cup {None}]
    BY <1>a, <1>c, <1>e DEF TypeOK, SlotType, c
  <2>4. /\ msn' \in [Slots -> 0..(MsnMod - 1)]
        /\ nackCount' \in [Slots -> 0..Threshold]
        /\ adapted' \in [Slots -> BOOLEAN]
    BY <1>c, <1>e DEF TypeOK, SlotType
  <2>5. QED BY <2>1, <2>2, <2>3, <2>4 DEF SlotType
<1>3. WorkerType'
  BY <1>a, <1>b, <1>c, <1>e DEF TypeOK, WorkerType, c
<1>4. WorkerOK'
  BY <1>a, <1>b, <1>c, <1>e DEF TypeOK, WorkerType, WorkerOK, c
<1>5. SlotOK'
  BY <1>a, <1>b, <1>c, <1>e DEF TypeOK, SlotType, SlotOK, c
<1>6. FreedOK'
  BY <1>a, <1>b, <1>c, <1>e DEF FreedOK, c
<1>7. OwnerOK'
  <2>1. NewDistinct'
    BY <1>a, <1>c, <1>e DEF TypeOK, SlotType, WorkerType, WorkerOK, OwnerOK, NewDistinct,
        OldDistinct, SlotDistinct, SnapDistinct, NewApart, OldApart, ClearedApart
  <2>2. OldDistinct'
    BY <1>a, <1>c, <1>e DEF TypeOK, SlotType, WorkerType, WorkerOK, OwnerOK, NewDistinct,
        OldDistinct, SlotDistinct, SnapDistinct, NewApart, OldApart, ClearedApart
  <2>3. SlotDistinct'
    BY <1>a, <1>c, <1>e DEF TypeOK, SlotType, WorkerType, WorkerOK, OwnerOK, NewDistinct,
        OldDistinct, SlotDistinct, SnapDistinct, NewApart, OldApart, ClearedApart
  <2>4. SnapDistinct'
    <3>1. \A j \in Slots : slotB'[j] = IF j = i THEN wNew[w] ELSE slotB[j]
      BY <1>e DEF TypeOK, SlotType
    <3>2. \A j \in Slots : snap'[j] = snap[j] /\ wNew[w] # snap[j]
      BY <1>a, <1>e DEF OwnerOK, NewApart
    <3>3. QED BY <3>1, <3>2 DEF OwnerOK, SnapDistinct
  <2>5. NewApart'
    BY <1>a, <1>c, <1>e DEF TypeOK, SlotType, WorkerType, WorkerOK, OwnerOK, NewDistinct,
        OldDistinct, SlotDistinct, SnapDistinct, NewApart, OldApart, ClearedApart
  <2>6. OldApart'
    BY <1>a, <1>c, <1>e DEF TypeOK, SlotType, WorkerType, WorkerOK, OwnerOK, NewDistinct,
        OldDistinct, SlotDistinct, SnapDistinct, NewApart, OldApart, ClearedApart
  <2>7. ClearedApart'
    <3>1. SUFFICES ASSUME ppc \in {"notify", "dropSlot"}, pRemove
                   PROVE  /\ \A v \in Workers : wOld'[v] # snap[pos]
                          /\ \A j \in Slots : slotB'[j] # snap[pos]
      BY <1>e DEF ClearedApart
    <3>2. pos \in Slots /\ snap[pos] \in Bursts
      BY <3>1, PacerFacts
    <3>3. wNew[w] # snap[pos] /\ \A j \in Slots : slotB[j] # snap[pos]
      BY <1>a, <3>1, <3>2 DEF OwnerOK, NewApart, ClearedApart
    <3>4. \A v \in Workers : wOld[v] # snap[pos]
      BY <3>1 DEF OwnerOK, ClearedApart
    <3>5. QED BY <1>c, <3>3, <3>4, <1>e DEF TypeOK, SlotType, WorkerType
  <2>8. QED BY <2>1, <2>2, <2>3, <2>4, <2>5, <2>6, <2>7 DEF OwnerOK
<1>8. RefsExact'
  <2>1. \A x \in Bursts : OwnedByNew(x)' <=> OwnedByNew(x) /\ x # wNew[w]
    BY <1>a, <1>e DEF OwnedByNew, OwnerOK, NewDistinct, OldDistinct, SlotDistinct,
        SnapDistinct, NewApart, OldApart, ClearedApart, TypeOK, WorkerType
  <2>2. \A x \in Bursts : OwnedBySlot(x)' <=> OwnedBySlot(x) \/ x = wNew[w]
    BY <1>a, <1>c, <1>e DEF OwnedBySlot, TypeOK, SlotType
  <2>3. \A x \in Bursts : /\ OwnedByOld(x)' <=> OwnedByOld(x)
                          /\ OwnedByPacer(x)' <=> OwnedByPacer(x)
                          /\ Snapped(x)' <=> Snapped(x)
    BY <1>e DEF OwnedByOld, OwnedByPacer, Snapped
  <2>4. OwnedByNew(wNew[w])
    BY <1>a DEF OwnedByNew
  <2>5. \A x \in Bursts : Owned(x)' <=> Owned(x)
    BY <2>1, <2>2, <2>3, <2>4, <1>a DEF Owned
  <2>6. QED BY <1>e, <2>3, <2>5 DEF RefsExact
<1>9. IndexExact'
  BY <1>a, <1>c, <1>d, <1>e DEF TypeOK, SlotType, IndexExact, c
<1>10. FreeListExact'
  <2> DEFINE fm == SubSeq(fl, 1, Len(fl) - 1)
  <2>1. /\ Len(fl) \in Nat \ {0} /\ Len(fm) = Len(fl) - 1
        /\ \A k \in 1..(Len(fl) - 1) : fm[k] = fl[k]
    BY <1>b, PopFacts
  <2>2. ~freed
    BY <1>a DEF FreedOK
  <2>3. /\ \A j, k \in 1..Len(fl) : fl[j] = fl[k] => j = k
        /\ \A s \in Slots : (\E j \in 1..Len(fl) : fl[j] = s) <=> (SlotStripe[s] = st /\ slotB[s] = None)
    BY <1>b, <2>2 DEF FreeListExact, fl
  <2>4. freeList'[st] = fm /\ \A t \in Stripes \ {st} : freeList'[t] = freeList[t]
    BY <1>b, <1>e DEF TypeOK, SlotType
  <2>5. \A s \in Slots : slotB'[s] = IF s = i THEN wNew[w] ELSE slotB[s]
    BY <1>e DEF TypeOK, SlotType
  <2> HIDE DEF fm
  <2>6. /\ \A j, k \in 1..Len(fm) : fm[j] = fm[k] => j = k
        /\ \A s \in Slots : (\E j \in 1..Len(fm) : fm[j] = s) <=> (SlotStripe[s] = st /\ slotB'[s] = None)
    <3>1. \A j, k \in 1..Len(fm) : fm[j] = fm[k] => j = k
      BY <2>1, <2>3
    <3>2. ASSUME NEW s \in Slots, NEW j \in 1..Len(fm), fm[j] = s
          PROVE  SlotStripe[s] = st /\ slotB'[s] = None
      BY <3>2, <2>1, <2>3, <2>5, <1>c
    <3>3. ASSUME NEW s \in Slots, SlotStripe[s] = st, slotB'[s] = None
          PROVE  \E j \in 1..Len(fm) : fm[j] = s
      <4>1. s # i /\ slotB[s] = None
        BY <3>3, <2>5, <1>a
      <4>2. PICK j \in 1..Len(fl) : fl[j] = s
        BY <4>1, <3>3, <2>3
      <4>3. j # Len(fl)
        BY <4>1, <4>2, <1>c
      <4>4. QED BY <4>2, <4>3, <2>1
    <3>4. QED BY <3>1, <3>2, <3>3
  <2>7. ASSUME NEW t \in Stripes \ {st}
        PROVE  \A s \in Slots : (SlotStripe[s] = t /\ slotB'[s] = None) <=> (SlotStripe[s] = t /\ slotB[s] = None)
    BY <2>5, <1>c
  <2>8. ASSUME NEW t \in Stripes
        PROVE  /\ \A j, k \in 1..Len(freeList'[t]) : freeList'[t][j] = freeList'[t][k] => j = k
               /\ \A s \in Slots : (\E j \in 1..Len(freeList'[t]) : freeList'[t][j] = s)
                                     <=> (SlotStripe[s] = t /\ slotB'[s] = None)
    <3>1. CASE t = st
      BY <3>1, <2>4, <2>6
    <3>2. CASE t # st
      <4>1. freeList'[t] = freeList[t]
        BY <3>2, <2>4
      <4>2. QED BY <3>2, <4>1, <2>2, <2>7 DEF FreeListExact
    <3>3. QED BY <3>1, <3>2
  <2>9. QED BY <2>8 DEF FreeListExact
<1>11. SlotReachable'
  <2>1. \A s \in Slots : /\ slotB'[s] = IF s = i THEN wNew[w] ELSE slotB[s]
                        /\ slotAddr'[s] = IF s = i THEN c ELSE slotAddr[s]
    BY <1>e DEF TypeOK, SlotType
  <2>2. i < hwm' /\ hwm <= hwm'
    <3>1. hwm \in 0..Cap /\ i \in 0..(Cap - 1)
      BY DEF TypeOK, SlotType, Slots
    <3>2. hwm' = IF i + 1 > hwm THEN i + 1 ELSE hwm
      BY <1>e
    <3>3. QED BY <3>1, <3>2
  <2>3. hwm \in Int /\ hwm' \in Int /\ \A s \in Slots : s \in Int
    BY <1>2 DEF TypeOK, SlotType, Slots
  <2>4. ASSUME NEW s \in Slots, s # i, slotB[s] # None
        PROVE  ClientStripe[slotAddr[s]] = SlotStripe[s] /\ s < hwm'
    BY <2>2, <2>3, <2>4 DEF SlotReachable
  <2>5. QED BY <2>1, <2>2, <2>4, <1>c DEF SlotReachable, st
<1>12. stop' \in BOOLEAN /\ freed' \in BOOLEAN /\ sent' \in [to : Clients, code : Codes] \cup {None}
  BY DEF TypeOK, StartClaim, Silent
<1>13. QED BY <1>1, <1>2, <1>3, <1>4, <1>5, <1>6, <1>7, <1>8, <1>9, <1>10, <1>11,
    <1>12 DEF TypeOK

\* burst_table_start failed: the worker was the burst's only owner, so freeing it is safe.
LEMMA StepStartFull ==
  ASSUME IInv, NEW w \in Workers, StartFull(w) PROVE IInv'
<1> USE NoneFacts, CapAssumption, NumberAssumption, StripeAssumption DEF IInv
<1>a. /\ wNew[w] \in Bursts /\ wClient[w] \in Clients /\ wpc[w] = "start"
      /\ refs[wNew[w]] = 1 /\ OwnedByNew(wNew[w]) /\ ~Snapped(wNew[w])
  BY WorkerFacts DEF StartFull, OwnedByNew, Snapped, OwnerOK, NewDistinct, OldDistinct,
      SlotDistinct, SnapDistinct, NewApart, OldApart, ClearedApart
<1>b. index' = index
  <2>1. FindValid(wClient[w]) = index[wClient[w]]
    BY <1>a, FindFacts
  <2>2. QED BY <1>a, <2>1 DEF StartFull, IndexAfterFind, TypeOK, SlotType
<1>1. PacerType' /\ PacerOK' /\ SlotOK' /\ FreeListExact' /\ SlotReachable'
  BY KeepPacerType, KeepPacerOK, KeepSlotOK, KeepFreeListExact,
      KeepSlotReachable DEF StartFull, TypeOK
<1>2. ObjType'
  <2>1. refs' \in [Bursts -> Nat]
    BY <1>a DEF StartFull, TypeOK, ObjType
  <2>2. QED BY <2>1, WipeType DEF StartFull, TypeOK
<1>3. SlotType'
  BY <1>b, KeepSlotType DEF StartFull, TypeOK
<1>4. WorkerType'
  BY <1>a, <1>b DEF TypeOK, WorkerType, StartFull, IndexAfterFind, Say
<1>5. WorkerOK'
  BY <1>a, <1>b DEF TypeOK, SlotType, WorkerType, PacerType, WorkerOK, StartFull,
      IndexAfterFind, Say
<1>6. FreedOK'
  BY <1>a, <1>b DEF TypeOK, SlotType, WorkerType, PacerType, FreedOK, StartFull,
      IndexAfterFind, Say
<1>7. OwnerOK'
  BY <1>a DEF StartFull, TypeOK, WorkerType, OwnerOK, NewDistinct, OldDistinct, SlotDistinct,
      SnapDistinct, NewApart, OldApart, ClearedApart, WorkerOK
<1>8. RefsExact'
  <2>1. \A x \in Bursts : OwnedByNew(x)' <=> OwnedByNew(x) /\ x # wNew[w]
    BY <1>a DEF StartFull, OwnedByNew, OwnerOK, NewDistinct, OldDistinct, SlotDistinct,
        SnapDistinct, NewApart, OldApart, ClearedApart, TypeOK, WorkerType
  <2>2. \A x \in Bursts : /\ OwnedBySlot(x)' <=> OwnedBySlot(x)
                          /\ OwnedByOld(x)' <=> OwnedByOld(x)
                          /\ OwnedByPacer(x)' <=> OwnedByPacer(x)
                          /\ Snapped(x)' <=> Snapped(x)
    BY DEF StartFull, OwnedBySlot, OwnedByOld, OwnedByPacer, Snapped
  <2>3. ~OwnedBySlot(wNew[w]) /\ ~OwnedByOld(wNew[w]) /\ ~OwnedByPacer(wNew[w])
    <3>1. ~OwnedByPacer(wNew[w])
      BY <1>a, PacerFacts DEF OwnedByPacer, Snapped
    <3>2. QED BY <1>a, <3>1 DEF OwnerOK, NewApart, OwnedBySlot, OwnedByOld
  <2>4. \A x \in Bursts : /\ refs'[x] = IF x = wNew[w] THEN 0 ELSE refs[x]
                          /\ live'[x] = IF x = wNew[w] THEN FALSE ELSE live[x]
    BY <1>a DEF StartFull, Wipe, TypeOK, ObjType
  <2>8. ASSUME NEW x \in Bursts
        PROVE  /\ refs'[x] = (IF Owned(x)' THEN 1 ELSE 0) + (IF Snapped(x)' THEN 1 ELSE 0)
               /\ live'[x] <=> refs'[x] > 0
    <3>1. Snapped(x)' <=> Snapped(x)
      BY <2>2
    <3>2. CASE x = wNew[w]
      <4>1. refs'[x] = 0 /\ ~live'[x]
        BY <3>2, <2>4
      <4>2. ~Owned(x)' /\ ~Snapped(x)'
        BY <3>2, <1>a, <2>1, <2>2, <2>3 DEF Owned
      <4>3. QED BY <4>1, <4>2
    <3>3. CASE x # wNew[w]
      <4>1. Owned(x)' <=> Owned(x)
        BY <1>a, <2>1, <2>2, <2>3, <2>4, <3>3 DEF Owned
      <4>2. refs'[x] = refs[x] /\ live'[x] = live[x]
        BY <1>a, <2>1, <2>2, <2>3, <2>4, <3>3
      <4>3. QED BY <4>1, <4>2, <3>1 DEF RefsExact
    <3>4. QED BY <3>2, <3>3
  <2>9. QED BY <2>8 DEF RefsExact
<1>9. IndexExact'
  BY <1>b, KeepIndexExact DEF StartFull
<1>10. stop' \in BOOLEAN /\ freed' \in BOOLEAN /\ sent' \in [to : Clients, code : Codes] \cup {None}
  BY <1>a DEF StartFull, Say, TypeOK
<1>11. QED BY <1>1, <1>2, <1>3, <1>4, <1>5, <1>6, <1>7, <1>8, <1>9, <1>10 DEF TypeOK

\* burst_terminate of the swapped-out burst, which the worker still owns.
LEMMA StepTerminateOld ==
  ASSUME IInv, NEW w \in Workers, TerminateOld(w) PROVE IInv'
<1> USE NoneFacts, CapAssumption, NumberAssumption, StripeAssumption DEF IInv
<1>a. wOld[w] \in Bursts
  BY WorkerFacts DEF TerminateOld
<1>1. SlotType' /\ PacerType' /\ PacerOK' /\ SlotOK' /\ IndexExact' /\ FreeListExact' /\
      SlotReachable'
  BY KeepSlotType, KeepPacerType, KeepPacerOK, KeepSlotOK, KeepIndexExact, KeepFreeListExact,
      KeepSlotReachable DEF TerminateOld, TypeOK
<1>2. ObjType'
  BY <1>a DEF TypeOK, ObjType, TerminateOld, Silent
<1>3. WorkerType'
  BY <1>a DEF TypeOK, WorkerType, TerminateOld, Silent
<1>4. WorkerOK'
  BY <1>a DEF TypeOK, SlotType, WorkerType, PacerType, WorkerOK, TerminateOld, Silent
<1>5. FreedOK'
  BY <1>a DEF TypeOK, SlotType, WorkerType, PacerType, FreedOK, TerminateOld, Silent
<1>6. OwnerOK'
  BY <1>a DEF TypeOK, SlotType, WorkerType, PacerType, OwnerOK, NewDistinct, OldDistinct,
      SlotDistinct, SnapDistinct, NewApart, OldApart, ClearedApart, TerminateOld, Silent
<1>7. RefsExact'
  BY SameOwners DEF TerminateOld, TypeOK, WorkerType
<1>8. stop' \in BOOLEAN /\ freed' \in BOOLEAN /\ sent' \in [to : Clients, code : Codes] \cup {None}
  BY <1>a DEF TypeOK, TerminateOld, Silent
<1>9. QED BY <1>1, <1>2, <1>3, <1>4, <1>5, <1>6, <1>7, <1>8 DEF TypeOK

\* burst_release of the swapped-out burst: a pacer snapshot keeps it alive.
LEMMA StepReleaseOld ==
  ASSUME IInv, NEW w \in Workers, ReleaseOld(w) PROVE IInv'
<1> USE NoneFacts, CapAssumption, NumberAssumption, StripeAssumption DEF IInv
<1>a. wOld[w] \in Bursts /\ refs[wOld[w]] >= 1 /\ wpc[w] = "releaseOld"
  BY WorkerFacts DEF ReleaseOld
<1>1. SlotType' /\ PacerType' /\ PacerOK' /\ SlotOK' /\ IndexExact' /\ FreeListExact' /\
      SlotReachable'
  BY KeepSlotType, KeepPacerType, KeepPacerOK, KeepSlotOK, KeepIndexExact, KeepFreeListExact,
      KeepSlotReachable DEF ReleaseOld, TypeOK
<1>2. ObjType'
  BY <1>a, ReleaseType DEF ReleaseOld, TypeOK
<1>3. WorkerType'
  BY <1>a DEF TypeOK, WorkerType, ReleaseOld, ReleaseRef, Wipe, Silent
<1>4. WorkerOK'
  BY <1>a DEF TypeOK, SlotType, WorkerType, PacerType, WorkerOK, ReleaseOld, ReleaseRef, Wipe,
      Silent
<1>5. FreedOK'
  BY <1>a DEF TypeOK, SlotType, WorkerType, PacerType, FreedOK, ReleaseOld, ReleaseRef, Wipe,
      Silent
<1>6. OwnerOK'
  BY <1>a DEF ReleaseOld, TypeOK, WorkerType, OwnerOK, NewDistinct, OldDistinct, SlotDistinct,
      SnapDistinct, NewApart, OldApart, ClearedApart, WorkerOK, PacerType, PacerOK
<1>7. RefsExact'
  <2>1. \A x \in Bursts : OwnedByOld(x)' <=> OwnedByOld(x) /\ x # wOld[w]
    BY <1>a DEF ReleaseOld, OwnedByOld, OwnerOK, NewDistinct, OldDistinct, SlotDistinct,
        SnapDistinct, NewApart, OldApart, ClearedApart, TypeOK, WorkerType
  <2>2. \A x \in Bursts : OwnedByNew(x)' <=> OwnedByNew(x)
    BY <1>a DEF ReleaseOld, OwnedByNew, TypeOK, WorkerType
  <2>3. \A x \in Bursts : /\ OwnedBySlot(x)' <=> OwnedBySlot(x)
                          /\ OwnedByPacer(x)' <=> OwnedByPacer(x)
                          /\ Snapped(x)' <=> Snapped(x)
    BY DEF ReleaseOld, OwnedBySlot, OwnedByPacer, Snapped
  <2>4. OwnedByOld(wOld[w]) /\ ~OwnedByNew(wOld[w]) /\ ~OwnedBySlot(wOld[w]) /\ ~OwnedByPacer(wOld[w])
    BY <1>a DEF OwnerOK, NewDistinct, OldDistinct, SlotDistinct, SnapDistinct, NewApart,
        OldApart, ClearedApart, OwnedByOld, OwnedByNew, OwnedBySlot, OwnedByPacer
  <2>5. QED BY <1>a, <2>1, <2>2, <2>3, <2>4, ReleaseRefs DEF ReleaseOld, Owned, TypeOK
<1>8. stop' \in BOOLEAN /\ freed' \in BOOLEAN /\ sent' \in [to : Clients, code : Codes] \cup {None}
  BY <1>a DEF TypeOK, ReleaseOld, ReleaseRef, Wipe, Silent
<1>9. QED BY <1>1, <1>2, <1>3, <1>4, <1>5, <1>6, <1>7, <1>8 DEF TypeOK

\* The answer of rams_r_cb moves no reference.
LEMMA StepReply ==
  ASSUME IInv, NEW w \in Workers, Reply(w) PROVE IInv'
<1> USE NoneFacts, CapAssumption, NumberAssumption, StripeAssumption DEF IInv
<1>a. wClient[w] \in Clients /\ wpc[w] = "reply"
  BY WorkerFacts DEF Reply
<1>1. ObjType' /\ SlotType' /\ PacerType' /\ PacerOK' /\ SlotOK' /\ IndexExact' /\ FreeListExact' /\
      SlotReachable'
  BY KeepObjType, KeepSlotType, KeepPacerType, KeepPacerOK, KeepSlotOK, KeepIndexExact,
      KeepFreeListExact, KeepSlotReachable DEF Reply, TypeOK
<1>2. WorkerType'
  BY <1>a DEF TypeOK, WorkerType, Reply, Say
<1>3. WorkerOK'
  BY <1>a DEF TypeOK, SlotType, WorkerType, PacerType, WorkerOK, Reply, Say
<1>4. FreedOK'
  BY <1>a DEF TypeOK, SlotType, WorkerType, PacerType, FreedOK, Reply, Say
<1>5. OwnerOK'
  BY <1>a DEF TypeOK, SlotType, WorkerType, PacerType, OwnerOK, NewDistinct, OldDistinct,
      SlotDistinct, SnapDistinct, NewApart, OldApart, ClearedApart, Reply, Say
<1>6. RefsExact'
  BY SameOwners DEF Reply, TypeOK, WorkerType
<1>7. stop' \in BOOLEAN /\ freed' \in BOOLEAN /\ sent' \in [to : Clients, code : Codes] \cup {None}
  BY <1>a DEF Reply, Say, TypeOK, WorkerType
<1>8. QED BY <1>1, <1>2, <1>3, <1>4, <1>5, <1>6, <1>7 DEF TypeOK

\* A worker leaves with nothing in hand.
LEMMA StepWorkerExit ==
  ASSUME IInv, NEW w \in Workers, WorkerExit(w) PROVE IInv'
<1> USE NoneFacts, CapAssumption, NumberAssumption, StripeAssumption DEF IInv
<1>1. ObjType' /\ SlotType' /\ PacerType' /\ PacerOK' /\ SlotOK' /\ IndexExact' /\ FreeListExact' /\
      SlotReachable'
  BY KeepObjType, KeepSlotType, KeepPacerType, KeepPacerOK, KeepSlotOK, KeepIndexExact,
      KeepFreeListExact, KeepSlotReachable DEF WorkerExit, TypeOK
<1>2. WorkerType'
  BY DEF TypeOK, WorkerType, WorkerExit, Silent
<1>3. WorkerOK'
  BY DEF TypeOK, SlotType, WorkerType, PacerType, WorkerOK, WorkerExit, Silent
<1>4. FreedOK'
  BY DEF TypeOK, SlotType, WorkerType, PacerType, FreedOK, WorkerExit, Silent
<1>5. OwnerOK'
  BY DEF TypeOK, SlotType, WorkerType, PacerType, OwnerOK, NewDistinct, OldDistinct,
      SlotDistinct, SnapDistinct, NewApart, OldApart, ClearedApart, WorkerExit, Silent
<1>6. RefsExact'
  BY SameOwners DEF WorkerExit, TypeOK, WorkerType
<1>7. stop' \in BOOLEAN /\ freed' \in BOOLEAN /\ sent' \in [to : Clients, code : Codes] \cup {None}
  BY DEF TypeOK, WorkerExit, Silent
<1>8. QED BY <1>1, <1>2, <1>3, <1>4, <1>5, <1>6, <1>7 DEF TypeOK

\* The pacer starts a cycle with no snapshot.
LEMMA StepPacerBegin ==
  ASSUME IInv, PacerBegin PROVE IInv'
<1> USE NoneFacts, CapAssumption, NumberAssumption, StripeAssumption DEF IInv
<1>1. ObjType' /\ SlotType' /\ WorkerType' /\ WorkerOK' /\ SlotOK' /\ IndexExact' /\
      FreeListExact' /\ SlotReachable'
  BY KeepObjType, KeepSlotType, KeepWorkerType, KeepWorkerOK, KeepSlotOK, KeepIndexExact,
      KeepFreeListExact, KeepSlotReachable DEF PacerBegin, TypeOK
<1>2. PacerType'
  BY DEF PacerBegin, TypeOK, PacerType, SlotType
<1>3. PacerOK'
  BY DEF Slots, TypeOK, SlotType, WorkerType, PacerType, PacerOK, PacerBegin, Silent
<1>4. FreedOK'
  BY DEF TypeOK, SlotType, WorkerType, PacerType, FreedOK, PacerBegin, Silent
<1>5. OwnerOK'
  BY DEF TypeOK, SlotType, WorkerType, PacerType, OwnerOK, NewDistinct, OldDistinct,
      SlotDistinct, SnapDistinct, NewApart, OldApart, ClearedApart, PacerBegin, Silent
<1>6. RefsExact'
  BY SameOwners DEF PacerBegin, TypeOK, PacerType, PacerOK
<1>7. stop' \in BOOLEAN /\ freed' \in BOOLEAN /\ sent' \in [to : Clients, code : Codes] \cup {None}
  BY DEF TypeOK, PacerBegin, Silent
<1>8. QED BY <1>1, <1>2, <1>3, <1>4, <1>5, <1>6, <1>7 DEF TypeOK

\* The pacer leaves with no snapshot.
LEMMA StepPacerExit ==
  ASSUME IInv, PacerExit PROVE IInv'
<1> USE NoneFacts, CapAssumption, NumberAssumption, StripeAssumption DEF IInv
<1>1. ObjType' /\ SlotType' /\ WorkerType' /\ WorkerOK' /\ SlotOK' /\ IndexExact' /\
      FreeListExact' /\ SlotReachable'
  BY KeepObjType, KeepSlotType, KeepWorkerType, KeepWorkerOK, KeepSlotOK, KeepIndexExact,
      KeepFreeListExact, KeepSlotReachable DEF PacerExit, TypeOK
<1>2. PacerType'
  BY DEF TypeOK, PacerType, PacerOK, Slots, PacerExit, Silent
<1>3. PacerOK'
  BY DEF Slots, TypeOK, SlotType, WorkerType, PacerType, PacerOK, PacerExit, Silent
<1>4. FreedOK'
  BY DEF TypeOK, SlotType, WorkerType, PacerType, FreedOK, PacerExit, Silent
<1>5. OwnerOK'
  BY DEF TypeOK, SlotType, WorkerType, PacerType, OwnerOK, NewDistinct, OldDistinct,
      SlotDistinct, SnapDistinct, NewApart, OldApart, ClearedApart, PacerExit, Silent
<1>6. RefsExact'
  BY SameOwners DEF PacerExit, TypeOK, PacerType, PacerOK
<1>7. stop' \in BOOLEAN /\ freed' \in BOOLEAN /\ sent' \in [to : Clients, code : Codes] \cup {None}
  BY DEF TypeOK, PacerExit, Silent
<1>8. QED BY <1>1, <1>2, <1>3, <1>4, <1>5, <1>6, <1>7 DEF TypeOK

\* burst_table_acquire: one more snapshot, one more reference.
LEMMA StepPacerAcquire ==
  ASSUME IInv, PacerAcquire PROVE IInv'
<1> USE NoneFacts, CapAssumption, NumberAssumption, StripeAssumption DEF IInv
<1>a. /\ pos \in Slots /\ slotB[pos] \in Bursts /\ slotAddr[pos] \in Clients
      /\ snap[pos] = None
  BY DEF PacerAcquire, TypeOK, PacerType, SlotType, SlotOK, PacerOK, Slots
<1>1. SlotType' /\ WorkerType' /\ WorkerOK' /\ SlotOK' /\ FreedOK' /\ IndexExact' /\
      FreeListExact' /\ SlotReachable'
  BY KeepSlotType, KeepWorkerType, KeepWorkerOK, KeepSlotOK, KeepFreedOK, KeepIndexExact,
      KeepFreeListExact, KeepSlotReachable DEF PacerAcquire, TypeOK
<1>2. ObjType'
  BY <1>a DEF PacerAcquire, TakeRef, TypeOK, ObjType
<1>3. PacerType'
  BY <1>a DEF TypeOK, PacerType, PacerOK, Slots, PacerAcquire, TakeRef, Silent
<1>4. PacerOK'
  BY <1>a DEF Slots, TypeOK, SlotType, WorkerType, PacerType, PacerOK, PacerAcquire, TakeRef,
      Silent
<1>5. OwnerOK'
  <2>1. NewDistinct'
    BY <1>a DEF PacerAcquire, TypeOK, PacerType, SlotType, WorkerOK, OwnerOK, NewDistinct,
        OldDistinct, SlotDistinct, SnapDistinct, NewApart, OldApart, ClearedApart
  <2>2. OldDistinct'
    BY <1>a DEF PacerAcquire, TypeOK, PacerType, SlotType, WorkerOK, OwnerOK, NewDistinct,
        OldDistinct, SlotDistinct, SnapDistinct, NewApart, OldApart, ClearedApart
  <2>3. SlotDistinct'
    BY <1>a DEF PacerAcquire, TypeOK, PacerType, SlotType, WorkerOK, OwnerOK, NewDistinct,
        OldDistinct, SlotDistinct, SnapDistinct, NewApart, OldApart, ClearedApart
  <2>4. SnapDistinct'
    <3>1. \A j \in Slots : snap'[j] = IF j = pos THEN slotB[pos] ELSE snap[j]
      BY DEF PacerAcquire, TypeOK, PacerType
    <3>2. \A j \in Slots : slotB'[j] = slotB[j]
      BY DEF PacerAcquire
    <3>3. QED BY <1>a, <3>1, <3>2 DEF OwnerOK, SnapDistinct, SlotDistinct
  <2>5. NewApart'
    BY <1>a DEF PacerAcquire, TypeOK, PacerType, SlotType, WorkerOK, OwnerOK, NewDistinct,
        OldDistinct, SlotDistinct, SnapDistinct, NewApart, OldApart, ClearedApart
  <2>6. OldApart'
    BY <1>a DEF PacerAcquire, TypeOK, PacerType, SlotType, WorkerOK, OwnerOK, NewDistinct,
        OldDistinct, SlotDistinct, SnapDistinct, NewApart, OldApart, ClearedApart
  <2>7. ClearedApart'
    BY <1>a DEF PacerAcquire, TypeOK, PacerType, SlotType, WorkerOK, OwnerOK, NewDistinct,
        OldDistinct, SlotDistinct, SnapDistinct, NewApart, OldApart, ClearedApart
  <2>8. QED BY <2>1, <2>2, <2>3, <2>4, <2>5, <2>6, <2>7 DEF OwnerOK
<1>6. RefsExact'
  <2>1. \A x \in Bursts : Snapped(x)' <=> Snapped(x) \/ x = slotB[pos]
    BY <1>a DEF PacerAcquire, Snapped, TypeOK, PacerType
  <2>2. \A x \in Bursts : /\ OwnedByNew(x)' <=> OwnedByNew(x)
                          /\ OwnedBySlot(x)' <=> OwnedBySlot(x)
                          /\ OwnedByOld(x)' <=> OwnedByOld(x)
                          /\ OwnedByPacer(x)' <=> OwnedByPacer(x)
    BY DEF PacerAcquire, OwnedByNew, OwnedBySlot, OwnedByOld, OwnedByPacer
  <2>3. ~Snapped(slotB[pos])
    BY <1>a DEF Snapped, OwnerOK, NewDistinct, OldDistinct, SlotDistinct, SnapDistinct,
        NewApart, OldApart, ClearedApart
  <2>4. \A x \in Bursts : /\ refs'[x] = IF x = slotB[pos] THEN refs[x] + 1 ELSE refs[x]
                          /\ live'[x] = live[x]
    BY <1>a DEF PacerAcquire, TakeRef, TypeOK, ObjType
  <2>5. OwnedBySlot(slotB[pos])
    BY <1>a DEF OwnedBySlot
  <2>6. QED BY <1>a, <2>1, <2>2, <2>3, <2>4, <2>5 DEF RefsExact, Owned
<1>7. stop' \in BOOLEAN /\ freed' \in BOOLEAN /\ sent' \in [to : Clients, code : Codes] \cup {None}
  BY <1>a DEF TypeOK, PacerAcquire, TakeRef, Silent
<1>8. QED BY <1>1, <1>2, <1>3, <1>4, <1>5, <1>6, <1>7 DEF TypeOK

\* An idle slot is not snapshotted.
LEMMA StepPacerSkip ==
  ASSUME IInv, PacerSkip PROVE IInv'
<1> USE NoneFacts, CapAssumption, NumberAssumption, StripeAssumption DEF IInv
<1>1. ObjType' /\ SlotType' /\ WorkerType' /\ WorkerOK' /\ SlotOK' /\ FreedOK' /\ IndexExact' /\
      FreeListExact' /\ SlotReachable'
  BY KeepObjType, KeepSlotType, KeepWorkerType, KeepWorkerOK, KeepSlotOK, KeepFreedOK,
      KeepIndexExact, KeepFreeListExact, KeepSlotReachable DEF PacerSkip, TypeOK
<1>2. PacerType'
  BY DEF TypeOK, PacerType, PacerOK, Slots, PacerSkip, Silent
<1>3. PacerOK'
  BY DEF Slots, TypeOK, SlotType, WorkerType, PacerType, PacerOK, PacerSkip, Silent
<1>4. OwnerOK'
  BY DEF TypeOK, SlotType, WorkerType, PacerType, OwnerOK, NewDistinct, OldDistinct,
      SlotDistinct, SnapDistinct, NewApart, OldApart, ClearedApart, PacerSkip, Silent
<1>5. RefsExact'
  BY SameOwners DEF PacerSkip, TypeOK, PacerType, PacerOK
<1>6. stop' \in BOOLEAN /\ freed' \in BOOLEAN /\ sent' \in [to : Clients, code : Codes] \cup {None}
  BY DEF TypeOK, PacerSkip, Silent
<1>7. QED BY <1>1, <1>2, <1>3, <1>4, <1>5, <1>6 DEF TypeOK

\* All snapshots lie below the scan mark when the ticks begin.
LEMMA StepPacerScanned ==
  ASSUME IInv, PacerScanned PROVE IInv'
<1> USE NoneFacts, CapAssumption, NumberAssumption, StripeAssumption DEF IInv
<1>1. ObjType' /\ SlotType' /\ WorkerType' /\ WorkerOK' /\ SlotOK' /\ IndexExact' /\
      FreeListExact' /\ SlotReachable'
  BY KeepObjType, KeepSlotType, KeepWorkerType, KeepWorkerOK, KeepSlotOK, KeepIndexExact,
      KeepFreeListExact, KeepSlotReachable DEF PacerScanned, TypeOK
<1>2. PacerType'
  BY DEF TypeOK, PacerType, PacerOK, Slots, PacerScanned, Silent
<1>3. PacerOK'
  BY DEF Slots, TypeOK, SlotType, WorkerType, PacerType, PacerOK, PacerScanned, Silent
<1>4. FreedOK'
  BY DEF TypeOK, SlotType, WorkerType, PacerType, FreedOK, PacerScanned, Silent
<1>5. OwnerOK'
  BY DEF TypeOK, SlotType, WorkerType, PacerType, OwnerOK, NewDistinct, OldDistinct,
      SlotDistinct, SnapDistinct, NewApart, OldApart, ClearedApart, PacerScanned, Silent
<1>6. RefsExact'
  BY SameOwners DEF PacerScanned, TypeOK, PacerType, PacerOK
<1>7. stop' \in BOOLEAN /\ freed' \in BOOLEAN /\ sent' \in [to : Clients, code : Codes] \cup {None}
  BY DEF TypeOK, PacerScanned, Silent
<1>8. QED BY <1>1, <1>2, <1>3, <1>4, <1>5, <1>6, <1>7 DEF TypeOK

\* A slot without a snapshot is passed over.
LEMMA StepPacerNext ==
  ASSUME IInv, PacerNext PROVE IInv'
<1> USE NoneFacts, CapAssumption, NumberAssumption, StripeAssumption DEF IInv
<1>1. ObjType' /\ SlotType' /\ WorkerType' /\ WorkerOK' /\ SlotOK' /\ FreedOK' /\ IndexExact' /\
      FreeListExact' /\ SlotReachable'
  BY KeepObjType, KeepSlotType, KeepWorkerType, KeepWorkerOK, KeepSlotOK, KeepFreedOK,
      KeepIndexExact, KeepFreeListExact, KeepSlotReachable DEF PacerNext, TypeOK
<1>2. PacerType'
  BY DEF TypeOK, PacerType, PacerOK, Slots, PacerNext, Silent
<1>3. PacerOK'
  BY DEF Slots, TypeOK, SlotType, WorkerType, PacerType, PacerOK, PacerNext, Silent
<1>4. OwnerOK'
  BY DEF TypeOK, SlotType, WorkerType, PacerType, OwnerOK, NewDistinct, OldDistinct,
      SlotDistinct, SnapDistinct, NewApart, OldApart, ClearedApart, PacerNext, Silent
<1>5. RefsExact'
  BY SameOwners DEF PacerNext, TypeOK, PacerType, PacerOK
<1>6. stop' \in BOOLEAN /\ freed' \in BOOLEAN /\ sent' \in [to : Clients, code : Codes] \cup {None}
  BY DEF TypeOK, PacerNext, Silent
<1>7. QED BY <1>1, <1>2, <1>3, <1>4, <1>5, <1>6 DEF TypeOK

\* No snapshot is left at the end of a cycle.
LEMMA StepPacerCycleEnd ==
  ASSUME IInv, PacerCycleEnd PROVE IInv'
<1> USE NoneFacts, CapAssumption, NumberAssumption, StripeAssumption DEF IInv
<1>1. ObjType' /\ SlotType' /\ WorkerType' /\ WorkerOK' /\ SlotOK' /\ IndexExact' /\
      FreeListExact' /\ SlotReachable'
  BY KeepObjType, KeepSlotType, KeepWorkerType, KeepWorkerOK, KeepSlotOK, KeepIndexExact,
      KeepFreeListExact, KeepSlotReachable DEF PacerCycleEnd, TypeOK
<1>2. PacerType'
  BY DEF TypeOK, PacerType, PacerOK, Slots, PacerCycleEnd, Silent
<1>3. PacerOK'
  BY DEF Slots, TypeOK, SlotType, WorkerType, PacerType, PacerOK, PacerCycleEnd, Silent
<1>4. FreedOK'
  BY DEF TypeOK, SlotType, WorkerType, PacerType, FreedOK, PacerCycleEnd, Silent
<1>5. OwnerOK'
  BY DEF TypeOK, SlotType, WorkerType, PacerType, OwnerOK, NewDistinct, OldDistinct,
      SlotDistinct, SnapDistinct, NewApart, OldApart, ClearedApart, PacerCycleEnd, Silent
<1>6. RefsExact'
  BY SameOwners DEF PacerCycleEnd, TypeOK, PacerType, PacerOK
<1>7. stop' \in BOOLEAN /\ freed' \in BOOLEAN /\ sent' \in [to : Clients, code : Codes] \cup {None}
  BY DEF TypeOK, PacerCycleEnd, Silent
<1>8. QED BY <1>1, <1>2, <1>3, <1>4, <1>5, <1>6, <1>7 DEF TypeOK

\* The first half of burst_tick moves no reference.
LEMMA StepTickEnter ==
  ASSUME IInv, TickEnter PROVE IInv'
<1> USE NoneFacts, CapAssumption, NumberAssumption, StripeAssumption DEF IInv
<1>a. pos \in Slots /\ snap[pos] \in Bursts
  BY DEF TickEnter, TypeOK, PacerType, Slots
<1>1. SlotType' /\ WorkerType' /\ WorkerOK' /\ SlotOK' /\ IndexExact' /\ FreeListExact' /\
      SlotReachable'
  BY KeepSlotType, KeepWorkerType, KeepWorkerOK, KeepSlotOK, KeepIndexExact, KeepFreeListExact,
      KeepSlotReachable DEF TickEnter, TypeOK
<1>2. ObjType'
  <2>1. done' \in [Bursts -> BOOLEAN]
    <3>1. done' = [done EXCEPT ![snap[pos]] = IF TickOver(snap[pos]) THEN TRUE ELSE @]
      BY DEF TickEnter
    <3>2. done \in [Bursts -> BOOLEAN]
      BY DEF TypeOK, ObjType
    <3>3. QED BY ONLY <1>a, <3>1, <3>2, FlagSet
  <2>2. elapsed' \in [Bursts -> 0..DurationTicks]
    BY <1>a DEF TypeOK, ObjType, TickEnter
  <2>3. QED BY <2>1, <2>2 DEF TypeOK, ObjType, TickEnter
<1>3. PacerType'
  BY <1>a DEF TypeOK, PacerType, PacerOK, Slots, TickEnter, Silent
<1>4. PacerOK'
  BY <1>a DEF Slots, TypeOK, SlotType, WorkerType, PacerType, PacerOK, TickEnter, Silent
<1>5. FreedOK'
  BY <1>a DEF TypeOK, SlotType, WorkerType, PacerType, FreedOK, TickEnter, Silent
<1>6. OwnerOK'
  BY QuietOwnerOK DEF TickEnter
<1>7. RefsExact'
  BY SameOwners DEF TickEnter, TypeOK, PacerType, PacerOK
<1>8. stop' \in BOOLEAN /\ freed' \in BOOLEAN /\ sent' \in [to : Clients, code : Codes] \cup {None}
  BY <1>a DEF TypeOK, TickEnter, Silent
<1>9. QED BY <1>1, <1>2, <1>3, <1>4, <1>5, <1>6, <1>7, <1>8 DEF TypeOK

\* The send loop of burst_tick moves no reference.
LEMMA StepTickSend ==
  ASSUME IInv, TickSend PROVE IInv'
<1> USE NoneFacts, CapAssumption, NumberAssumption, StripeAssumption DEF IInv
<1>a. /\ pos \in Slots /\ snap[pos] \in Bursts /\ snapAddr[pos] \in Clients
      /\ refs[snap[pos]] >= 1 /\ Snapped(snap[pos])
  BY PacerFacts DEF TickSend
<1>1. SlotType' /\ WorkerType' /\ WorkerOK' /\ SlotOK' /\ IndexExact' /\ FreeListExact' /\
      SlotReachable'
  BY KeepSlotType, KeepWorkerType, KeepWorkerOK, KeepSlotOK, KeepIndexExact, KeepFreeListExact,
      KeepSlotReachable DEF TickSend, TypeOK
<1>2. ObjType'
  <2>1. done' \in [Bursts -> BOOLEAN]
    <3>1. PICK ends \in BOOLEAN : done' = [done EXCEPT ![snap[pos]] = IF ends THEN TRUE ELSE @]
      BY DEF TickSend
    <3>2. done \in [Bursts -> BOOLEAN]
      BY DEF TypeOK, ObjType
    <3>3. QED BY ONLY <1>a, <3>1, <3>2, FlagSet
  <2>2. QED BY <2>1 DEF TypeOK, ObjType, TickSend
<1>3. PacerType'
  BY <1>a DEF TypeOK, PacerType, PacerOK, Slots, TickSend, Silent
<1>4. PacerOK'
  BY <1>a DEF Slots, TypeOK, SlotType, WorkerType, PacerType, PacerOK, TickSend, Silent
<1>5. FreedOK'
  BY <1>a DEF TypeOK, SlotType, WorkerType, PacerType, FreedOK, TickSend, Silent
<1>6. OwnerOK'
  BY QuietOwnerOK DEF TickSend
<1>7. RefsExact'
  BY SameOwners DEF TickSend, TypeOK, PacerType, PacerOK
<1>8. stop' \in BOOLEAN /\ freed' \in BOOLEAN /\ sent' \in [to : Clients, code : Codes] \cup {None}
  BY <1>a DEF TypeOK, TickSend, Silent
<1>9. QED BY <1>1, <1>2, <1>3, <1>4, <1>5, <1>6, <1>7, <1>8 DEF TypeOK

\* burst_table_release: a cleared slot's reference passes to the pacer.
LEMMA StepPacerRelease ==
  ASSUME IInv, PacerRelease PROVE IInv'
<1> USE NoneFacts, CapAssumption, NumberAssumption, StripeAssumption DEF IInv
<1>a. /\ pos \in Slots /\ snap[pos] \in Bursts /\ snapAddr[pos] \in Clients
      /\ refs[snap[pos]] >= 1 /\ Snapped(snap[pos])
  BY PacerFacts DEF PacerRelease
<1> DEFINE clr == OwnsSlot /\ ShouldClear
<1>b. /\ ppc = "release" /\ ppc' = "notify" /\ pRemove' = clr
      /\ slotB' = [slotB EXCEPT ![pos] = IF clr THEN None ELSE @]
      /\ slotAddr' = [slotAddr EXCEPT ![pos] = IF clr THEN None ELSE @]
      /\ msn' = [msn EXCEPT ![pos] = IF clr THEN 0 ELSE @]
      /\ nackCount' = [nackCount EXCEPT ![pos] = IF clr THEN 0 ELSE @]
      /\ adapted' = [adapted EXCEPT ![pos] = IF clr THEN FALSE ELSE @]
      /\ index' = IF clr THEN [index EXCEPT ![slotAddr[pos]] = None] ELSE index
      /\ freeList' = IF clr THEN [freeList EXCEPT ![SlotStripe[pos]] = Append(@, pos)] ELSE freeList
      /\ UNCHANGED <<live, refs, hwm, wpc, wNew, wOld, scanUpto, pos, snap, snapAddr, freed>>
  BY DEF PacerRelease, Unindex, PushFree
<1>c. clr \in BOOLEAN /\ (clr => slotB[pos] = snap[pos] /\ slotAddr[pos] \in Clients)
  BY <1>a DEF OwnsSlot, ShouldClear, SlotOK
<1> HIDE DEF clr
<1>1. ObjType' /\ WorkerType' /\ WorkerOK'
  BY KeepObjType, KeepWorkerType, KeepWorkerOK DEF PacerRelease, TypeOK
<1>2. SlotType'
  <2>1. slotB' \in [Slots -> Bursts \cup {None}] /\ slotAddr' \in [Slots -> Clients \cup {None}]
    BY <1>a, <1>b DEF TypeOK, SlotType
  <2>2. msn' \in [Slots -> 0..(MsnMod - 1)] /\ nackCount' \in [Slots -> 0..Threshold]
    <3>1. 0 \in 0..(MsnMod - 1) /\ 0 \in 0..Threshold
      OBVIOUS
    <3>2. QED BY <1>a, <1>b, <3>1 DEF TypeOK, SlotType
  <2>3. adapted' \in [Slots -> BOOLEAN]
    <3>1. adapted \in [Slots -> BOOLEAN]
      BY DEF TypeOK, SlotType
    <3>2. QED BY ONLY <1>a, <1>b, <3>1, FlagClear
  <2>4. index' \in [Clients -> Slots \cup {None}]
    <3>1. index \in [Clients -> Slots \cup {None}]
      BY DEF TypeOK, SlotType
    <3>2. index' = index \/ index' = [index EXCEPT ![slotAddr[pos]] = None]
      BY <1>b
    <3>3. QED BY ONLY <3>1, <3>2
  <2>5. freeList' \in [Stripes -> Seq(Slots)]
    BY <1>a, <1>b, <1>c DEF TypeOK, SlotType
  <2>6. QED BY <1>b, <2>1, <2>2, <2>3, <2>4, <2>5 DEF TypeOK, SlotType
<1>3. PacerType'
  BY <1>b, <1>c DEF PacerRelease, TypeOK, PacerType
<1>4. PacerOK'
  BY <1>a, <1>b, <1>c DEF PacerOK
<1>5. SlotOK'
  BY <1>a, <1>b, <1>c DEF TypeOK, SlotType, SlotOK
<1>6. FreedOK'
  BY <1>a, <1>b, <1>c DEF FreedOK
<1>7. OwnerOK'
  <2>1. CASE clr
    <3>1. \A j \in Slots : slotB'[j] = IF j = pos THEN None ELSE slotB[j]
      BY <2>1, <1>a, <1>b DEF TypeOK, SlotType
    <3>2. NewDistinct' /\ OldDistinct'
      BY <1>b DEF OwnerOK, NewDistinct, OldDistinct
    <3>3. SlotDistinct' /\ OldApart'
      BY <3>1, <1>b DEF OwnerOK, SlotDistinct, OldApart
    <3>4. SnapDistinct'
      BY <3>1, <1>b DEF OwnerOK, SnapDistinct
    <3>5. NewApart'
      BY <3>1, <1>b DEF OwnerOK, NewApart, WorkerOK
    <3>6. ClearedApart'
      <4>1. \A j \in Slots : slotB'[j] # snap[pos]
        BY <2>1, <3>1, <1>a, <1>c DEF OwnerOK, SlotDistinct
      <4>2. \A v \in Workers : wOld[v] # snap[pos]
        BY <2>1, <1>a, <1>c DEF OwnerOK, OldApart
      <4>3. QED BY <4>1, <4>2, <1>b DEF ClearedApart
    <3>7. QED BY <3>2, <3>3, <3>4, <3>5, <3>6 DEF OwnerOK
  <2>2. CASE ~clr
    <3>1. slotB' = slotB
      BY <2>2, <1>b DEF TypeOK, SlotType
    <3>2. QED BY <2>2, <3>1, <1>a, <1>b DEF OwnerOK, NewDistinct, OldDistinct, SlotDistinct,
        SnapDistinct, NewApart, OldApart, ClearedApart
  <2>3. QED BY <2>1, <2>2
<1>8. RefsExact'
  <2>1. \A x \in Bursts : OwnedBySlot(x)' <=> OwnedBySlot(x) /\ ~(clr /\ x = snap[pos])
    BY <1>a, <1>b, <1>c DEF OwnedBySlot, OwnerOK, NewDistinct, OldDistinct, SlotDistinct,
        SnapDistinct, NewApart, OldApart, ClearedApart, TypeOK, SlotType
  <2>2. \A x \in Bursts : OwnedByPacer(x)' <=> clr /\ x = snap[pos]
    BY <1>a, <1>b, <1>c DEF OwnedByPacer
  <2>3. \A x \in Bursts : ~OwnedByPacer(x)
    BY <1>b DEF OwnedByPacer
  <2>4. \A x \in Bursts : /\ OwnedByNew(x)' <=> OwnedByNew(x)
                          /\ OwnedByOld(x)' <=> OwnedByOld(x)
                          /\ Snapped(x)' <=> Snapped(x)
    BY <1>b DEF OwnedByNew, OwnedByOld, Snapped
  <2>5. clr => OwnedBySlot(snap[pos])
    BY <1>a, <1>c DEF OwnedBySlot
  <2>6. \A x \in Bursts : Owned(x)' <=> Owned(x)
    BY <2>1, <2>2, <2>3, <2>4, <2>5 DEF Owned
  <2>7. QED BY <1>b, <2>4, <2>6 DEF RefsExact
<1>9. IndexExact'
  <2>1. CASE ~clr
    <3>1. slotB' = slotB /\ slotAddr' = slotAddr /\ index' = index
      BY <2>1, <1>b DEF TypeOK, SlotType
    <3>2. QED BY <3>1, KeepIndexExact
  <2>2. CASE clr
    <3> DEFINE d == slotAddr[pos]
    <3>1. d \in Clients /\ index[d] = pos
      BY <2>2, <1>a, <1>c DEF IndexExact
    <3>2. \A e \in Clients : index'[e] = IF e = d THEN None ELSE index[e]
      BY <2>2, <1>b DEF TypeOK, SlotType
    <3>3. \A j \in Slots : /\ slotB'[j] = IF j = pos THEN None ELSE slotB[j]
                           /\ j # pos => slotAddr'[j] = slotAddr[j]
      BY <2>2, <1>a, <1>b DEF TypeOK, SlotType
    <3>4. \A e \in Clients, j \in Slots :
            index[e] = j <=> slotB[j] # None /\ slotAddr[j] = e
      BY DEF IndexExact
    <3>5. SUFFICES ASSUME NEW e \in Clients, NEW j \in Slots
                   PROVE  index'[e] = j <=> slotB'[j] # None /\ slotAddr'[j] = e
      BY DEF IndexExact
    <3>6. QED BY <1>a, <3>1, <3>2, <3>3, <3>4
  <2>3. QED BY <2>1, <2>2
<1>10. FreeListExact'
  <2>1. CASE ~clr
    <3>1. slotB' = slotB /\ freeList' = freeList /\ freed' = freed
      BY <2>1, <1>b DEF TypeOK, SlotType
    <3>2. QED BY <3>1, KeepFreeListExact
  <2>2. CASE clr
    <3> DEFINE st == SlotStripe[pos]
               fl == freeList[st]
               fm == Append(fl, pos)
    <3>1. st \in Stripes /\ fl \in Seq(Slots)
      BY <1>a DEF TypeOK, SlotType
    <3>2. /\ Len(fl) \in Nat /\ Len(fm) = Len(fl) + 1 /\ fm[Len(fl) + 1] = pos
          /\ \A k \in 1..Len(fl) : fm[k] = fl[k]
      BY <3>1, <1>a
    <3>3. ~freed /\ slotB[pos] # None
      BY <2>2, <1>a, <1>b, <1>c DEF FreedOK
    <3>4. /\ \A j, k \in 1..Len(fl) : fl[j] = fl[k] => j = k
          /\ \A s \in Slots : (\E j \in 1..Len(fl) : fl[j] = s) <=> (SlotStripe[s] = st /\ slotB[s] = None)
      BY <3>1, <3>3 DEF FreeListExact
    <3>5. freeList'[st] = fm /\ \A t \in Stripes \ {st} : freeList'[t] = freeList[t]
      BY <2>2, <3>1, <1>b DEF TypeOK, SlotType
    <3>6. \A s \in Slots : slotB'[s] = IF s = pos THEN None ELSE slotB[s]
      BY <2>2, <1>b DEF TypeOK, SlotType
    <3> HIDE DEF fl, fm
    <3>7. \A j, k \in 1..Len(fm) : fm[j] = fm[k] => j = k
      BY <3>2, <3>3, <3>4, <1>a
    <3>8. \A s \in Slots : (\E j \in 1..Len(fm) : fm[j] = s) <=> (SlotStripe[s] = st /\ slotB'[s] = None)
      <4>1. ASSUME NEW s \in Slots, NEW j \in 1..Len(fm), fm[j] = s
            PROVE  SlotStripe[s] = st /\ slotB'[s] = None
        BY <4>1, <3>2, <3>4, <3>6
      <4>2. ASSUME NEW s \in Slots, SlotStripe[s] = st, slotB'[s] = None
            PROVE  \E j \in 1..Len(fm) : fm[j] = s
        <5>1. CASE s = pos
          BY <5>1, <3>2
        <5>2. CASE s # pos
          <6>1. PICK j \in 1..Len(fl) : fl[j] = s
            BY <5>2, <4>2, <3>4, <3>6
          <6>2. QED BY <6>1, <3>2
        <5>3. QED BY <5>1, <5>2
      <4>3. QED BY <4>1, <4>2
    <3>9. ASSUME NEW t \in Stripes \ {st}
          PROVE  \A s \in Slots : (SlotStripe[s] = t /\ slotB'[s] = None) <=> (SlotStripe[s] = t /\ slotB[s] = None)
      BY <3>6
    <3>10. ASSUME NEW t \in Stripes
           PROVE  /\ \A j, k \in 1..Len(freeList'[t]) : freeList'[t][j] = freeList'[t][k] => j = k
                  /\ \A s \in Slots : (\E j \in 1..Len(freeList'[t]) : freeList'[t][j] = s)
                                        <=> (SlotStripe[s] = t /\ slotB'[s] = None)
      <4>1. CASE t = st
        BY <4>1, <3>5, <3>7, <3>8
      <4>2. CASE t # st
        <5>1. freeList'[t] = freeList[t]
          BY <4>2, <3>5
        <5>2. QED BY <4>2, <5>1, <3>3, <3>9 DEF FreeListExact
      <4>3. QED BY <4>1, <4>2
    <3>11. QED BY <3>10 DEF FreeListExact
  <2>3. QED BY <1>c, <2>1, <2>2
<1>11. SlotReachable'
  BY <1>a, <1>b, <1>c DEF TypeOK, SlotType, SlotReachable
<1>12. stop' \in BOOLEAN /\ freed' \in BOOLEAN /\ sent' \in [to : Clients, code : Codes] \cup {None}
  BY DEF PacerRelease, Silent, TypeOK
<1>13. QED BY <1>1, <1>2, <1>3, <1>4, <1>5, <1>6, <1>7, <1>8, <1>9, <1>10, <1>11,
    <1>12 DEF TypeOK

\* RAMS-I is sent from the snapshot, no reference moves.
LEMMA StepPacerNotify ==
  ASSUME IInv, PacerNotify PROVE IInv'
<1> USE NoneFacts, CapAssumption, NumberAssumption, StripeAssumption DEF IInv
<1>a. /\ pos \in Slots /\ snap[pos] \in Bursts /\ snapAddr[pos] \in Clients
      /\ refs[snap[pos]] >= 1 /\ Snapped(snap[pos])
  BY PacerFacts DEF PacerNotify
<1>1. ObjType' /\ SlotType' /\ WorkerType' /\ WorkerOK' /\ SlotOK' /\ IndexExact' /\
      FreeListExact' /\ SlotReachable'
  BY KeepObjType, KeepSlotType, KeepWorkerType, KeepWorkerOK, KeepSlotOK, KeepIndexExact,
      KeepFreeListExact, KeepSlotReachable DEF PacerNotify, TypeOK
<1>2. PacerType'
  BY <1>a DEF TypeOK, PacerType, PacerOK, Slots, PacerNotify, Say, Silent
<1>3. PacerOK'
  BY <1>a DEF Slots, TypeOK, SlotType, WorkerType, PacerType, PacerOK, PacerNotify, Say, Silent
<1>4. FreedOK'
  BY <1>a DEF TypeOK, SlotType, WorkerType, PacerType, FreedOK, PacerNotify, Say, Silent
<1>5. OwnerOK'
  BY DEF PacerNotify, PacerOK, OwnerOK, NewDistinct, OldDistinct, SlotDistinct, SnapDistinct,
      NewApart, OldApart, ClearedApart
<1>6. RefsExact'
  BY SameOwners DEF PacerNotify, TypeOK, PacerType, PacerOK
<1>7. stop' \in BOOLEAN /\ freed' \in BOOLEAN /\ sent' \in [to : Clients, code : Codes] \cup {None}
  BY <1>a DEF TypeOK, PacerNotify, Say, Silent
<1>8. QED BY <1>1, <1>2, <1>3, <1>4, <1>5, <1>6, <1>7 DEF TypeOK

\* burst_release of the cleared slot's reference: the snapshot's one remains.
LEMMA StepPacerDropSlot ==
  ASSUME IInv, PacerDropSlot PROVE IInv'
<1> USE NoneFacts, CapAssumption, NumberAssumption, StripeAssumption DEF IInv
<1>a. /\ pos \in Slots /\ snap[pos] \in Bursts /\ snapAddr[pos] \in Clients
      /\ refs[snap[pos]] >= 1 /\ Snapped(snap[pos])
  BY PacerFacts DEF PacerDropSlot
<1>1. SlotType' /\ WorkerType' /\ WorkerOK' /\ SlotOK' /\ IndexExact' /\ FreeListExact' /\
      SlotReachable'
  BY KeepSlotType, KeepWorkerType, KeepWorkerOK, KeepSlotOK, KeepIndexExact, KeepFreeListExact,
      KeepSlotReachable DEF PacerDropSlot, TypeOK
<1>2. ObjType'
  BY <1>a, ReleaseType DEF PacerDropSlot, TypeOK
<1>3. PacerType'
  BY <1>a DEF TypeOK, PacerType, PacerOK, Slots, PacerDropSlot, ReleaseRef, Wipe, Silent
<1>4. PacerOK'
  BY <1>a DEF Slots, TypeOK, SlotType, WorkerType, PacerType, PacerOK, PacerDropSlot,
      ReleaseRef, Wipe, Silent
<1>5. FreedOK'
  BY <1>a DEF TypeOK, SlotType, WorkerType, PacerType, FreedOK, PacerDropSlot, ReleaseRef,
      Wipe, Silent
<1>6. OwnerOK'
  BY QuietOwnerOK DEF PacerDropSlot
<1>7. RefsExact'
  <2>1. OwnedByPacer(snap[pos]) /\ \A x \in Bursts : ~OwnedByPacer(x)'
    BY <1>a DEF PacerDropSlot, OwnedByPacer, PacerOK
  <2>2. \A x \in Bursts : OwnedByPacer(x) => x = snap[pos]
    BY DEF OwnedByPacer
  <2>3. \A x \in Bursts : /\ OwnedByNew(x)' <=> OwnedByNew(x)
                          /\ OwnedBySlot(x)' <=> OwnedBySlot(x)
                          /\ OwnedByOld(x)' <=> OwnedByOld(x)
                          /\ Snapped(x)' <=> Snapped(x)
    BY DEF PacerDropSlot, OwnedByNew, OwnedBySlot, OwnedByOld, Snapped
  <2>4. ~OwnedByNew(snap[pos]) /\ ~OwnedBySlot(snap[pos]) /\ ~OwnedByOld(snap[pos])
    BY <1>a DEF PacerDropSlot, PacerOK, OwnerOK, NewDistinct, OldDistinct, SlotDistinct,
        SnapDistinct, NewApart, OldApart, ClearedApart, OwnedByNew, OwnedBySlot, OwnedByOld
  <2>5. QED BY <1>a, <2>1, <2>2, <2>3, <2>4, ReleaseRefs DEF PacerDropSlot, Owned, TypeOK
<1>8. stop' \in BOOLEAN /\ freed' \in BOOLEAN /\ sent' \in [to : Clients, code : Codes] \cup {None}
  BY <1>a DEF TypeOK, PacerDropSlot, ReleaseRef, Wipe, Silent
<1>9. QED BY <1>1, <1>2, <1>3, <1>4, <1>5, <1>6, <1>7, <1>8 DEF TypeOK

\* burst_release of the snapshot.
LEMMA StepPacerDropSnap ==
  ASSUME IInv, PacerDropSnap PROVE IInv'
<1> USE NoneFacts, CapAssumption, NumberAssumption, StripeAssumption DEF IInv
<1>a. /\ pos \in Slots /\ snap[pos] \in Bursts /\ snapAddr[pos] \in Clients
      /\ refs[snap[pos]] >= 1 /\ Snapped(snap[pos])
  BY PacerFacts DEF PacerDropSnap
<1>1. SlotType' /\ WorkerType' /\ WorkerOK' /\ SlotOK' /\ IndexExact' /\ FreeListExact' /\
      SlotReachable'
  BY KeepSlotType, KeepWorkerType, KeepWorkerOK, KeepSlotOK, KeepIndexExact, KeepFreeListExact,
      KeepSlotReachable DEF PacerDropSnap, TypeOK
<1>2. ObjType'
  BY <1>a, ReleaseType DEF PacerDropSnap, TypeOK
<1>3. PacerType'
  <2>1. pos + 1 \in 0..Cap
    BY <1>a DEF PacerDropSnap, TypeOK, PacerType, Slots
  <2>2. /\ snap' \in [Slots -> Bursts \cup {None}]
        /\ snapAddr' \in [Slots -> Clients \cup {None}]
    BY <1>a DEF PacerDropSnap, TypeOK, PacerType
  <2>3. QED BY <2>1, <2>2 DEF PacerDropSnap, TypeOK, PacerType
<1>4. PacerOK'
  BY <1>a DEF Slots, TypeOK, SlotType, WorkerType, PacerType, PacerOK, PacerDropSnap,
      ReleaseRef, Wipe, Silent
<1>5. FreedOK'
  BY <1>a DEF TypeOK, SlotType, WorkerType, PacerType, FreedOK, PacerDropSnap, ReleaseRef,
      Wipe, Silent
<1>6. OwnerOK'
  BY <1>a DEF PacerDropSnap, TypeOK, PacerType, OwnerOK, NewDistinct, OldDistinct,
      SlotDistinct, SnapDistinct, NewApart, OldApart, ClearedApart, WorkerOK
<1>7. RefsExact'
  <2>1. \A x \in Bursts : Snapped(x)' <=> Snapped(x) /\ x # snap[pos]
    BY <1>a DEF PacerDropSnap, Snapped, OwnerOK, NewDistinct, OldDistinct, SlotDistinct,
        SnapDistinct, NewApart, OldApart, ClearedApart, TypeOK, PacerType
  <2>2. \A x \in Bursts : ~OwnedByPacer(x) /\ ~OwnedByPacer(x)'
    BY DEF PacerDropSnap, OwnedByPacer
  <2>3. \A x \in Bursts : /\ OwnedByNew(x)' <=> OwnedByNew(x)
                          /\ OwnedBySlot(x)' <=> OwnedBySlot(x)
                          /\ OwnedByOld(x)' <=> OwnedByOld(x)
    BY DEF PacerDropSnap, OwnedByNew, OwnedBySlot, OwnedByOld
  <2>4. QED BY <1>a, <2>1, <2>2, <2>3, ReleaseRefs DEF PacerDropSnap, Owned, TypeOK
<1>8. stop' \in BOOLEAN /\ freed' \in BOOLEAN /\ sent' \in [to : Clients, code : Codes] \cup {None}
  BY <1>a DEF TypeOK, PacerDropSnap, ReleaseRef, Wipe, Silent
<1>9. QED BY <1>1, <1>2, <1>3, <1>4, <1>5, <1>6, <1>7, <1>8 DEF TypeOK

\* The stop flag only.
LEMMA StepStop ==
  ASSUME IInv, Stop PROVE IInv'
<1> USE NoneFacts, CapAssumption, NumberAssumption, StripeAssumption DEF IInv
<1>1. ObjType' /\ SlotType' /\ WorkerType' /\ PacerType' /\ WorkerOK' /\ PacerOK' /\ SlotOK' /\
      FreedOK' /\ OwnerOK' /\ RefsExact' /\ IndexExact' /\ FreeListExact' /\ SlotReachable'
  BY KeepObjType, KeepSlotType, KeepWorkerType, KeepPacerType, KeepWorkerOK, KeepPacerOK,
      KeepSlotOK, KeepFreedOK, KeepOwnerOK, KeepRefsExact, KeepIndexExact, KeepFreeListExact,
      KeepSlotReachable DEF Stop, TypeOK
<1>2. stop' \in BOOLEAN /\ freed' \in BOOLEAN /\ sent' \in [to : Clients, code : Codes] \cup {None}
  BY DEF TypeOK, Stop, Silent
<1>3. QED BY <1>1, <1>2 DEF TypeOK

\* burst_table_free: with all threads gone, the slots hold the only references.
LEMMA StepTableFree ==
  ASSUME IInv, TableFree PROVE IInv'
<1> USE NoneFacts, CapAssumption, NumberAssumption, StripeAssumption DEF IInv
<1>a. \A b \in Bursts : ~OwnedByNew(b) /\ ~OwnedByOld(b) /\ ~OwnedByPacer(b) /\ ~Snapped(b)
  BY DEF TableFree, WorkerOK, PacerOK, OwnedByNew, OwnedByOld, OwnedByPacer, Snapped
<1>b. \A b \in Bursts : refs[b] = IF b \in HeldBySlots THEN 1 ELSE 0
  BY <1>a DEF RefsExact, Owned, OwnedBySlot, HeldBySlots
<1>c. \A b \in Bursts : refs'[b] = 0
  BY <1>b DEF TableFree
<1>1. WorkerType' /\ PacerType' /\ WorkerOK' /\ PacerOK'
  BY KeepWorkerType, KeepPacerType, KeepWorkerOK, KeepPacerOK DEF TableFree, TypeOK
<1>2. ObjType'
  <2>1. refs' \in [Bursts -> Nat]
    BY <1>b DEF TableFree
  <2>2. QED BY <2>1, WipeType DEF TableFree, TypeOK
<1>3. SlotType'
  BY DEF TableFree, TypeOK, SlotType, SlotType
<1>4. SlotOK'
  BY DEF TableFree, TypeOK, SlotType, SlotOK
<1>5. FreedOK'
  BY DEF TableFree, TypeOK, SlotType, FreedOK
<1>6. OwnerOK'
  <2>1. NewDistinct' /\ OldDistinct' /\ SlotDistinct'
    BY DEF TableFree, OwnerOK, NewDistinct, OldDistinct, SlotDistinct
  <2>2. SnapDistinct'
    BY DEF TableFree, OwnerOK, SnapDistinct
  <2>3. NewApart' /\ OldApart' /\ ClearedApart'
    BY DEF TableFree, NewApart, OldApart, ClearedApart
  <2>4. QED BY <2>1, <2>2, <2>3 DEF OwnerOK
<1>7. RefsExact'
  <2>1. \A b \in Bursts : ~live'[b]
    BY <1>b DEF TableFree, Wipe, RefsExact
  <2>2. \A b \in Bursts : ~Owned(b)' /\ ~Snapped(b)'
    BY <1>a DEF TableFree, Owned, OwnedByNew, OwnedBySlot, OwnedByOld, OwnedByPacer, Snapped
  <2>3. QED BY <1>c, <2>1, <2>2 DEF RefsExact
<1>8. IndexExact'
  BY DEF TableFree, TypeOK, SlotType, IndexExact
<1>9. FreeListExact'
  BY DEF TableFree, TypeOK, SlotType, FreeListExact
<1>10. SlotReachable'
  BY DEF TableFree, TypeOK, SlotType, SlotReachable
<1>11. stop' \in BOOLEAN /\ freed' \in BOOLEAN /\ sent' \in [to : Clients, code : Codes] \cup {None}
  BY DEF TableFree, Silent, TypeOK
<1>12. QED BY <1>1, <1>2, <1>3, <1>4, <1>5, <1>6, <1>7, <1>8, <1>9, <1>10, <1>11 DEF TypeOK

\* Every step of every thread preserves the invariant.
LEMMA StepIInv == IInv /\ [Next]_vars => IInv'
<1> SUFFICES ASSUME IInv, [Next]_vars PROVE IInv'
  OBVIOUS
<1>1. CASE UNCHANGED vars
  BY <1>1, KeepObjType, KeepSlotType, KeepWorkerType, KeepPacerType, KeepWorkerOK, KeepPacerOK,
      KeepSlotOK, KeepFreedOK, KeepOwnerOK, KeepRefsExact, KeepIndexExact, KeepFreeListExact,
      KeepSlotReachable DEF vars, IInv, TypeOK
<1>2. ASSUME NEW w \in Workers, Worker(w) PROVE IInv'
  BY <1>2, StepRamsRNew, StepRamsRNoMemory, StepNoteNack, StepRamsT, StepStartSwap,
      StepStartClaim, StepStartFull, StepTerminateOld, StepReleaseOld, StepReply,
      StepWorkerExit DEF Worker
<1>3. CASE Pacer
  BY <1>3, StepPacerBegin, StepPacerExit, StepPacerAcquire, StepPacerSkip, StepPacerScanned,
      StepPacerNext, StepPacerCycleEnd, StepTickEnter, StepTickSend, StepPacerRelease,
      StepPacerNotify, StepPacerDropSlot, StepPacerDropSnap DEF Pacer
<1>4. QED BY <1>1, <1>2, <1>3, StepStop, StepTableFree DEF Next

\* The table, its workers and its pacer keep their types in every reachable state.
THEOREM TypeCorrect == Spec => []TypeOK
<1>1. IInv => TypeOK
  BY DEF IInv
<1>2. QED BY <1>1, InitIInv, StepIInv, PTL DEF Spec

\* Reference counting in fcc/burst.c and fcc/burst_table.c is exact: a burst that
\* a slot, a swapping worker or the pacer can reach is never freed, and one that
\* nobody can reach is.
THEOREM RefsCorrect == Spec => []RefsExact
<1>1. IInv => RefsExact
  BY DEF IInv
<1>2. QED BY <1>1, InitIInv, StepIInv, PTL DEF Spec

\* The index find_valid consults and the slots agree in both directions.
THEOREM IndexCorrect == Spec => []IndexExact
<1>1. IInv => IndexExact
  BY DEF IInv
<1>2. QED BY <1>1, InitIInv, StepIInv, PTL DEF Spec

\* claim_locked and burst_table_release neither lose a slot nor hand one out twice.
THEOREM FreeListCorrect == Spec => []FreeListExact
<1>1. IInv => FreeListExact
  BY DEF IInv
<1>2. QED BY <1>1, InitIInv, StepIInv, PTL DEF Spec

\* Every session is under its client's stripe lock and below the pacer's scan mark.
THEOREM SlotsCorrect == Spec => []SlotReachable
<1>1. IInv => SlotReachable
  BY DEF IInv
<1>2. QED BY <1>1, InitIInv, StepIInv, PTL DEF Spec

\* After fccret_serve's cleanup every burst object has been freed.
THEOREM NoLeakCorrect == Spec => []NoLeakAtExit
<1>1. IInv => NoLeakAtExit
  <2> SUFFICES ASSUME IInv, freed, NEW b \in Bursts PROVE ~live[b]
    BY DEF NoLeakAtExit
  <2>1. b # None
    BY NoneFacts
  <2>2. ~Snapped(b)
    BY <2>1 DEF IInv, FreedOK, PacerOK, Snapped
  <2>3. ~OwnedByNew(b) /\ ~OwnedByOld(b) /\ ~OwnedBySlot(b) /\ ~OwnedByPacer(b)
    BY <2>1 DEF IInv, FreedOK, WorkerOK, OwnedByNew, OwnedByOld, OwnedBySlot, OwnedByPacer
  <2>4. QED BY <2>2, <2>3 DEF IInv, RefsExact, Owned
<1>2. QED BY <1>1, InitIInv, StepIInv, PTL DEF Spec

(***************************************************************************)
(* Rate cuts and the reasons for which the pacer clears a slot: a second    *)
(* invariant, inductive relative to IInv.                                   *)
(***************************************************************************)

\* adapted travels with the slot and cuts with the burst: a burst that is about
\* to enter a slot, or sits in one that is not marked, was never cut.
CutInv ==
  /\ \A b \in Bursts : cuts[b] <= 1
  /\ \A w \in Workers : wpc[w] = "start" => cuts[wNew[w]] = 0
  /\ \A i \in Slots : slotB[i] # None /\ ~adapted[i] => cuts[slotB[i]] = 0

\* The result burst_tick returned still describes the burst of the snapshot
\* when burst_table_release acts on it.
ResultInv == ppc = "release" /\ pResult = "done" => done[snap[pos]]

EndInv == CutInv /\ ResultInv

\* Steps that cut no rate and bring no burst into a slot keep CutInv.
LEMMA CutQuiet ==
  ASSUME IInv, CutInv,
         \A b \in Bursts : cuts'[b] = cuts[b] \/ cuts'[b] = 0,
         \A w \in Workers : wpc'[w] = "start" => wpc[w] = "start" /\ wNew'[w] = wNew[w],
         \A i \in Slots : slotB'[i] # None /\ ~adapted'[i]
                            => slotB'[i] = slotB[i] /\ ~adapted[i]
  PROVE  CutInv'
<1>1. \A b \in Bursts : cuts'[b] <= 1
  BY DEF CutInv
<1>2. \A w \in Workers : wpc'[w] = "start" => cuts'[wNew'[w]] = 0
  BY WorkerFacts DEF CutInv
<1>3. \A i \in Slots : slotB'[i] # None /\ ~adapted'[i] => cuts'[slotB'[i]] = 0
  BY DEF CutInv, IInv, TypeOK, SlotType
<1>4. QED BY <1>1, <1>2, <1>3 DEF CutInv

\* burst_release forgets the cuts of the object it frees and no others.
LEMMA ReleaseCuts ==
  ASSUME IInv, NEW x \in Bursts, ReleaseRef(x)
  PROVE  /\ \A b \in Bursts : cuts'[b] = cuts[b] \/ cuts'[b] = 0
         /\ \A b \in Bursts : b # x \/ refs[x] # 1 => done'[b] = done[b]
BY DEF ReleaseRef, Wipe, IInv, TypeOK, ObjType

\* burst_table_new starts with no burst cut and no result.
LEMMA EndInit == Init => EndInv
BY NoneFacts DEF Init, EndInv, CutInv, ResultInv

\* burst_table_start puts the worker's new burst into one slot, unmarked.
LEMMA PlaceFacts ==
  ASSUME IInv, NEW w \in Workers, StartSwap(w) \/ StartClaim(w)
  PROVE  /\ wpc[w] = "start" /\ wNew[w] \in Bursts
         /\ \E i \in Slots : /\ slotB' = [slotB EXCEPT ![i] = wNew[w]]
                             /\ adapted' = [adapted EXCEPT ![i] = FALSE]
         /\ \A v \in Workers : wpc'[v] = "start" => wpc[v] = "start"
         /\ UNCHANGED <<cuts, done, wNew, ppc, pResult, snap, pos>>
<1>1. CASE StartSwap(w)
  <2>1. wpc[w] = "start" /\ wNew[w] \in Bursts /\ wClient[w] \in Clients
    BY <1>1, WorkerFacts DEF StartSwap
  <2>2. FindValid(wClient[w]) \in Slots
    BY <1>1, <2>1, FindFacts DEF StartSwap
  <2>3. /\ slotB' = [slotB EXCEPT ![FindValid(wClient[w])] = wNew[w]]
        /\ adapted' = [adapted EXCEPT ![FindValid(wClient[w])] = FALSE]
        /\ wpc' = [wpc EXCEPT ![w] = "terminateOld"]
        /\ UNCHANGED <<cuts, done, wNew, ppc, pResult, snap, pos>>
    BY <1>1 DEF StartSwap
  <2>4. \A v \in Workers : wpc'[v] = "start" => wpc[v] = "start"
    BY <2>1, <2>3 DEF IInv, TypeOK, WorkerType
  <2>5. \E i \in Slots : /\ slotB' = [slotB EXCEPT ![i] = wNew[w]]
                         /\ adapted' = [adapted EXCEPT ![i] = FALSE]
    BY ONLY <2>2, <2>3
  <2>6. QED BY <2>1, <2>3, <2>4, <2>5
<1>2. CASE StartClaim(w)
  <2>1. wpc[w] = "start" /\ wNew[w] \in Bursts /\ wClient[w] \in Clients
    BY <1>2, WorkerFacts DEF StartClaim
  <2> DEFINE st == ClientStripe[wClient[w]]
             fl == freeList[st]
  <2>2. st \in Stripes /\ fl # << >>
    BY <1>2, <2>1, StripeAssumption DEF StartClaim
  <2>3. fl \in Seq(Slots)
    BY <2>2 DEF IInv, TypeOK, SlotType
  <2>4. fl[Len(fl)] \in Slots
    BY <2>2, <2>3, PopFacts
  <2>5. /\ slotB' = [slotB EXCEPT ![fl[Len(fl)]] = wNew[w]]
        /\ adapted' = [adapted EXCEPT ![fl[Len(fl)]] = FALSE]
        /\ wpc' = [wpc EXCEPT ![w] = "reply"]
        /\ UNCHANGED <<cuts, done, wNew, ppc, pResult, snap, pos>>
    BY <1>2 DEF StartClaim
  <2>6. PICK i \in Slots : i = fl[Len(fl)]
    BY <2>4
  <2>7. \A v \in Workers : wpc'[v] = "start" => wpc[v] = "start"
    BY <2>1, <2>5 DEF IInv, TypeOK, WorkerType
  <2> HIDE DEF fl
  <2>8. \E j \in Slots : /\ slotB' = [slotB EXCEPT ![j] = wNew[w]]
                         /\ adapted' = [adapted EXCEPT ![j] = FALSE]
    BY ONLY <2>5, <2>6
  <2>9. QED BY <2>1, <2>5, <2>7, <2>8
<1>3. QED BY <1>1, <1>2

\* Workers serving a RAMS-R, up to the new burst in its slot.
LEMMA EndStart ==
  ASSUME IInv, EndInv, NEW w \in Workers,
         \/ \E c \in Clients, b \in Bursts : RamsRNew(w, c, b)
         \/ StartSwap(w) \/ StartClaim(w) \/ StartFull(w)
  PROVE  EndInv'
<1> USE NoneFacts DEF EndInv
<1>1. ASSUME NEW c \in Clients, NEW b \in Bursts, RamsRNew(w, c, b) PROVE EndInv'
  <2>1. cuts' = [cuts EXCEPT ![b] = 0] /\ done' = [done EXCEPT ![b] = FALSE] /\ ~live[b]
    BY <1>1 DEF RamsRNew
  <2>2. \A x \in Bursts : cuts'[x] = cuts[x] \/ cuts'[x] = 0
    BY <2>1 DEF IInv, TypeOK, ObjType
  <2>3. \A x \in Bursts : cuts'[x] <= 1
    BY <2>2 DEF CutInv
  <2>4. ASSUME NEW v \in Workers, wpc'[v] = "start" PROVE cuts'[wNew'[v]] = 0
    <3>1. CASE v = w
      <4>1. wNew'[w] = b
        BY <1>1 DEF RamsRNew, IInv, TypeOK, WorkerType
      <4>2. QED BY <3>1, <4>1, <2>1 DEF IInv, TypeOK, ObjType
    <3>2. CASE v # w
      <4>1. wpc[v] = "start" /\ wNew'[v] = wNew[v]
        BY <1>1, <2>4, <3>2 DEF RamsRNew, IInv, TypeOK, WorkerType
      <4>2. QED BY <4>1, <2>2, WorkerFacts DEF CutInv
    <3>3. QED BY <3>1, <3>2
  <2>5. \A i \in Slots : slotB'[i] # None /\ ~adapted'[i] => cuts'[slotB'[i]] = 0
    <3>1. slotB' = slotB /\ adapted' = adapted
      BY <1>1 DEF RamsRNew
    <3>2. QED BY <3>1, <2>2 DEF CutInv, IInv, TypeOK, SlotType
  <2>6. ResultInv'
    <3>1. ppc' = ppc /\ pResult' = pResult /\ snap' = snap /\ pos' = pos
      BY <1>1 DEF RamsRNew
    <3>2. SUFFICES ASSUME ppc = "release", pResult = "done" PROVE done'[snap[pos]]
      BY <3>1 DEF ResultInv
    <3>3. snap[pos] \in Bursts /\ snap[pos] # b
      BY <3>2, <2>1, PacerFacts DEF IInv, RefsExact, TypeOK, ObjType
    <3>4. done[snap[pos]]
      BY <3>2 DEF ResultInv
    <3>5. QED BY <3>3, <3>4, <2>1 DEF IInv, TypeOK, ObjType
  <2>7. QED BY <2>3, <2>4, <2>5, <2>6 DEF CutInv
<1>2. ASSUME StartSwap(w) \/ StartClaim(w) PROVE EndInv'
  <2>0. PICK i \in Slots : /\ slotB' = [slotB EXCEPT ![i] = wNew[w]]
                           /\ adapted' = [adapted EXCEPT ![i] = FALSE]
    BY <1>2, PlaceFacts
  <2>1. /\ wpc[w] = "start" /\ wNew[w] \in Bursts
        /\ UNCHANGED <<cuts, done, wNew, ppc, pResult, snap, pos>>
    BY <1>2, PlaceFacts
  <2>2. \A v \in Workers : wpc'[v] = "start" => wpc[v] = "start"
    BY <1>2, PlaceFacts
  <2>3. \A j \in Slots : slotB'[j] # None /\ ~adapted'[j] => cuts'[slotB'[j]] = 0
    <3>0. slotB \in [Slots -> Bursts \cup {None}] /\ adapted \in [Slots -> BOOLEAN]
      BY DEF IInv, TypeOK, SlotType
    <3>1. \A j \in Slots : /\ j = i => slotB'[j] = wNew[w]
                           /\ j # i => slotB'[j] = slotB[j] /\ adapted'[j] = adapted[j]
      BY ONLY <2>0, <3>0
    <3>2. QED BY <3>1, <2>1 DEF CutInv
  <2>4. CutInv'
    BY <2>1, <2>2, <2>3 DEF CutInv
  <2>5. QED BY <2>1, <2>4 DEF ResultInv
<1>3. ASSUME StartFull(w) PROVE EndInv'
  <2>1. wpc[w] = "start" /\ wNew[w] \in Bursts
    BY <1>3, WorkerFacts DEF StartFull
  <2>2. /\ \A b \in Bursts : cuts'[b] = cuts[b] \/ cuts'[b] = 0
        /\ \A b \in Bursts : b # wNew[w] => done'[b] = done[b]
    BY <1>3 DEF StartFull, Wipe, IInv, TypeOK, ObjType
  <2>3. \A v \in Workers : wpc'[v] = "start" => wpc[v] = "start" /\ wNew'[v] = wNew[v]
    BY <1>3 DEF StartFull, IInv, TypeOK, WorkerType
  <2>4. CutInv'
    BY <1>3, <2>2, <2>3, CutQuiet DEF StartFull
  <2>5. ResultInv'
    <3>1. ppc' = ppc /\ pResult' = pResult /\ snap' = snap /\ pos' = pos
      BY <1>3 DEF StartFull
    <3>2. SUFFICES ASSUME ppc = "release", pResult = "done" PROVE done'[snap[pos]]
      BY <3>1 DEF ResultInv
    <3>3. pos \in Slots /\ snap[pos] \in Bursts /\ snap[pos] # wNew[w]
      BY <3>2, <2>1, PacerFacts DEF IInv, OwnerOK, NewApart
    <3>4. QED BY <3>2, <3>3, <2>2 DEF ResultInv
  <2>6. QED BY <2>4, <2>5
<1>4. QED BY <1>1, <1>2, <1>3

\* The worker's other steps: only a NACK cuts a rate, and only where the slot is
\* not marked yet.
LEMMA EndWorker ==
  ASSUME IInv, EndInv, NEW w \in Workers, Worker(w)
  PROVE  EndInv'
<1> USE NoneFacts DEF EndInv
<1>1. ASSUME NEW c \in Clients, NoteNack(w, c) PROVE EndInv'
  <2> DEFINE i == FindValid(c)
             b == slotB[i]
  <2>1. i \in Slots /\ b \in Bursts
    BY <1>1, FindFacts DEF NoteNack
  <2>2. /\ cuts' = [cuts EXCEPT ![b] = IF NackAdapts(i) /\ @ < 2 THEN @ + 1 ELSE @]
        /\ adapted' = [adapted EXCEPT ![i] = IF NackAdapts(i) THEN TRUE ELSE @]
        /\ done' = [done EXCEPT ![b] = IF NackTerminates(i) THEN TRUE ELSE @]
        /\ slotB' = slotB /\ wpc' = wpc /\ wNew' = wNew
        /\ ppc' = ppc /\ pResult' = pResult /\ snap' = snap /\ pos' = pos
    BY <1>1 DEF NoteNack
  <2>3. NackAdapts(i) => cuts[b] = 0
    BY <2>1 DEF NackAdapts, CutInv
  <2> HIDE DEF i, b
  <2>3a. b = slotB[i]
    BY DEF b
  <2>4. cuts \in [Bursts -> 0..2] /\ adapted \in [Slots -> BOOLEAN] /\ done \in [Bursts -> BOOLEAN]
    BY DEF IInv, TypeOK, ObjType, SlotType
  <2>5. /\ \A x \in Bursts : x # b => cuts'[x] = cuts[x]
        /\ cuts'[b] = cuts[b] \/ (NackAdapts(i) /\ cuts'[b] = 1)
    BY <2>1, <2>2, <2>3, <2>4
  <2>6. /\ \A j \in Slots : j # i => adapted'[j] = adapted[j]
        /\ NackAdapts(i) => adapted'[i]
        /\ ~NackAdapts(i) => adapted'[i] = adapted[i]
    BY <2>1, <2>2, <2>4
  <2>7. \A x \in Bursts : cuts'[x] <= 1
    BY <2>1, <2>5 DEF CutInv
  <2>8. \A v \in Workers : wpc'[v] = "start" => cuts'[wNew'[v]] = 0
    <3>1. \A v \in Workers : wpc[v] = "start" => wNew[v] \in Bursts /\ wNew[v] # b
      BY <2>1, <2>3a, WorkerFacts DEF IInv, OwnerOK, NewApart
    <3>2. QED BY <3>1, <2>2, <2>5 DEF CutInv
  <2>9. \A j \in Slots : slotB'[j] # None /\ ~adapted'[j] => cuts'[slotB'[j]] = 0
    <3>1. SUFFICES ASSUME NEW j \in Slots, slotB[j] # None, ~adapted'[j] PROVE cuts'[slotB[j]] = 0
      BY <2>2
    <3>2. slotB[j] \in Bursts
      BY <3>1 DEF IInv, TypeOK, SlotType
    <3>3. CASE j = i
      BY <3>1, <3>3, <2>3a, <2>5, <2>6 DEF CutInv
    <3>4. CASE j # i
      <4>1. slotB[j] # b
        BY <3>1, <3>4, <2>1, <2>3a DEF IInv, OwnerOK, SlotDistinct
      <4>2. QED BY <4>1, <3>1, <3>2, <3>4, <2>5, <2>6 DEF CutInv
    <3>5. QED BY <3>3, <3>4
  <2>10. ResultInv'
    <3>1. SUFFICES ASSUME ppc = "release", pResult = "done" PROVE done'[snap[pos]]
      BY <2>2 DEF ResultInv
    <3>2. snap[pos] \in Bursts /\ done[snap[pos]]
      BY <3>1, PacerFacts DEF ResultInv
    <3>3. QED BY <3>2, <2>1, <2>2, <2>4
  <2>11. QED BY <2>7, <2>8, <2>9, <2>10 DEF CutInv
<1>2. ASSUME NEW c \in Clients, RamsRNoMemory(w, c) PROVE EndInv'
  <2>1. CutInv'
    BY <1>2, CutQuiet DEF RamsRNoMemory
  <2>2. QED BY <1>2, <2>1 DEF RamsRNoMemory, ResultInv
<1>3. ASSUME NEW x \in Bursts, done' = [done EXCEPT ![x] = TRUE],
             UNCHANGED <<cuts, slotB, adapted, wNew, pacerVars>>,
             \A v \in Workers : wpc'[v] = "start" => wpc[v] = "start"
      PROVE  EndInv'
  <2>1. CutInv'
    BY <1>3, CutQuiet
  <2>2. SUFFICES ASSUME ppc = "release", pResult = "done" PROVE done'[snap[pos]]
    BY <1>3, <2>1 DEF ResultInv
  <2>3. snap[pos] \in Bursts /\ done[snap[pos]]
    BY <2>2, PacerFacts DEF ResultInv
  <2>4. QED BY <2>3, <1>3 DEF IInv, TypeOK, ObjType
<1>4. ASSUME NEW c \in Clients, RamsT(w, c) PROVE EndInv'
  BY <1>3, <1>4, FindFacts DEF RamsT
<1>5. ASSUME TerminateOld(w) PROVE EndInv'
  <2>1. wOld[w] \in Bursts
    BY <1>5, WorkerFacts DEF TerminateOld
  <2>2. \A v \in Workers : wpc'[v] = "start" => wpc[v] = "start"
    BY <1>5 DEF TerminateOld, IInv, TypeOK, WorkerType
  <2>3. QED BY <1>3, <1>5, <2>1, <2>2 DEF TerminateOld
<1>6. ASSUME ReleaseOld(w) PROVE EndInv'
  <2>1. wOld[w] \in Bursts /\ ReleaseRef(wOld[w])
    BY <1>6, WorkerFacts DEF ReleaseOld
  <2>2. \A v \in Workers : wpc'[v] = "start" => wpc[v] = "start" /\ wNew'[v] = wNew[v]
    BY <1>6 DEF ReleaseOld, IInv, TypeOK, WorkerType
  <2>3. CutInv'
    BY <1>6, <2>1, <2>2, ReleaseCuts, CutQuiet DEF ReleaseOld
  <2>4. ResultInv'
    <3>1. ppc' = ppc /\ pResult' = pResult /\ snap' = snap /\ pos' = pos
      BY <1>6 DEF ReleaseOld
    <3>2. SUFFICES ASSUME ppc = "release", pResult = "done" PROVE done'[snap[pos]]
      BY <3>1 DEF ResultInv
    <3>3. snap[pos] \in Bursts /\ Snapped(snap[pos]) /\ done[snap[pos]]
      BY <3>2, PacerFacts DEF ResultInv
    <3>4. snap[pos] = wOld[w] => refs[wOld[w]] # 1
      <4>1. Owned(wOld[w])
        BY DEF Owned, OwnedByOld
      <4>2. QED BY <2>1, <3>3, <4>1 DEF IInv, RefsExact
    <3>5. QED BY <3>3, <3>4, <2>1, ReleaseCuts
  <2>5. QED BY <2>3, <2>4
<1>7. ASSUME Reply(w) \/ WorkerExit(w) PROVE EndInv'
  <2>1. \A v \in Workers : wpc'[v] = "start" => wpc[v] = "start" /\ wNew'[v] = wNew[v]
    BY <1>7 DEF Reply, WorkerExit, IInv, TypeOK, WorkerType
  <2>2. CutInv'
    BY <1>7, <2>1, CutQuiet DEF Reply, WorkerExit
  <2>3. QED BY <1>7, <2>2 DEF Reply, WorkerExit, ResultInv
<1>8. QED BY <1>1, <1>2, <1>4, <1>5, <1>6, <1>7, EndStart DEF Worker

\* The pacer: a result of done is computed together with the burst's flag, and
\* no step of the pacer cuts a rate.
LEMMA EndPacer ==
  ASSUME IInv, EndInv, Pacer
  PROVE  EndInv'
<1> USE NoneFacts DEF EndInv
<1>0. UNCHANGED <<wpc, wNew>>
  BY DEF Pacer, PacerBegin, PacerExit, PacerAcquire, PacerSkip, PacerScanned, PacerNext,
      PacerCycleEnd, TickEnter, TickSend, PacerRelease, PacerNotify, PacerDropSlot, PacerDropSnap
<1>1. CASE PacerBegin \/ PacerExit \/ PacerAcquire \/ PacerSkip \/ PacerScanned \/ PacerNext
           \/ PacerCycleEnd \/ PacerNotify
  <2>1. UNCHANGED <<cuts, slotB, adapted>> /\ ppc' # "release"
    BY <1>1 DEF PacerBegin, PacerExit, PacerAcquire, PacerSkip, PacerScanned, PacerNext,
        PacerCycleEnd, PacerNotify
  <2>2. QED BY <1>0, <2>1, CutQuiet DEF ResultInv
<1>2. CASE TickEnter
  <2>1. UNCHANGED <<cuts, slotB, adapted>>
    BY <1>2 DEF TickEnter
  <2>2. CutInv'
    BY <1>0, <2>1, CutQuiet
  <2>3. snap[pos] \in Bursts
    BY <1>2, CapAssumption DEF TickEnter, IInv, TypeOK, PacerType, Slots
  <2>4. pResult' = "done" => TickOver(snap[pos])
    BY <1>2 DEF TickEnter
  <2>5. TickOver(snap[pos]) => done'[snap[pos]]
    <3>1. done' = [done EXCEPT ![snap[pos]] = IF TickOver(snap[pos]) THEN TRUE ELSE @]
      BY <1>2 DEF TickEnter
    <3>2. done \in [Bursts -> BOOLEAN]
      BY DEF IInv, TypeOK, ObjType
    <3>3. QED BY ONLY <2>3, <3>1, <3>2
  <2>6. pos' = pos /\ snap' = snap
    BY <1>2 DEF TickEnter
  <2>7. QED BY <2>2, <2>4, <2>5, <2>6 DEF ResultInv
<1>3. CASE TickSend
  <2>1. UNCHANGED <<cuts, slotB, adapted>>
    BY <1>3 DEF TickSend
  <2>2. CutInv'
    BY <1>0, <2>1, CutQuiet
  <2>3. snap[pos] \in Bursts
    BY <1>3, PacerFacts DEF TickSend
  <2>4. PICK ends \in BOOLEAN :
          /\ done' = [done EXCEPT ![snap[pos]] = IF ends THEN TRUE ELSE @]
          /\ pResult' = IF done[snap[pos]] \/ ends THEN "done" ELSE "continue"
    BY <1>3 DEF TickSend
  <2>5. pResult' = "done" => done[snap[pos]] \/ ends
    BY <2>4
  <2>6. done[snap[pos]] \/ ends => done'[snap[pos]]
    <3>1. done \in [Bursts -> BOOLEAN]
      BY DEF IInv, TypeOK, ObjType
    <3>2. QED BY <2>3, <2>4, <3>1
  <2>7. pos' = pos /\ snap' = snap
    BY <1>3 DEF TickSend
  <2>8. QED BY <2>2, <2>5, <2>6, <2>7 DEF ResultInv
<1>4. CASE PacerRelease
  <2>1. cuts' = cuts /\ ppc' # "release"
    BY <1>4 DEF PacerRelease
  <2>2. \A i \in Slots : slotB'[i] # None /\ ~adapted'[i] => slotB'[i] = slotB[i] /\ ~adapted[i]
    <3>1. pos \in Slots
      BY <1>4, PacerFacts DEF PacerRelease
    <3> DEFINE clr == OwnsSlot /\ ShouldClear
    <3>2. /\ slotB' = [slotB EXCEPT ![pos] = IF clr THEN None ELSE @]
          /\ adapted' = [adapted EXCEPT ![pos] = IF clr THEN FALSE ELSE @]
      BY <1>4 DEF PacerRelease
    <3>3. slotB \in [Slots -> Bursts \cup {None}] /\ adapted \in [Slots -> BOOLEAN]
      BY DEF IInv, TypeOK, SlotType
    <3> HIDE DEF clr
    <3>4. QED BY <3>1, <3>2, <3>3
  <2>3. QED BY <1>0, <2>1, <2>2, CutQuiet DEF ResultInv
<1>5. CASE PacerDropSlot \/ PacerDropSnap
  <2>1. snap[pos] \in Bursts /\ ReleaseRef(snap[pos])
    BY <1>5, PacerFacts DEF PacerDropSlot, PacerDropSnap
  <2>2. UNCHANGED <<slotB, adapted>> /\ ppc' # "release"
    BY <1>5 DEF PacerDropSlot, PacerDropSnap
  <2>3. QED BY <1>0, <2>1, <2>2, ReleaseCuts, CutQuiet DEF ResultInv
<1>6. QED BY <1>1, <1>2, <1>3, <1>4, <1>5 DEF Pacer

\* Every step keeps the second invariant.
LEMMA EndStep == IInv /\ EndInv /\ [Next]_vars => EndInv'
<1> SUFFICES ASSUME IInv, EndInv, [Next]_vars PROVE EndInv'
  OBVIOUS
<1>1. CASE UNCHANGED vars
  BY <1>1 DEF vars, EndInv, CutInv, ResultInv
<1>2. CASE Stop
  BY <1>2 DEF Stop, EndInv, CutInv, ResultInv
<1>3. CASE TableFree
  <2>1. /\ \A b \in Bursts : cuts'[b] = cuts[b] \/ cuts'[b] = 0
        /\ \A i \in Slots : slotB'[i] = None
        /\ wpc' = wpc /\ wNew' = wNew /\ ppc' = "exit"
    BY <1>3 DEF TableFree, Wipe, IInv, TypeOK, ObjType
  <2>2. QED BY <2>1, CutQuiet DEF EndInv, ResultInv
<1>4. QED BY <1>1, <1>2, <1>3, EndWorker, EndPacer DEF Next

\* NACKs halve the rate of one burst at most once, whatever swaps, clears and
\* reuses of the slot and of the heap address happen in between.
THEOREM RateCutCorrect == Spec => []RateCutOnce
<1>1. EndInv => RateCutOnce
  BY DEF EndInv, CutInv, RateCutOnce
<1>2. QED BY <1>1, InitIInv, StepIInv, EndInit, EndStep, PTL DEF Spec

\* Outside the final free a slot is only emptied by burst_table_release, and
\* only when its own burst is done or met congestion in this very tick.
LEMMA ClearStep ==
  IInv /\ EndInv /\ [Next]_vars =>
    [\A i \in Slots : slotB[i] # None /\ slotB'[i] = None /\ ~freed'
        => done[slotB[i]] \/ (pCongestion /\ pos = i /\ snap[i] = slotB[i])]_vars
<1> SUFFICES ASSUME IInv, EndInv, Next, NEW i \in Slots,
                    slotB[i] # None, slotB'[i] = None, ~freed'
             PROVE  done[slotB[i]] \/ (pCongestion /\ pos = i /\ snap[i] = slotB[i])
  OBVIOUS
<1> USE NoneFacts
<1>1. CASE PacerRelease
  <2>1. pos \in Slots /\ ppc = "release"
    BY <1>1, PacerFacts DEF PacerRelease
  <2>2. slotB' = [slotB EXCEPT ![pos] = IF OwnsSlot /\ ShouldClear THEN None ELSE @]
    BY <1>1 DEF PacerRelease
  <2>3. i = pos /\ OwnsSlot /\ ShouldClear
    BY <2>1, <2>2 DEF IInv, TypeOK, SlotType
  <2>4. QED BY <2>1, <2>3 DEF OwnsSlot, ShouldClear, EndInv, ResultInv
<1>2. ASSUME NEW w \in Workers, Worker(w) PROVE FALSE
  <2>1. CASE StartSwap(w) \/ StartClaim(w)
    <3>1. wNew[w] \in Bursts
      BY <2>1, PlaceFacts
    <3>2. PICK j \in Slots : slotB' = [slotB EXCEPT ![j] = wNew[w]]
      BY <2>1, PlaceFacts
    <3>2a. slotB'[i] = slotB[i] \/ slotB'[i] = wNew[w]
      BY <3>2 DEF IInv, TypeOK, SlotType
    <3>3. QED BY <3>1, <3>2a
  <2>2. CASE slotB' = slotB
    BY <2>2
  <2>3. CASE \E c \in Clients : (\E b \in Bursts : RamsRNew(w, c, b)) \/ RamsRNoMemory(w, c)
                                \/ NoteNack(w, c) \/ RamsT(w, c)
    BY <2>2, <2>3 DEF RamsRNew, RamsRNoMemory, NoteNack, RamsT
  <2>4. CASE StartFull(w) \/ TerminateOld(w) \/ ReleaseOld(w) \/ Reply(w) \/ WorkerExit(w)
    BY <2>2, <2>4 DEF StartFull, TerminateOld, ReleaseOld, Reply, WorkerExit
  <2>5. QED BY <1>2, <2>1, <2>3, <2>4 DEF Worker
<1>3. CASE slotB' = slotB
  BY <1>3
<1>4. CASE TableFree
  BY <1>4 DEF TableFree
<1>5. QED BY <1>1, <1>2, <1>3, <1>4 DEF Next, Stop, Pacer, PacerBegin, PacerExit, PacerAcquire,
      PacerSkip, PacerScanned, PacerNext, PacerCycleEnd, TickEnter, TickSend, PacerNotify,
      PacerDropSlot, PacerDropSnap

\* The pacer never ends a session with the result of another burst: what
\* burst_tick found of the snapshot is acted on only while the slot still holds
\* that burst.
THEOREM ClearCorrect == Spec => ClearOnlyFinished
<1>1. IInv /\ EndInv /\ [Next]_vars =>
        [\A i \in Slots : slotB[i] # None /\ slotB'[i] = None /\ ~freed'
            => done[slotB[i]] \/ (pCongestion /\ pos = i /\ snap[i] = slotB[i])]_vars
  BY ClearStep
<1>2. QED BY <1>1, InitIInv, StepIInv, EndInit, EndStep, PTL DEF Spec, ClearOnlyFinished

=============================================================================
