------------------------- MODULE CaptureLifeProofs -------------------------
(***************************************************************************)
(* Proofs about CaptureLife, for any number of requests, builders,         *)
(* lifecycle threads, pumps, jobs, sources, contexts and snapshots and any *)
(* number of failed allocations.                                           *)
(***************************************************************************)
EXTENDS CaptureLife, FiniteSetTheorems, SequenceTheorems, TLAPS

-----------------------------------------------------------------------------
(* The inductive invariant.                                                *)

Pcs == {"idle", "await", "open", "build", "link", "hold", "done", "slow", "sub", "last",
        "retire", "mark", "wait", "free", "loop", "reap", "snaps", "pin", "release"}
JobStates == {"free", "queued", "running", "finished"}
MaybeCtx == Ctxs \cup {None}
CtxRec == [key : Keys \cup {None}, refcount : Nat, dead : BOOLEAN, pump_shard : Pumps \cup {None}]
JobRec == [st : JobStates, key : Keys \cup {None}, cancelled : BOOLEAN, result : MaybeCtx]
ActRec == [pc : Pcs, ctx : MaybeCtx, key : Keys \cup {None}, job : Jobs \cup {None}, cap : Nat,
           snaps : SUBSET Snaps, mark : SUBSET Pumps]
WalkRec == [snap : Snaps \cup {None}, todo : SUBSET Ctxs, pinned : SUBSET Ctxs]
RetRec == [ctx : MaybeCtx, snaps : SUBSET Snaps, mark : SUBSET Pumps]

\* Every variable has its type.
Types ==
    /\ ctx \in [Ctxs -> CtxRec] /\ alloc \subseteq Ctxs /\ g_open \subseteq alloc
    /\ leak \in [Ctxs -> Nat]
    /\ SnapsLive \subseteq Snaps /\ entries \in [SnapsLive -> SUBSET Ctxs]
    /\ g_snapshot \in Snaps \cup {None} /\ g_retired \subseteq Snaps
    /\ retired \subseteq RetRec
    /\ job \in [Jobs -> JobRec] /\ queue \in Seq(Jobs)
    /\ act \in [Actors -> ActRec] /\ walk \in [Pumps -> WalkRec]
    /\ g_shard_ctr \in Pumps /\ oom \in Nat

\* Outside g_open a context is in the hands of one actor or of one entry of
\* the retired list.
Away == Leaving \cup {"link"}
InHand(a) == IF act[a].pc \in Away THEN act[a].ctx ELSE None

\* Who refers to a linked context, and that the unlinked ones have one owner.
HeldOK ==
    /\ \A a \in Actors : act[a].pc \in Holding /\ act[a].ctx # None => act[a].ctx \in g_open
    /\ \A a \in Actors : act[a].pc \in (Holding \cup Away) \ {"done", "mark"} => act[a].ctx # None
    /\ \A a \in Actors : act[a].pc \notin Holding \cup Away => act[a].ctx = None
    /\ \A j \in Jobs : job[j].result # None => job[j].result \in g_open
    /\ \A p \in Pumps : walk[p].pinned \subseteq g_open
    /\ \A c \in Ctxs \ g_open : leak[c] = 0

AwayOK ==
    /\ \A a \in Actors : InHand(a) # None => InHand(a) \in alloc \ g_open
    /\ \A r \in retired : r.ctx # None => r.ctx \in alloc \ g_open
    /\ \A a, b \in Actors : InHand(a) # None /\ InHand(a) = InHand(b) => a = b
    /\ \A a \in Actors, r \in retired : InHand(a) # None => InHand(a) # r.ctx
    /\ \A r, q \in retired : r.ctx # None /\ r.ctx = q.ctx => r = q
    /\ \A c \in alloc \ g_open : (\E a \in Actors : InHand(a) = c) \/ (\E r \in retired : r.ctx = c)

AwayCounts ==
    /\ \A a \in Actors : act[a].pc = "link" => ctx[act[a].ctx].refcount = 1
    /\ \A a \in Actors : act[a].pc \in Leaving /\ act[a].ctx # None => ctx[act[a].ctx].refcount = 0
    /\ \A r \in retired : r.ctx # None => ctx[r.ctx].refcount = 0

\* The count of a linked context.
Counts == \A c \in g_open :
    ctx[c].refcount = Cardinality(Holders(c)) + Cardinality(Pinners(c)) + leak[c]

\* The published snapshot is the list; every other one has one place.
Published ==
    /\ g_snapshot = None => g_open = {}
    /\ g_snapshot # None => g_snapshot \in SnapsLive /\ entries[g_snapshot] = g_open
SnapOwners ==
    /\ g_snapshot \notin g_retired /\ g_retired \subseteq SnapsLive
    /\ \A a \in Actors : /\ act[a].snaps \subseteq SnapsLive /\ g_snapshot \notin act[a].snaps
                         /\ act[a].snaps \cap g_retired = {}
                         /\ act[a].snaps # {} => act[a].pc \in {"mark", "free"}
    /\ \A r \in retired : /\ r.snaps \subseteq SnapsLive /\ g_snapshot \notin r.snaps
                          /\ r.snaps \cap g_retired = {}
                          /\ \A a \in Actors : act[a].snaps \cap r.snaps = {}
    /\ \A a, b \in Actors : a # b => act[a].snaps \cap act[b].snaps = {}
    /\ \A r, q \in retired : r # q => r.snaps \cap q.snaps = {}

\* What a pump walks is not freed before the pump is quiescent.
CtxKept(p, c) ==
    \/ c \in g_open
    \/ \E a \in Actors : /\ act[a].ctx = c
                         /\ act[a].pc \in {"retire", "mark"} \/ (act[a].pc = "wait" /\ p \in act[a].mark)
    \/ \E r \in retired : r.ctx = c /\ p \in r.mark
SnapKept(p, s) ==
    \/ s = g_snapshot \/ s \in g_retired
    \/ \E a \in Actors : s \in act[a].snaps /\ (act[a].pc = "mark" \/ p \in act[a].mark)
    \/ \E r \in retired : s \in r.snaps /\ p \in r.mark
WalkOK == \A p \in Pumps :
    /\ act[p].pc # "pin" => walk[p].todo = {} /\ walk[p].snap = None
    /\ walk[p].snap = None => walk[p].todo = {}
    /\ walk[p].snap # None => SnapKept(p, walk[p].snap)
    /\ \A c \in walk[p].todo : CtxKept(p, c)

\* A context is pinned and walked only by the pump it was assigned to.
ShardOK == \A p \in Pumps :
    /\ \A c \in walk[p].todo \cup walk[p].pinned : ctx[c].pump_shard = p
    /\ act[p].pc \in Holding \cup Away /\ act[p].ctx # None => ctx[act[p].ctx].pump_shard = p

\* Jobs: a queued one is queued once, a running one has one thread.
Busy == {"open", "build", "link", "done"}
JobOK ==
    /\ \A i \in 1..Len(queue) : job[queue[i]].st = "queued"
    /\ \A i, k \in 1..Len(queue) : queue[i] = queue[k] => i = k
    /\ \A t \in Life : act[t].pc \in Busy => act[t].job \in Jobs /\ job[act[t].job].st = "running"
    /\ \A t, v \in Life :
         act[t].pc \in Busy /\ act[v].pc \in Busy /\ act[t].job = act[v].job => t = v
    /\ \A u \in Users : act[u].pc = "await" => act[u].job \in Jobs
    /\ \A j \in Jobs : job[j].st # "finished" => job[j].result = None

\* At most one linked context of a source is alive.
OneAlive == \A c, d \in g_open :
    ctx[c].key = ctx[d].key /\ ~ctx[c].dead /\ ~ctx[d].dead => c = d

\* A pump has released everything before it loads a snapshot again, so it
\* never has a context both pinned and still to be pinned.
PinOK == \A p \in Pumps :
    /\ walk[p].todo \cap walk[p].pinned = {}
    /\ act[p].pc = "loop" => walk[p].pinned = {}
    /\ act[p].pc = "mark" => act[p].ctx # None

IInv == /\ Types /\ HeldOK /\ AwayOK /\ AwayCounts /\ Counts /\ Published /\ SnapOwners
        /\ WalkOK /\ ShardOK /\ JobOK /\ OneAlive

-----------------------------------------------------------------------------
(* Actors, and what a step of one of them leaves alone.                    *)

\* Every other actor stays where it is.
Moves(a) == \A b \in Actors : b # a => act'[b] = act[b]

\* The context an actor has a reference to.
Held(a) == IF act[a].pc \in Holding THEN act[a].ctx ELSE None

\* The actors are finitely many and their roles are disjoint.
LEMMA Roles ==
  /\ IsFiniteSet(Actors) /\ IsFiniteSet(Pumps)
  /\ Requests \subseteq Users /\ Builders \subseteq Users
  /\ Users \subseteq Actors /\ Life \subseteq Actors /\ Pumps \subseteq Actors
  /\ \A a \in Actors : a \in Users \/ a \in Life \/ a \in Pumps
  /\ \A a \in Actors : /\ a \in Users => a \notin Life /\ a \notin Pumps
                       /\ a \in Life => a \notin Pumps
  /\ \A a \in Actors : a \notin Jobs
  /\ None \notin Ctxs /\ None \notin Snaps /\ None \notin Jobs /\ None \notin Pumps
<1>1. IsFiniteSet(Pumps)
  BY CaptureAssumption, FS_Interval DEF Pumps
<1>2. IsFiniteSet(Users)
  BY ActorAssumption, FS_Union DEF Users
<1>3. IsFiniteSet(Users \cup Life)
  BY <1>2, ActorAssumption, FS_Union
<1>4. IsFiniteSet(Actors)
  BY <1>1, <1>3, FS_Union DEF Actors
<1>5. QED
  BY <1>1, <1>4, CaptureAssumption, ActorAssumption DEF Actors, Users

\* A function changed at one place.
LEMMA Update ==
  ASSUME NEW S, NEW T, NEW f \in [S -> T], NEW x \in S, NEW y \in T
  PROVE  /\ [f EXCEPT ![x] = y] \in [S -> T] /\ [f EXCEPT ![x] = y][x] = y
         /\ \A z \in S : z # x => [f EXCEPT ![x] = y][z] = f[z]
OBVIOUS

\* An actor with nothing in hand.
LEMMA RestFacts ==
  ASSUME NEW a \in Actors
  PROVE  /\ Rest(a) \in ActRec
         /\ Rest(a).ctx = None /\ Rest(a).job = None /\ Rest(a).key = None
         /\ Rest(a).cap = 0 /\ Rest(a).snaps = {} /\ Rest(a).mark = {}
         /\ a \in Users => Rest(a).pc = "idle"
         /\ a \in Life => Rest(a).pc = "reap"
         /\ a \in Pumps => Rest(a).pc = "release"
         /\ Rest(a).pc \in {"idle", "reap", "release"}
<1>1. /\ Rest(a).ctx = None /\ Rest(a).job = None /\ Rest(a).key = None
      /\ Rest(a).cap = 0 /\ Rest(a).snaps = {} /\ Rest(a).mark = {}
      /\ Rest(a).pc = IF a \in Users THEN "idle" ELSE IF a \in Life THEN "reap" ELSE "release"
  BY DEF Rest
<1>2. Rest(a) \in ActRec
  BY DEF Rest, ActRec, Pcs, MaybeCtx
<1>3. QED BY <1>1, <1>2, Roles

\* The end of an opening.
LEMMA OpenedFacts ==
  ASSUME act \in [Actors -> ActRec], NEW a \in Actors, a \notin Pumps, NEW c \in MaybeCtx,
         Opened(a, c)
  PROVE  /\ act' \in [Actors -> ActRec] /\ Moves(a)
         /\ act'[a].ctx = c /\ act'[a].cap = 0
         /\ act'[a].snaps \in {{}, act[a].snaps} /\ act'[a].mark \in {{}, act[a].mark}
         /\ a \in Life => act'[a].pc = "done" /\ act'[a].job = act[a].job
         /\ a \in Users => act'[a].pc \in {"idle", "hold"} /\ (act'[a].pc = "hold" <=> c # None)
<1>1. act[a] \in ActRec
  OBVIOUS
<1>2. CASE a \in Life
  <2> DEFINE n == [act[a] EXCEPT !.pc = "done", !.ctx = c, !.cap = 0]
  <2>1. act' = [act EXCEPT ![a] = n]
    BY <1>2 DEF Opened
  <2>2. n \in ActRec
    BY <1>1 DEF ActRec, Pcs
  <2>3. /\ n.pc = "done" /\ n.ctx = c /\ n.cap = 0 /\ n.job = act[a].job
        /\ n.snaps = act[a].snaps /\ n.mark = act[a].mark
    BY <1>1 DEF ActRec
  <2> HIDE DEF n
  <2>4. act'[a] = n /\ Moves(a) /\ act' \in [Actors -> ActRec]
    BY <2>1, <2>2 DEF Moves
  <2>5. QED BY <2>3, <2>4, <1>2, Roles
<1>3. CASE a \in Users
  <2>1. a \notin Life
    BY <1>3, Roles
  <2>2. CASE c = None
    <3>1. act' = [act EXCEPT ![a] = Rest(a)]
      BY <2>1, <2>2 DEF Opened
    <3>2. act'[a] = Rest(a) /\ Moves(a) /\ act' \in [Actors -> ActRec]
      BY <3>1, RestFacts DEF Moves
    <3>3. QED BY <3>2, <2>1, <2>2, <1>3, RestFacts
  <2>3. CASE c # None
    <3> DEFINE n == [Rest(a) EXCEPT !.pc = "hold", !.ctx = c]
    <3>1. act' = [act EXCEPT ![a] = n]
      BY <2>1, <2>3 DEF Opened
    <3>2. n \in ActRec
      BY RestFacts DEF ActRec, Pcs
    <3>3. /\ n.pc = "hold" /\ n.ctx = c /\ n.cap = 0 /\ n.snaps = {} /\ n.mark = {}
      BY RestFacts DEF ActRec
    <3> HIDE DEF n
    <3>4. act'[a] = n /\ Moves(a) /\ act' \in [Actors -> ActRec]
      BY <3>1, <3>2 DEF Moves
    <3>5. QED BY <3>3, <3>4, <2>1, <2>3
  <2>4. QED BY <2>2, <2>3
<1>4. QED BY <1>2, <1>3, Roles

\* An actor that comes to rest.
LEMMA ReturnFacts ==
  ASSUME act \in [Actors -> ActRec], NEW a \in Actors, Return(a)
  PROVE  act' \in [Actors -> ActRec] /\ Moves(a) /\ act'[a] = Rest(a)
BY RestFacts DEF Return, Moves

-----------------------------------------------------------------------------
(* Counting references.                                                    *)

\* The sets of holders and of pinning pumps are finite.
LEMMA FiniteRefs ==
  ASSUME NEW c
  PROVE  /\ IsFiniteSet(Holders(c)) /\ IsFiniteSet(Pinners(c))
         /\ Cardinality(Holders(c)) \in Nat /\ Cardinality(Pinners(c)) \in Nat
<1> DEFINE A == {a \in Actors : act[a].ctx = c /\ act[a].pc \in Holding}
           J == {j \in Jobs : job[j].result = c}
<1>1. IsFiniteSet(A)
  <2>1. A \subseteq Actors
    OBVIOUS
  <2> HIDE DEF A
  <2>2. QED BY <2>1, Roles, FS_Subset
<1>2. IsFiniteSet(J)
  <2>1. J \subseteq Jobs
    OBVIOUS
  <2> HIDE DEF J
  <2>2. QED BY <2>1, ActorAssumption, FS_Subset
<1>3. Holders(c) = A \cup J
  BY DEF Holders
<1> HIDE DEF A, J
<1>4. IsFiniteSet(Holders(c))
  BY <1>1, <1>2, <1>3, FS_Union
<1>5. IsFiniteSet(Pinners(c))
  <2>1. Pinners(c) \subseteq Pumps
    BY DEF Pinners
  <2>2. QED BY <2>1, Roles, FS_Subset
<1>6. QED BY <1>4, <1>5, FS_CardinalityType

\* The same of the next state.
LEMMA FiniteRefsNext ==
  ASSUME NEW c
  PROVE  /\ IsFiniteSet(Holders(c)') /\ IsFiniteSet(Pinners(c)')
         /\ Cardinality(Holders(c)') \in Nat /\ Cardinality(Pinners(c)') \in Nat
<1> DEFINE A == {a \in Actors : act'[a].ctx = c /\ act'[a].pc \in Holding}
           J == {j \in Jobs : job'[j].result = c}
<1>1. IsFiniteSet(A)
  <2>1. A \subseteq Actors
    OBVIOUS
  <2> HIDE DEF A
  <2>2. QED BY <2>1, Roles, FS_Subset
<1>2. IsFiniteSet(J)
  <2>1. J \subseteq Jobs
    OBVIOUS
  <2> HIDE DEF J
  <2>2. QED BY <2>1, ActorAssumption, FS_Subset
<1>3. Holders(c)' = A \cup J
  BY DEF Holders
<1> HIDE DEF A, J
<1>4. IsFiniteSet(Holders(c)')
  BY <1>1, <1>2, <1>3, FS_Union
<1>5. IsFiniteSet(Pinners(c)')
  <2>1. Pinners(c)' \subseteq Pumps
    BY DEF Pinners
  <2>2. QED BY <2>1, Roles, FS_Subset
<1>6. QED BY <1>4, <1>5, FS_CardinalityType

\* Who holds a context.
LEMMA HoldersAre ==
  ASSUME NEW c \in Ctxs
  PROVE  /\ \A x : x \in Holders(c) <=> \/ x \in Actors /\ Held(x) = c
                                        \/ x \in Jobs /\ job[x].result = c
         /\ \A x : x \in Holders(c)' <=> \/ x \in Actors /\ Held(x)' = c
                                         \/ x \in Jobs /\ job'[x].result = c
         /\ \A p : p \in Pinners(c) <=> p \in Pumps /\ c \in walk[p].pinned
         /\ \A p : p \in Pinners(c)' <=> p \in Pumps /\ c \in walk'[p].pinned
BY Roles DEF Holders, Held, Pinners

\* One element more.
LEMMA OneMore ==
  ASSUME NEW S, NEW T, IsFiniteSet(S), NEW x, x \notin S, \A y : y \in T <=> y \in S \/ y = x
  PROVE  Cardinality(T) = Cardinality(S) + 1
<1>1. T = S \cup {x}
  OBVIOUS
<1>2. QED BY <1>1, FS_AddElement

\* A step of actor a changes the number of holders by what a takes or gives up.
LEMMA HoldersMove ==
  ASSUME NEW a \in Actors, \A b \in Actors : b # a => Held(b)' = Held(b),
         \A j \in Jobs : job'[j].result = job[j].result, NEW c \in Ctxs
  PROVE  /\ (Held(a) = c /\ Held(a)' = c) \/ (Held(a) # c /\ Held(a)' # c)
              => Cardinality(Holders(c)') = Cardinality(Holders(c))
         /\ Held(a) # c /\ Held(a)' = c => Cardinality(Holders(c)') = Cardinality(Holders(c)) + 1
         /\ Held(a) = c /\ Held(a)' # c => Cardinality(Holders(c)) = Cardinality(Holders(c)') + 1
<1>1. ASSUME (Held(a) = c /\ Held(a)' = c) \/ (Held(a) # c /\ Held(a)' # c)
      PROVE  Cardinality(Holders(c)') = Cardinality(Holders(c))
  <2>1. \A x : x \in Holders(c)' <=> x \in Holders(c)
    BY <1>1, HoldersAre
  <2>2. Holders(c)' = Holders(c)
    BY <2>1
  <2>3. QED BY <2>2
<1>2. ASSUME Held(a) # c, Held(a)' = c
      PROVE  Cardinality(Holders(c)') = Cardinality(Holders(c)) + 1
  <2>1. a \notin Holders(c) /\ \A x : x \in Holders(c)' <=> x \in Holders(c) \/ x = a
    BY <1>2, HoldersAre, Roles
  <2>2. QED BY <2>1, FiniteRefs, OneMore
<1>3. ASSUME Held(a) = c, Held(a)' # c
      PROVE  Cardinality(Holders(c)) = Cardinality(Holders(c)') + 1
  <2>1. a \notin Holders(c)' /\ \A x : x \in Holders(c) <=> x \in Holders(c)' \/ x = a
    BY <1>3, HoldersAre, Roles
  <2>2. QED BY <2>1, FiniteRefsNext, OneMore
<1>4. QED BY <1>1, <1>2, <1>3

\* The same for the pumps that pin a context.
LEMMA PinnersMove ==
  ASSUME NEW q \in Pumps, \A p \in Pumps : p # q => walk'[p].pinned = walk[p].pinned, NEW c \in Ctxs
  PROVE  /\ (c \in walk[q].pinned <=> c \in walk'[q].pinned)
              => Cardinality(Pinners(c)') = Cardinality(Pinners(c))
         /\ c \notin walk[q].pinned /\ c \in walk'[q].pinned
              => Cardinality(Pinners(c)') = Cardinality(Pinners(c)) + 1
         /\ c \in walk[q].pinned /\ c \notin walk'[q].pinned
              => Cardinality(Pinners(c)) = Cardinality(Pinners(c)') + 1
<1>1. ASSUME c \in walk[q].pinned <=> c \in walk'[q].pinned
      PROVE  Cardinality(Pinners(c)') = Cardinality(Pinners(c))
  <2>1. Pinners(c)' = Pinners(c)
    BY <1>1 DEF Pinners
  <2>2. QED BY <2>1
<1>2. ASSUME c \notin walk[q].pinned, c \in walk'[q].pinned
      PROVE  Cardinality(Pinners(c)') = Cardinality(Pinners(c)) + 1
  <2>1. q \notin Pinners(c) /\ \A x : x \in Pinners(c)' <=> x \in Pinners(c) \/ x = q
    BY <1>2 DEF Pinners
  <2>2. QED BY <2>1, FiniteRefs, OneMore
<1>3. ASSUME c \in walk[q].pinned, c \notin walk'[q].pinned
      PROVE  Cardinality(Pinners(c)) = Cardinality(Pinners(c)') + 1
  <2>1. q \notin Pinners(c)' /\ \A x : x \in Pinners(c) <=> x \in Pinners(c)' \/ x = q
    BY <1>3 DEF Pinners
  <2>2. QED BY <2>1, FiniteRefsNext, OneMore
<1>4. QED BY <1>1, <1>2, <1>3

\* Nobody pins or releases.
LEMMA PinnersSame ==
  ASSUME \A p \in Pumps : walk'[p].pinned = walk[p].pinned, NEW c
  PROVE  Cardinality(Pinners(c)') = Cardinality(Pinners(c))
<1>1. Pinners(c)' = Pinners(c)
  BY DEF Pinners
<1>2. QED BY <1>1

\* A context passes between an actor and the result of a job.
LEMMA HoldersPass ==
  ASSUME NEW a \in Actors, \A b \in Actors : b # a => Held(b)' = Held(b),
         NEW j \in Jobs, \A k \in Jobs : k # j => job'[k].result = job[k].result,
         Held(a)' = job[j].result, job'[j].result = Held(a),
         Held(a) = None \/ job[j].result = None, NEW c \in Ctxs
  PROVE  Cardinality(Holders(c)') = Cardinality(Holders(c))
<1>0. a # j /\ a \notin Jobs /\ j \notin Actors /\ c # None
  BY Roles
<1>1. CASE Held(a) = c
  <2>1. /\ j \notin Holders(c) /\ a \in Holders(c) /\ a \notin Holders(c)'
        /\ \A x : x \in Holders(c)' <=> (x \in Holders(c) /\ x # a) \/ x = j
    BY <1>0, <1>1, HoldersAre
  <2> DEFINE S == Holders(c) \ {a}
  <2>2. IsFiniteSet(S) /\ Cardinality(S) = Cardinality(Holders(c)) - 1
    BY <2>1, FiniteRefs, FS_RemoveElement
  <2>3. j \notin S /\ \A x : x \in Holders(c)' <=> x \in S \/ x = j
    BY <2>1
  <2> HIDE DEF S
  <2>4. Cardinality(Holders(c)') = Cardinality(S) + 1
    BY <2>2, <2>3, OneMore
  <2>5. QED BY <2>2, <2>4, FiniteRefs
<1>2. CASE job[j].result = c
  <2>1. /\ j \in Holders(c) /\ a \notin Holders(c) /\ j \notin Holders(c)'
        /\ \A x : x \in Holders(c)' <=> (x \in Holders(c) /\ x # j) \/ x = a
    BY <1>0, <1>2, HoldersAre
  <2> DEFINE S == Holders(c) \ {j}
  <2>2. IsFiniteSet(S) /\ Cardinality(S) = Cardinality(Holders(c)) - 1
    BY <2>1, FiniteRefs, FS_RemoveElement
  <2>3. a \notin S /\ \A x : x \in Holders(c)' <=> x \in S \/ x = a
    BY <2>1
  <2> HIDE DEF S
  <2>4. Cardinality(Holders(c)') = Cardinality(S) + 1
    BY <2>2, <2>3, OneMore
  <2>5. QED BY <2>2, <2>4, FiniteRefs
<1>3. CASE Held(a) # c /\ job[j].result # c
  <2>1. \A x : x \in Holders(c)' <=> x \in Holders(c)
    BY <1>0, <1>3, HoldersAre
  <2>2. Holders(c)' = Holders(c)
    BY <2>1
  <2>3. QED BY <2>2
<1>4. QED BY <1>1, <1>2, <1>3

-----------------------------------------------------------------------------
(* Steps that leave a part of the invariant alone.                         *)

\* No lookup, opening or release disturbs what is on its way to be freed.
LEMMA QuietAway ==
  ASSUME Types, HeldOK, AwayOK, AwayCounts, NEW a \in Actors, Moves(a),
         \/ act[a].pc \notin Away /\ act'[a].pc \notin Away
         \/ act[a].pc = "link" /\ act'[a].pc = "link" /\ act'[a].ctx = act[a].ctx
         \/ act[a].pc \in Leaving /\ act'[a].pc \in Leaving /\ act'[a].ctx = act[a].ctx
         \/ act[a].ctx = None /\ act'[a].ctx = None /\ act'[a].pc # "link",
         alloc' = alloc, g_open' = g_open, retired' = retired,
         \A c \in alloc : c \notin g_open => ctx'[c].refcount = ctx[c].refcount
  PROVE  AwayOK' /\ AwayCounts'
<1>1. "link" \in Away /\ "link" \notin Leaving /\ \A x \in Leaving : x \in Away
  BY DEF Away, Leaving
<1>2. \A b \in Actors : InHand(b)' = InHand(b)
  BY <1>1 DEF InHand, Moves
<1>3. AwayOK'
  BY <1>2 DEF AwayOK
<1>4. \A b \in Actors : /\ act'[b].pc = "link" => act[b].pc = "link"
                        /\ act'[b].pc \in Leaving /\ act'[b].ctx # None => act[b].pc \in Leaving
                        /\ act'[b].pc \in Away => act'[b].ctx = act[b].ctx /\ InHand(b) = act[b].ctx
  BY <1>1 DEF InHand, Moves
<1>5. ASSUME NEW b \in Actors, act'[b].pc = "link" PROVE ctx'[act'[b].ctx].refcount = 1
  <2>1. act'[b].ctx = act[b].ctx /\ InHand(b) = act[b].ctx /\ act[b].pc = "link"
    BY <1>1, <1>4, <1>5
  <2>2. act[b].ctx # None
    BY <2>1, <1>1 DEF HeldOK
  <2>3. QED BY <2>1, <2>2 DEF AwayOK, AwayCounts
<1>6. ASSUME NEW b \in Actors, act'[b].pc \in Leaving, act'[b].ctx # None
      PROVE  ctx'[act'[b].ctx].refcount = 0
  <2>1. act'[b].ctx = act[b].ctx /\ InHand(b) = act[b].ctx /\ act[b].pc \in Leaving
    BY <1>1, <1>4, <1>6
  <2>2. QED BY <2>1, <1>6 DEF AwayOK, AwayCounts
<1>7. ASSUME NEW r \in retired, r.ctx # None PROVE ctx'[r.ctx].refcount = 0
  BY <1>7 DEF AwayOK, AwayCounts
<1>8. QED BY <1>3, <1>5, <1>6, <1>7 DEF AwayCounts

\* What a pump walks is kept by a step that neither retires nor walks.
LEMMA QuietWalk ==
  ASSUME Types, SnapOwners, Published, WalkOK, NEW a \in Actors, Moves(a),
         act[a].pc \notin Leaving \cup {"pin"}, act'[a].pc \notin Leaving \cup {"pin"},
         act'[a].snaps \in {{}, act[a].snaps},
         entries' = entries, g_snapshot' = g_snapshot, g_retired' = g_retired,
         retired' = retired, g_open' = g_open,
         \A p \in Pumps : walk'[p].todo = walk[p].todo /\ walk'[p].snap = walk[p].snap
  PROVE  SnapOwners' /\ Published' /\ WalkOK'
<1>1. act[a].snaps = {} /\ act'[a].snaps = {}
  BY DEF SnapOwners, Leaving
<1>2. \A b \in Actors : act'[b].snaps = act[b].snaps
  BY <1>1 DEF Moves
<1>3. SnapOwners'
  <2>1. \A b \in Actors : act'[b].snaps # {} => act'[b].pc \in {"mark", "free"}
    BY <1>1 DEF SnapOwners, Moves
  <2>2. QED BY <1>2, <2>1 DEF SnapOwners, SnapsLive
<1>4. Published'
  BY DEF Published, SnapsLive
<1>5. ASSUME NEW p \in Pumps, NEW c, CtxKept(p, c) PROVE CtxKept(p, c)'
  <2>1. \A b \in Actors : act[b].pc \in {"retire", "mark", "wait"} => act'[b] = act[b]
    BY DEF Moves, Leaving
  <2>2. QED BY <1>5, <2>1 DEF CtxKept
<1>6. ASSUME NEW p \in Pumps, NEW s, SnapKept(p, s) PROVE SnapKept(p, s)'
  <2>1. \A b \in Actors : act[b].snaps # {} => act'[b] = act[b]
    BY <1>1 DEF Moves
  <2>2. QED BY <1>6, <2>1 DEF SnapKept
<1>7. \A p \in Pumps : act'[p].pc # "pin" => act[p].pc # "pin"
  BY Roles DEF Moves
<1>8. WalkOK'
  BY <1>5, <1>6, <1>7 DEF WalkOK
<1>9. QED BY <1>3, <1>4, <1>8

\* Nobody takes, finishes or gives up a job.
LEMMA QuietJob ==
  ASSUME JobOK, NEW a \in Actors, Moves(a), job' = job, queue' = queue,
         a \in Life /\ act'[a].pc \in Busy => act[a].pc \in Busy /\ act'[a].job = act[a].job,
         act'[a].pc # "await"
  PROVE  JobOK'
<1>1. \A b \in Actors : act'[b].pc = "await" => act'[b] = act[b]
  BY DEF Moves
<1>2. \A t \in Life : act'[t].pc \in Busy => act[t].pc \in Busy /\ act'[t].job = act[t].job
  BY Roles DEF Moves
<1>3. \A u \in Users : act'[u].pc = "await" => act'[u].job \in Jobs
  BY <1>1, Roles DEF JobOK
<1>4. \A t \in Life : act'[t].pc \in Busy => act'[t].job \in Jobs /\ job[act'[t].job].st = "running"
  BY <1>2 DEF JobOK
<1>5. \A t, v \in Life :
        act'[t].pc \in Busy /\ act'[v].pc \in Busy /\ act'[t].job = act'[v].job => t = v
  BY <1>2 DEF JobOK
<1>6. QED BY <1>3, <1>4, <1>5 DEF JobOK

\* Contexts are not linked, and a dead one stays dead.
LEMMA QuietAlive ==
  ASSUME OneAlive, g_open' \subseteq g_open,
         \A c \in g_open : ctx'[c].key = ctx[c].key /\ (ctx[c].dead => ctx'[c].dead)
  PROVE  OneAlive'
BY DEF OneAlive

\* What a pump has in mind is allocated.
LEMMA WalkedAlloc ==
  ASSUME Types, HeldOK, AwayOK, WalkOK
  PROVE  /\ \A p \in Pumps : \A c \in walk[p].todo : c \in alloc
         /\ \A p \in Pumps : \A c \in walk[p].pinned : c \in alloc
         /\ \A a \in Actors : act[a].ctx # None => act[a].ctx \in alloc
<1>1. \A a \in Actors : act[a].ctx # None => act[a].ctx \in alloc
  <2>1. ASSUME NEW a \in Actors, act[a].ctx # None PROVE act[a].ctx \in alloc
    <3>1. CASE act[a].pc \in Holding
      BY <2>1, <3>1 DEF HeldOK, Types
    <3>2. CASE act[a].pc \in Away
      BY <2>1, <3>2 DEF InHand, AwayOK
    <3>3. QED BY <2>1, <3>1, <3>2 DEF HeldOK
  <2>2. QED BY <2>1
<1>2. ASSUME NEW p \in Pumps, NEW c \in walk[p].todo PROVE c \in alloc
  <2>1. c \in Ctxs /\ c # None
    BY Roles DEF Types, WalkRec
  <2>2. CtxKept(p, c)
    BY DEF WalkOK
  <2>3. QED BY <2>1, <2>2, <1>1 DEF CtxKept, AwayOK, Types
<1>3. QED BY <1>1, <1>2 DEF HeldOK, Types

\* A step of somebody else leaves the pumps' contexts with their pumps.
LEMMA QuietShard ==
  ASSUME Types, HeldOK, AwayOK, WalkOK, ShardOK, NEW a \in Actors, a \notin Pumps, Moves(a),
         \A p \in Pumps : walk'[p].todo = walk[p].todo /\ walk'[p].pinned = walk[p].pinned,
         \A c \in alloc : ctx'[c].pump_shard = ctx[c].pump_shard
  PROVE  ShardOK'
<1>1. \A p \in Pumps : act'[p] = act[p]
  BY Roles DEF Moves
<1>2. QED BY <1>1, WalkedAlloc, Roles DEF ShardOK

\* One reference more.
LEMMA RefFacts ==
  ASSUME Types, NEW c \in Ctxs, Ref(c)
  PROVE  /\ ctx' \in [Ctxs -> CtxRec]
         /\ \A d \in Ctxs : d # c => ctx'[d] = ctx[d]
         /\ \A d \in Ctxs : /\ ctx'[d].key = ctx[d].key /\ ctx'[d].dead = ctx[d].dead
                            /\ ctx'[d].pump_shard = ctx[d].pump_shard
         /\ ctx'[c].refcount = ctx[c].refcount + 1
<1> DEFINE n == [ctx[c] EXCEPT !.refcount = @ + 1]
<1>1. ctx[c] \in CtxRec /\ ctx \in [Ctxs -> CtxRec]
  BY DEF Types
<1>2. ctx' = [ctx EXCEPT ![c] = n]
  BY DEF Ref
<1>3. n \in CtxRec /\ n.refcount = ctx[c].refcount + 1
      /\ n.key = ctx[c].key /\ n.dead = ctx[c].dead /\ n.pump_shard = ctx[c].pump_shard
  BY <1>1 DEF CtxRec
<1> HIDE DEF n
<1>4. QED BY <1>1, <1>2, <1>3

\* One reference less.
LEMMA DecFacts ==
  ASSUME Types, NEW c \in Ctxs, Dec(c), ctx[c].refcount # 0
  PROVE  /\ ctx' \in [Ctxs -> CtxRec]
         /\ \A d \in Ctxs : d # c => ctx'[d] = ctx[d]
         /\ \A d \in Ctxs : /\ ctx'[d].key = ctx[d].key /\ ctx'[d].dead = ctx[d].dead
                            /\ ctx'[d].pump_shard = ctx[d].pump_shard
         /\ ctx'[c].refcount = ctx[c].refcount - 1
<1> DEFINE n == [ctx[c] EXCEPT !.refcount = @ - 1]
<1>1. ctx[c] \in CtxRec /\ ctx \in [Ctxs -> CtxRec]
  BY DEF Types
<1>2. ctx' = [ctx EXCEPT ![c] = n]
  BY DEF Dec
<1>3. n \in CtxRec /\ n.refcount = ctx[c].refcount - 1
      /\ n.key = ctx[c].key /\ n.dead = ctx[c].dead /\ n.pump_shard = ctx[c].pump_shard
  BY <1>1 DEF CtxRec
<1> HIDE DEF n
<1>4. QED BY <1>1, <1>2, <1>3

\* A context that somebody holds or pins is linked and has a count.
LEMMA HeldCounts ==
  ASSUME Types, HeldOK, Counts, NEW c \in Ctxs,
         (\E a \in Actors : Held(a) = c) \/ (\E p \in Pumps : c \in walk[p].pinned)
  PROVE  c \in g_open /\ ctx[c].refcount \in Nat /\ ctx[c].refcount # 0
<1>1. c \in g_open
  BY Roles DEF Held, HeldOK
<1>2. Holders(c) # {} \/ Pinners(c) # {}
  BY HoldersAre
<1>3. Cardinality(Holders(c)) # 0 \/ Cardinality(Pinners(c)) # 0
  BY <1>2, FiniteRefs, FS_EmptySet
<1>4. ctx[c].refcount \in Nat /\ leak[c] \in Nat
  BY DEF Types, CtxRec
<1>5. ctx[c].refcount = Cardinality(Holders(c)) + Cardinality(Pinners(c)) + leak[c]
  BY <1>1 DEF Counts
<1>6. QED BY <1>1, <1>3, <1>4, <1>5, FiniteRefs

\* What one actor takes, gives up or leaks of a context.
Settled(a, c) ==
  \/ /\ (Held(a) = c /\ Held(a)' = c) \/ (Held(a) # c /\ Held(a)' # c)
     /\ ctx'[c].refcount = ctx[c].refcount /\ leak'[c] = leak[c]
  \/ /\ Held(a) # c /\ Held(a)' = c
     /\ ctx'[c].refcount = ctx[c].refcount + 1 /\ leak'[c] = leak[c]
  \/ /\ Held(a) = c /\ Held(a)' # c
     /\ ctx'[c].refcount = ctx[c].refcount - 1 /\ leak'[c] = leak[c]
  \/ /\ Held(a) = c /\ Held(a)' # c
     /\ ctx'[c].refcount = ctx[c].refcount /\ leak'[c] = leak[c] + 1

\* The count follows it.
LEMMA CountMove ==
  ASSUME Types, Counts, NEW a \in Actors, \A b \in Actors : b # a => Held(b)' = Held(b),
         \A j \in Jobs : job'[j].result = job[j].result,
         \A p \in Pumps : walk'[p].pinned = walk[p].pinned,
         NEW c \in g_open, Settled(a, c)
  PROVE  ctx'[c].refcount = Cardinality(Holders(c)') + Cardinality(Pinners(c)') + leak'[c]
<1>1. c \in Ctxs /\ ctx[c].refcount \in Nat /\ leak[c] \in Nat
  BY DEF Types, CtxRec
<1>2. ctx[c].refcount = Cardinality(Holders(c)) + Cardinality(Pinners(c)) + leak[c]
  BY DEF Counts
<1>3. Cardinality(Pinners(c)') = Cardinality(Pinners(c))
  BY PinnersSame
<1>4. /\ Cardinality(Holders(c)) \in Nat /\ Cardinality(Pinners(c)) \in Nat
      /\ Cardinality(Holders(c)') \in Nat
  BY FiniteRefs, FiniteRefsNext
<1>5. /\ (Held(a) = c /\ Held(a)' = c) \/ (Held(a) # c /\ Held(a)' # c)
            => Cardinality(Holders(c)') = Cardinality(Holders(c))
      /\ Held(a) # c /\ Held(a)' = c => Cardinality(Holders(c)') = Cardinality(Holders(c)) + 1
      /\ Held(a) = c /\ Held(a)' # c => Cardinality(Holders(c)) = Cardinality(Holders(c)') + 1
  BY <1>1, HoldersMove
<1>6. CASE /\ (Held(a) = c /\ Held(a)' = c) \/ (Held(a) # c /\ Held(a)' # c)
           /\ ctx'[c].refcount = ctx[c].refcount /\ leak'[c] = leak[c]
  BY <1>2, <1>3, <1>5, <1>6
<1>7. CASE /\ Held(a) # c /\ Held(a)' = c
           /\ ctx'[c].refcount = ctx[c].refcount + 1 /\ leak'[c] = leak[c]
  BY <1>1, <1>2, <1>3, <1>4, <1>5, <1>7
<1>8. CASE /\ Held(a) = c /\ Held(a)' # c
           /\ ctx'[c].refcount = ctx[c].refcount - 1 /\ leak'[c] = leak[c]
  BY <1>1, <1>2, <1>3, <1>4, <1>5, <1>8
<1>9. CASE /\ Held(a) = c /\ Held(a)' # c
           /\ ctx'[c].refcount = ctx[c].refcount /\ leak'[c] = leak[c] + 1
  BY <1>1, <1>2, <1>3, <1>4, <1>5, <1>9
<1>10. QED BY <1>6, <1>7, <1>8, <1>9 DEF Settled

\* The counts of all linked contexts do.
LEMMA CountsMove ==
  ASSUME Types, Counts, NEW a \in Actors, \A b \in Actors : b # a => Held(b)' = Held(b),
         \A j \in Jobs : job'[j].result = job[j].result,
         \A p \in Pumps : walk'[p].pinned = walk[p].pinned,
         g_open' \subseteq g_open, \A c \in g_open' : Settled(a, c)
  PROVE  Counts'
BY CountMove DEF Counts

\* An actor moves on in its code with the context it has, or without any.
LEMMA QuietStep ==
  ASSUME IInv, NEW a \in Actors, Moves(a), act' \in [Actors -> ActRec],
         act'[a].ctx = act[a].ctx, act'[a].snaps \in {{}, act[a].snaps},
         act[a].pc \notin Leaving \cup {"pin"}, act'[a].pc \notin Leaving \cup {"pin"},
         act[a].pc = "link" <=> act'[a].pc = "link",
         act[a].ctx # None => (act[a].pc \in Holding <=> act'[a].pc \in Holding),
         act[a].ctx = None => act'[a].pc \notin Holding \ {"done"},
         \A j \in Jobs : job'[j].result = job[j].result,
         job' \in [Jobs -> JobRec], queue' \in Seq(Jobs), JobOK',
         UNCHANGED <<ctx, alloc, g_open, leak, snapVars, retired, walk>>,
         g_shard_ctr' \in Pumps, oom' \in Nat
  PROVE  IInv'
<1> USE DEF IInv
<1>u. /\ ctx' = ctx /\ alloc' = alloc /\ g_open' = g_open /\ leak' = leak
      /\ entries' = entries /\ g_snapshot' = g_snapshot /\ g_retired' = g_retired
      /\ retired' = retired /\ walk' = walk
  BY DEF snapVars
<1>1. Types'
  BY <1>u DEF Types, SnapsLive
<1>2. /\ act[a].ctx = None => act[a].pc # "link" /\ act'[a].pc # "link"
      /\ act[a].ctx # None => act[a].pc \in Holding \/ act[a].pc = "link"
  BY DEF HeldOK, Away, Leaving, Holding
<1>3. Held(a)' = Held(a) /\ \A b \in Actors : Held(b)' = Held(b)
  BY <1>2 DEF Held, Moves, Holding
<1>4. HeldOK'
  <2>1. \A b \in Actors : act'[b].pc \in Holding /\ act'[b].ctx # None => act'[b].ctx \in g_open
    BY <1>2 DEF HeldOK, Moves, Holding
  <2>2. \A b \in Actors : act'[b].pc \in (Holding \cup Away) \ {"done", "mark"} => act'[b].ctx # None
    BY <1>2 DEF HeldOK, Moves, Holding, Away
  <2>3. \A b \in Actors : act'[b].pc \notin Holding \cup Away => act'[b].ctx = None
    BY <1>2 DEF HeldOK, Moves, Away
  <2>4. QED BY <1>u, <2>1, <2>2, <2>3 DEF HeldOK
<1>5. AwayOK' /\ AwayCounts'
  <2>1. \/ act[a].pc \notin Away /\ act'[a].pc \notin Away
        \/ act[a].pc = "link" /\ act'[a].pc = "link" /\ act'[a].ctx = act[a].ctx
    BY DEF Away
  <2>2. QED BY <1>u, <2>1, QuietAway
<1>6. SnapOwners' /\ Published' /\ WalkOK'
  BY <1>u, QuietWalk
<1>7. ShardOK'
  <2>1. ASSUME NEW p \in Pumps, act'[p].pc \in Holding \cup Away, act'[p].ctx # None
        PROVE  act[p].pc \in Holding \cup Away /\ act[p].ctx = act'[p].ctx
    BY <2>1, <1>2, Roles DEF Moves, Away
  <2>2. QED BY <1>u, <2>1 DEF ShardOK
<1>8. OneAlive'
  BY <1>u, QuietAlive
<1>9. Counts'
  <2>1. \A c \in g_open' : Settled(a, c)
    BY <1>u, <1>3 DEF Settled
  <2>2. QED BY <1>u, <1>3, <2>1, CountsMove
<1>10. QED BY <1>1, <1>4, <1>5, <1>6, <1>7, <1>8, <1>9

-----------------------------------------------------------------------------
(* Opening.                                                                *)

\* An opener or a request takes a reference to a context it has found.
LEMMA TakeRef ==
  ASSUME IInv, NEW a \in Actors, a \notin Pumps, NEW c \in g_open, Ref(c), Opened(a, c),
         act[a].pc \in {"open", "idle"}, a \in Life => act[a].pc = "open",
         UNCHANGED <<alloc, g_open, leak, g_shard_ctr, snapVars, retired, jobVars, walk, oom>>
  PROVE  IInv'
<1> USE DEF IInv
<1>u. /\ alloc' = alloc /\ g_open' = g_open /\ leak' = leak /\ g_shard_ctr' = g_shard_ctr
      /\ entries' = entries /\ g_snapshot' = g_snapshot /\ g_retired' = g_retired
      /\ retired' = retired /\ job' = job /\ queue' = queue /\ walk' = walk /\ oom' = oom
  BY DEF snapVars, jobVars
<1>0. c \in Ctxs /\ c \in MaybeCtx /\ c # None /\ act \in [Actors -> ActRec]
  BY Roles DEF Types, MaybeCtx
<1>1. /\ act' \in [Actors -> ActRec] /\ Moves(a) /\ act'[a].ctx = c
      /\ act'[a].snaps \in {{}, act[a].snaps}
      /\ a \in Life => act'[a].pc = "done" /\ act'[a].job = act[a].job
      /\ a \in Users => act'[a].pc = "hold"
  BY <1>0, OpenedFacts
<1>2. act'[a].pc \in {"done", "hold"}
  BY <1>1, Roles
<1>3. /\ ctx' \in [Ctxs -> CtxRec] /\ ctx'[c].refcount = ctx[c].refcount + 1
      /\ \A d \in Ctxs : d # c => ctx'[d] = ctx[d]
      /\ \A d \in Ctxs : /\ ctx'[d].key = ctx[d].key /\ ctx'[d].dead = ctx[d].dead
                         /\ ctx'[d].pump_shard = ctx[d].pump_shard
  BY <1>0, RefFacts
<1>4. Types'
  BY <1>u, <1>1, <1>3 DEF Types, SnapsLive
<1>5. HeldOK'
  BY <1>u, <1>0, <1>1, <1>2 DEF HeldOK, Moves, Holding, Away, Leaving
<1>6. AwayOK' /\ AwayCounts'
  <2>1. act[a].pc \notin Away /\ act'[a].pc \notin Away
    BY <1>2 DEF Away, Leaving
  <2>2. \A d \in alloc : d \notin g_open => ctx'[d].refcount = ctx[d].refcount
    BY <1>3 DEF Types
  <2>3. QED BY <1>u, <1>1, <2>1, <2>2, QuietAway
<1>7. SnapOwners' /\ Published' /\ WalkOK'
  <2>1. act[a].pc \notin Leaving \cup {"pin"} /\ act'[a].pc \notin Leaving \cup {"pin"}
    BY <1>2 DEF Leaving
  <2>2. QED BY <1>u, <1>1, <2>1, QuietWalk
<1>8. ShardOK'
  BY <1>u, <1>1, <1>3, QuietShard DEF Types
<1>9. JobOK'
  <2>1. act'[a].pc # "await" /\ (a \in Life => act[a].pc \in Busy)
    BY <1>2 DEF Busy
  <2>2. QED BY <1>u, <1>1, <2>1, QuietJob
<1>10. OneAlive'
  BY <1>u, <1>3, QuietAlive DEF Types
<1>11. Counts'
  <2>1. Held(a) = None /\ Held(a)' = c
    BY <1>1, <1>2 DEF Held, Holding
  <2>2. \A b \in Actors : b # a => Held(b)' = Held(b)
    BY <1>1 DEF Held, Moves
  <2>3. \A d \in g_open' : Settled(a, d)
    BY <1>u, <1>0, <1>3, <2>1, Roles DEF Types, Settled
  <2>4. QED BY <1>u, <2>2, <2>3, CountsMove
<1>12. QED
  BY <1>4, <1>5, <1>6, <1>7, <1>8, <1>9, <1>10, <1>11

\* What an opener must be.
LEMMA Openers ==
  ASSUME NEW a \in Builders \cup Life
  PROVE  a \in Actors /\ a \notin Pumps /\ (a \in Life => a \notin Builders) /\ (a \in Builders => a \in Users)
BY Roles DEF Users

\* A counter over the pumps goes round.
LEMMA NextShard ==
  ASSUME g_shard_ctr \in Pumps
  PROVE  (g_shard_ctr + 1) % g_n_pump_threads \in Pumps
BY CaptureAssumption DEF Pumps

\* The list is finite.
LEMMA OpenFinite ==
  ASSUME Types
  PROVE  Cardinality(g_open) \in Nat /\ \A n \in Nat : n + SNAPSHOT_SLACK \in Nat
<1>1. g_open \subseteq Ctxs
  BY DEF Types
<1>2. IsFiniteSet(g_open)
  BY <1>1, CaptureAssumption, FS_Subset
<1>3. QED BY <1>2, CaptureAssumption, FS_CardinalityType

\* A lookup, which takes a reference or leaves the opener to build a source.
LEMMA OpenStep ==
  ASSUME IInv, NEW a \in Builders \cup Life, NEW k \in Keys, capture_open(a, k)
  PROVE  IInv'
<1>0. /\ a \in Actors /\ a \notin Pumps /\ act \in [Actors -> ActRec] /\ act[a] \in ActRec
      /\ g_shard_ctr \in Pumps /\ oom \in Nat /\ job \in [Jobs -> JobRec] /\ queue \in Seq(Jobs)
  BY Openers DEF IInv, Types
<1>1. act[a].pc \in {"open", "idle"} /\ (a \in Life => act[a].pc = "open")
  BY Openers DEF capture_open, At
<1>2. CASE find_existing(k) # {}
  <2>1. PICK c \in find_existing(k) : Ref(c) /\ Opened(a, c)
    BY <1>2 DEF capture_open
  <2>2. c \in g_open
    BY DEF find_existing
  <2>3. QED BY <1>0, <1>1, <2>1, <2>2, TakeRef DEF capture_open
<1>3. CASE find_existing(k) = {}
  <2> DEFINE n == [act[a] EXCEPT !.pc = "build", !.key = k]
  <2>1. act' = [act EXCEPT ![a] = n] /\ ctx' = ctx
    BY <1>3 DEF capture_open
  <2>2. n \in ActRec
    BY <1>0 DEF ActRec, Pcs
  <2>3. /\ n.pc = "build" /\ n.ctx = act[a].ctx /\ n.snaps = act[a].snaps /\ n.job = act[a].job
    BY <1>0 DEF ActRec
  <2> HIDE DEF n
  <2>4. act'[a] = n /\ Moves(a) /\ act' \in [Actors -> ActRec]
    BY <1>0, <2>1, <2>2 DEF Moves
  <2>5. UNCHANGED <<ctx, alloc, g_open, leak, g_shard_ctr, snapVars, retired, job, queue, walk, oom>>
    BY <2>1 DEF capture_open, jobVars
  <2>6. act[a].ctx = None
    BY <1>0, <1>1 DEF IInv, HeldOK, Holding, Away, Leaving
  <2>7. JobOK'
    BY <1>0, <1>1, <2>3, <2>4, <2>5, QuietJob DEF IInv, Busy
  <2>8. /\ act[a].pc \notin Leaving \cup {"pin"} /\ act'[a].pc \notin Leaving \cup {"pin"}
        /\ act[a].pc = "link" <=> act'[a].pc = "link"
        /\ act'[a].pc \notin Holding \ {"done"}
    BY <1>1, <2>3, <2>4 DEF Leaving, Holding
  <2>9. QED BY <1>0, <2>3, <2>4, <2>5, <2>6, <2>7, <2>8, QuietStep
<1>4. QED BY <1>2, <1>3

\* Another pass of a loop that allocates a snapshot outside the lock.
LEMMA CapStep ==
  ASSUME IInv, NEW a \in Actors, NEW m \in Nat, act[a].pc \in {"link", "slow"},
         act' = [act EXCEPT ![a].cap = m],
         UNCHANGED <<ctx, alloc, g_open, leak, g_shard_ctr, snapVars, retired, job, queue, walk, oom>>
  PROVE  IInv'
<1>0. /\ act \in [Actors -> ActRec] /\ act[a] \in ActRec
      /\ g_shard_ctr \in Pumps /\ oom \in Nat /\ job \in [Jobs -> JobRec] /\ queue \in Seq(Jobs)
  BY DEF IInv, Types
<1> DEFINE n == [act[a] EXCEPT !.cap = m]
<1>1. act' = [act EXCEPT ![a] = n]
  OBVIOUS
<1>2. n \in ActRec
  BY <1>0 DEF ActRec
<1>3. n.pc = act[a].pc /\ n.ctx = act[a].ctx /\ n.snaps = act[a].snaps /\ n.job = act[a].job
  BY <1>0 DEF ActRec
<1> HIDE DEF n
<1>4. act'[a] = n /\ Moves(a) /\ act' \in [Actors -> ActRec]
  BY <1>0, <1>1, <1>2 DEF Moves
<1>5. JobOK'
  BY <1>3, <1>4, QuietJob DEF IInv
<1>6. act[a].ctx # None
  BY DEF IInv, HeldOK, Holding, Away, Leaving
<1>7. act[a].pc \notin Leaving \cup {"pin"} /\ act'[a].pc \notin Leaving \cup {"pin"}
  BY <1>3, <1>4 DEF Leaving
<1>8. QED BY <1>0, <1>3, <1>4, <1>5, <1>6, <1>7, QuietStep

\* The source could not be opened.
LEMMA SourceFails ==
  ASSUME IInv, NEW a \in Builders \cup Life, At(a, "build"), Opened(a, None),
         UNCHANGED <<ctx, alloc, g_open, leak, snapVars, retired, job, queue, walk, oom>>,
         g_shard_ctr' \in Pumps
  PROVE  IInv'
<1>0. /\ a \in Actors /\ a \notin Pumps /\ act \in [Actors -> ActRec] /\ None \in MaybeCtx
      /\ oom \in Nat /\ job \in [Jobs -> JobRec] /\ queue \in Seq(Jobs)
  BY Openers DEF IInv, Types, MaybeCtx
<1>1. /\ act' \in [Actors -> ActRec] /\ Moves(a) /\ act'[a].ctx = None
      /\ act'[a].snaps \in {{}, act[a].snaps}
      /\ a \in Life => act'[a].pc = "done" /\ act'[a].job = act[a].job
      /\ a \in Users => act'[a].pc = "idle"
  BY <1>0, OpenedFacts
<1>2. act'[a].pc \in {"done", "idle"} /\ act[a].pc = "build" /\ act[a].ctx = None
  BY <1>0, <1>1, Roles DEF At, IInv, HeldOK, Holding, Away, Leaving
<1>3. JobOK'
  <2>1. act[a].pc \in Busy /\ act'[a].pc # "await"
    BY <1>2 DEF Busy
  <2>2. QED BY <1>0, <1>1, <2>1, QuietJob DEF IInv
<1>4. /\ act[a].pc \notin Leaving \cup {"pin"} /\ act'[a].pc \notin Leaving \cup {"pin"}
      /\ act[a].pc = "link" <=> act'[a].pc = "link"
      /\ act'[a].pc \notin Holding \ {"done"}
  BY <1>2 DEF Leaving, Holding
<1>5. QED BY <1>0, <1>1, <1>2, <1>3, <1>4, QuietStep

\* A new context, not yet linked.
LEMMA SourceOpens ==
  ASSUME IInv, NEW a \in Builders \cup Life, At(a, "build"), NEW c \in Ctxs, c \notin alloc,
         alloc' = alloc \cup {c},
         NEW m \in CtxRec, m.refcount = 1, ctx' = [ctx EXCEPT ![c] = m],
         NEW n \in ActRec, n.pc = "link", n.ctx = c, n.snaps = act[a].snaps, n.job = act[a].job,
         act' = [act EXCEPT ![a] = n],
         UNCHANGED <<g_open, leak, snapVars, retired, job, queue, walk, oom>>,
         g_shard_ctr' \in Pumps
  PROVE  IInv'
<1> USE DEF IInv
<1>u. /\ g_open' = g_open /\ leak' = leak /\ entries' = entries /\ g_snapshot' = g_snapshot
      /\ g_retired' = g_retired /\ retired' = retired /\ walk' = walk /\ oom' = oom
      /\ job' = job /\ queue' = queue
  BY DEF snapVars
<1>0. /\ a \in Actors /\ a \notin Pumps /\ act \in [Actors -> ActRec]
      /\ ctx \in [Ctxs -> CtxRec] /\ g_shard_ctr \in Pumps /\ c # None /\ c \notin g_open
      /\ act[a].pc = "build"
  BY Openers, Roles DEF Types, At
<1>2. /\ n.pc = "link" /\ n.ctx = c /\ n.snaps = act[a].snaps /\ n.job = act[a].job
      /\ m.refcount = 1
  OBVIOUS
<1>4. /\ act'[a] = n /\ Moves(a) /\ act' \in [Actors -> ActRec]
      /\ ctx' \in [Ctxs -> CtxRec] /\ ctx'[c] = m /\ \A d \in Ctxs : d # c => ctx'[d] = ctx[d]
  BY <1>0, Update DEF Moves
<1>5. \A d \in alloc : ctx'[d] = ctx[d]
  BY <1>4 DEF Types
<1>6. Types'
  BY <1>u, <1>4 DEF Types, SnapsLive
<1>7. HeldOK'
  BY <1>u, <1>0, <1>2, <1>4 DEF HeldOK, Moves, Holding, Away, Leaving
<1>8. InHand(a) = None /\ InHand(a)' = c /\ \A b \in Actors : b # a => InHand(b)' = InHand(b)
  BY <1>0, <1>2, <1>4 DEF InHand, Moves, Away, Leaving
<1>9. \A b \in Actors : InHand(b) # c /\ (InHand(b) # None => InHand(b) \in alloc)
  BY <1>0 DEF AwayOK
<1>10. AwayOK'
  <2>1. \A b \in Actors : InHand(b)' # None => InHand(b)' \in alloc' /\ InHand(b)' \notin g_open'
    BY <1>u, <1>0, <1>8 DEF AwayOK
  <2>2. \A r \in retired' : r.ctx # None => r.ctx \in alloc' /\ r.ctx \notin g_open' /\ r.ctx # c
    BY <1>u DEF AwayOK
  <2>3. \A b, d \in Actors : InHand(b)' # None /\ InHand(b)' = InHand(d)' => b = d
    BY <1>8, <1>9 DEF AwayOK
  <2>4. \A b \in Actors, r \in retired' : InHand(b)' # None => InHand(b)' # r.ctx
    BY <1>u, <1>0, <1>8, <2>2 DEF AwayOK
  <2>5. \A r, q \in retired' : r.ctx # None /\ r.ctx = q.ctx => r = q
    BY <1>u DEF AwayOK
  <2>6. ASSUME NEW d \in alloc' \ g_open'
        PROVE  (\E b \in Actors : InHand(b)' = d) \/ (\E r \in retired' : r.ctx = d)
    <3>1. CASE d = c
      BY <1>0, <1>8, <3>1
    <3>2. CASE d # c
      <4>1. d \in alloc \ g_open
        BY <1>u, <3>2
      <4>2. (\E b \in Actors : InHand(b) = d) \/ (\E r \in retired : r.ctx = d)
        BY <4>1 DEF AwayOK
      <4>3. d # None
        BY <4>1, Roles DEF Types
      <4>4. QED BY <1>u, <1>8, <4>2, <4>3
    <3>3. QED BY <3>1, <3>2
  <2>7. QED BY <2>1, <2>2, <2>3, <2>4, <2>5, <2>6 DEF AwayOK
<1>11. AwayCounts'
  <2>1. \A b \in Actors : b # a /\ act[b].pc \in Away /\ act[b].ctx # None => act[b].ctx \in alloc
    BY DEF AwayOK, InHand
  <2>2. \A b \in Actors : act'[b].pc = "link" => ctx'[act'[b].ctx].refcount = 1
    <3>1. ASSUME NEW b \in Actors, b # a, act[b].pc = "link" PROVE ctx'[act[b].ctx].refcount = 1
      <4>1. act[b].ctx \in alloc
        BY <2>1, <3>1 DEF HeldOK, Away
      <4>2. QED BY <1>5, <3>1, <4>1 DEF AwayCounts
    <3>2. QED BY <1>2, <1>4, <3>1 DEF Moves
  <2>3. \A b \in Actors : act'[b].pc \in Leaving /\ act'[b].ctx # None => ctx'[act'[b].ctx].refcount = 0
    BY <1>2, <1>4, <1>5, <2>1 DEF AwayCounts, Moves, Leaving, Away
  <2>4. \A r \in retired' : r.ctx # None => ctx'[r.ctx].refcount = 0
    BY <1>u, <1>5 DEF AwayCounts, AwayOK
  <2>5. QED BY <2>2, <2>3, <2>4 DEF AwayCounts
<1>12. SnapOwners' /\ Published' /\ WalkOK'
  <2>1. /\ act[a].pc \notin Leaving \cup {"pin"} /\ act'[a].pc \notin Leaving \cup {"pin"}
        /\ act'[a].snaps = act[a].snaps
    BY <1>0, <1>2, <1>4 DEF Leaving
  <2>2. QED BY <1>u, <1>0, <1>4, <2>1, QuietWalk
<1>13. ShardOK'
  BY <1>u, <1>0, <1>4, <1>5, QuietShard
<1>14. JobOK'
  BY <1>u, <1>0, <1>2, <1>4, QuietJob DEF Busy
<1>15. OneAlive'
  BY <1>u, <1>5, QuietAlive DEF Types
<1>16. Counts'
  <2>1. Held(a) = None /\ Held(a)' = None /\ \A b \in Actors : Held(b)' = Held(b)
    BY <1>0, <1>2, <1>4 DEF Held, Moves, Holding
  <2>2. \A d \in g_open' : Settled(a, d)
    BY <1>u, <1>5, <2>1 DEF Types, Settled
  <2>3. QED BY <1>u, <1>0, <2>1, <2>2, CountsMove
<1>17. QED
  BY <1>6, <1>7, <1>10, <1>11, <1>12, <1>13, <1>14, <1>15, <1>16

\* A source is opened outside the locks, and may fail.
LEMMA OpenSourceStep ==
  ASSUME IInv, NEW a \in Builders \cup Life, OpenSource(a)
  PROVE  IInv'
<1>0. /\ a \in Actors /\ act \in [Actors -> ActRec] /\ act[a] \in ActRec /\ g_shard_ctr \in Pumps
  BY Openers DEF IInv, Types
<1>1. g_shard_ctr' \in Pumps /\ At(a, "build")
  BY <1>0, NextShard DEF OpenSource
<1>2. UNCHANGED <<g_open, leak, snapVars, retired, job, queue, walk, oom>>
  BY DEF OpenSource, jobVars
<1>3. CASE Opened(a, None) /\ UNCHANGED <<ctx, alloc>>
  BY <1>1, <1>2, <1>3, SourceFails
<1>4. ASSUME NEW c \in Ctxs \ alloc, alloc' = alloc \cup {c},
             ctx' = [ctx EXCEPT ![c] = [key |-> act[a].key, refcount |-> 1,
                                        dead |-> FALSE, pump_shard |-> g_shard_ctr]],
             act' = [act EXCEPT ![a].pc = "link", ![a].ctx = c]
      PROVE  IInv'
  <2> DEFINE n == [act[a] EXCEPT !.pc = "link", !.ctx = c]
             m == [key |-> act[a].key, refcount |-> 1, dead |-> FALSE, pump_shard |-> g_shard_ctr]
  <2>1. n \in ActRec /\ m \in CtxRec
    BY <1>0 DEF ActRec, Pcs, MaybeCtx, CtxRec
  <2>2. /\ n.pc = "link" /\ n.ctx = c /\ n.snaps = act[a].snaps /\ n.job = act[a].job
        /\ m.refcount = 1
    BY <1>0 DEF ActRec
  <2>3. act' = [act EXCEPT ![a] = n] /\ ctx' = [ctx EXCEPT ![c] = m]
    BY <1>4
  <2> HIDE DEF n, m
  <2>4. c \in Ctxs /\ c \notin alloc /\ alloc' = alloc \cup {c}
    BY <1>4
  <2>5. QED BY <1>1, <1>2, <2>1, <2>2, <2>3, <2>4, SourceOpens
<1>5. \/ Opened(a, None) /\ UNCHANGED <<ctx, alloc>>
      \/ \E c \in Ctxs \ alloc :
           /\ alloc' = alloc \cup {c}
           /\ ctx' = [ctx EXCEPT ![c] = [key |-> act[a].key, refcount |-> 1,
                                         dead |-> FALSE, pump_shard |-> g_shard_ctr]]
           /\ act' = [act EXCEPT ![a].pc = "link", ![a].ctx = c]
  BY DEF OpenSource
<1>6. QED BY <1>3, <1>4, <1>5, Zenon

\* What is not linked yet, or about to be freed, no pump walks.
LEMMA NotWalked ==
  ASSUME IInv, NEW a \in Actors, act[a].pc \in {"link", "free"}, act[a].ctx # None
  PROVE  /\ \A p \in Pumps : ~CtxKept(p, act[a].ctx)
         /\ \A p \in Pumps : act[a].ctx \notin walk[p].todo /\ act[a].ctx \notin walk[p].pinned
         /\ act[a].ctx \in alloc /\ act[a].ctx \notin g_open
         /\ \A b \in Actors : b # a => act[b].ctx # act[a].ctx
         /\ \A r \in retired : r.ctx # act[a].ctx
<1>0. InHand(a) = act[a].ctx
  BY DEF InHand, Away, Leaving
<1>1. act[a].ctx \in alloc /\ act[a].ctx \notin g_open /\ \A r \in retired : r.ctx # act[a].ctx
  BY <1>0 DEF IInv, AwayOK
<1>2. ASSUME NEW b \in Actors, b # a PROVE act[b].ctx # act[a].ctx
  <2>1. CASE act[b].pc \in Holding
    BY <1>1, <2>1 DEF IInv, HeldOK
  <2>2. CASE act[b].pc \in Away
    BY <1>0, <1>2, <2>2 DEF IInv, AwayOK, InHand
  <2>3. QED BY <2>1, <2>2 DEF IInv, HeldOK
<1>3. \A p \in Pumps : ~CtxKept(p, act[a].ctx)
  BY <1>1, <1>2 DEF CtxKept
<1>4. \A p \in Pumps : act[a].ctx \notin walk[p].todo /\ act[a].ctx \notin walk[p].pinned
  BY <1>1, <1>3 DEF IInv, WalkOK, HeldOK
<1>5. QED BY <1>1, <1>2, <1>3, <1>4

\* The opener gives up its own context, for another one or for none.
LEMMA Unbuild ==
  ASSUME IInv, NEW a \in Builders \cup Life, At(a, "link"), NEW c \in Ctxs, c = act[a].ctx,
         NEW d \in g_open \cup {None}, Opened(a, d), alloc' = alloc \ {c},
         ctx' \in [Ctxs -> CtxRec],
         \A e \in Ctxs : e # c => /\ ctx'[e].key = ctx[e].key /\ ctx'[e].dead = ctx[e].dead
                                  /\ ctx'[e].pump_shard = ctx[e].pump_shard,
         \A e \in Ctxs : e # c /\ e # d => ctx'[e].refcount = ctx[e].refcount,
         d # None => ctx'[d].refcount = ctx[d].refcount + 1,
         UNCHANGED <<g_open, leak, g_shard_ctr, snapVars, retired, jobVars, walk>>, oom' \in Nat
  PROVE  IInv'
<1> USE DEF IInv
<1>u. /\ g_open' = g_open /\ leak' = leak /\ entries' = entries /\ g_snapshot' = g_snapshot
      /\ g_retired' = g_retired /\ retired' = retired /\ walk' = walk
      /\ job' = job /\ queue' = queue /\ g_shard_ctr' = g_shard_ctr
  BY DEF snapVars, jobVars
<1>0. /\ a \in Actors /\ a \notin Pumps /\ act \in [Actors -> ActRec] /\ d \in MaybeCtx
      /\ act[a].pc = "link" /\ c # None
  BY Openers, Roles DEF Types, At, MaybeCtx
<1>1. /\ act' \in [Actors -> ActRec] /\ Moves(a) /\ act'[a].ctx = d
      /\ act'[a].snaps \in {{}, act[a].snaps}
      /\ a \in Life => act'[a].pc = "done" /\ act'[a].job = act[a].job
      /\ a \in Users => act'[a].pc \in {"idle", "hold"} /\ (act'[a].pc = "hold" <=> d # None)
  BY <1>0, OpenedFacts
<1>2. /\ act'[a].pc \in {"done", "idle", "hold"} /\ (act'[a].pc = "hold" => d # None)
      /\ act'[a].pc = "idle" => d = None
  BY <1>0, <1>1, Roles
<1>3. /\ \A p \in Pumps : c \notin walk[p].todo /\ c \notin walk[p].pinned
      /\ c \in alloc /\ c \notin g_open
      /\ \A b \in Actors : b # a => act[b].ctx # c
      /\ \A r \in retired : r.ctx # c
  BY <1>0, NotWalked
<1>4. Types'
  BY <1>u, <1>1, <1>3 DEF Types, SnapsLive
<1>5. HeldOK'
  BY <1>u, <1>0, <1>1, <1>2 DEF HeldOK, Moves, Holding, Away, Leaving
<1>6. InHand(a) = c /\ InHand(a)' = None /\ \A b \in Actors : b # a => InHand(b)' = InHand(b)
  BY <1>0, <1>1, <1>2 DEF InHand, Moves, Away, Leaving
<1>7. AwayOK'
  <2>1. \A b \in Actors : InHand(b)' # None => /\ InHand(b)' \in alloc' /\ InHand(b)' \notin g_open'
                                               /\ InHand(b)' = InHand(b)
    BY <1>u, <1>0, <1>6 DEF AwayOK
  <2>2. \A r \in retired' : r.ctx # None => r.ctx \in alloc' /\ r.ctx \notin g_open'
    BY <1>u, <1>3 DEF AwayOK
  <2>3. \A b, e \in Actors : InHand(b)' # None /\ InHand(b)' = InHand(e)' => b = e
    BY <2>1 DEF AwayOK
  <2>4. \A b \in Actors, r \in retired' : InHand(b)' # None => InHand(b)' # r.ctx
    BY <1>u, <2>1 DEF AwayOK
  <2>5. \A r, q \in retired' : r.ctx # None /\ r.ctx = q.ctx => r = q
    BY <1>u DEF AwayOK
  <2>6. \A e \in alloc' \ g_open' : (\E b \in Actors : InHand(b)' = e) \/ (\E r \in retired' : r.ctx = e)
    BY <1>u, <1>6 DEF AwayOK
  <2>7. QED BY <2>1, <2>2, <2>3, <2>4, <2>5, <2>6 DEF AwayOK
<1>8. AwayCounts'
  <2>1. \A e \in alloc \ g_open : e # c => ctx'[e].refcount = ctx[e].refcount
    BY <1>0, Roles DEF Types
  <2>2. \A b \in Actors : b # a /\ act[b].pc \in Away /\ act[b].ctx # None
            => ctx'[act[b].ctx].refcount = ctx[act[b].ctx].refcount
    BY <1>3, <2>1 DEF AwayOK, InHand
  <2>3. \A b \in Actors : act'[b].pc \in Away => act'[b] = act[b] /\ b # a
    BY <1>1, <1>2 DEF Moves, Away, Leaving
  <2>4. \A b \in Actors : act'[b].pc = "link" => ctx'[act'[b].ctx].refcount = 1
    <3>1. \A b \in Actors : act[b].pc = "link" => act[b].ctx # None /\ act[b].pc \in Away
      BY DEF HeldOK, Away, Leaving
    <3>2. "link" \in Away
      BY DEF Away
    <3>3. QED BY <2>2, <2>3, <3>1, <3>2 DEF AwayCounts
  <2>5. \A b \in Actors : act'[b].pc \in Leaving /\ act'[b].ctx # None => ctx'[act'[b].ctx].refcount = 0
    BY <2>2, <2>3 DEF AwayCounts, Away
  <2>6. \A r \in retired' : r.ctx # None => ctx'[r.ctx].refcount = 0
    BY <1>u, <1>3, <2>1 DEF AwayCounts, AwayOK
  <2>7. QED BY <2>4, <2>5, <2>6 DEF AwayCounts
<1>9. SnapOwners' /\ Published' /\ WalkOK'
  <2>1. /\ act[a].pc \notin Leaving \cup {"pin"} /\ act'[a].pc \notin Leaving \cup {"pin"}
    BY <1>0, <1>2 DEF Leaving
  <2>2. QED BY <1>u, <1>0, <1>1, <2>1, QuietWalk
<1>10. ShardOK'
  <2>1. \A p \in Pumps : act'[p] = act[p] /\ act[p].ctx # c
    BY <1>0, <1>1, <1>3, Roles DEF Moves
  <2>2. \A p \in Pumps : act[p].ctx # None => act[p].ctx \in Ctxs
    BY Roles DEF Types, ActRec, MaybeCtx
  <2>3. \A p \in Pumps : walk[p].todo \subseteq Ctxs /\ walk[p].pinned \subseteq Ctxs
    BY DEF Types, WalkRec
  <2>4. QED BY <1>u, <1>3, <2>1, <2>2, <2>3 DEF ShardOK
<1>11. JobOK'
  <2>1. act[a].pc \in Busy /\ act'[a].pc # "await"
    BY <1>0, <1>2 DEF Busy
  <2>2. QED BY <1>u, <1>0, <1>1, <2>1, QuietJob
<1>12. OneAlive'
  BY <1>u, <1>3, QuietAlive DEF Types
<1>13. Counts'
  <2>1. Held(a) = None /\ Held(a)' = d
    BY <1>0, <1>1, <1>2 DEF Held, Holding
  <2>2. \A b \in Actors : b # a => Held(b)' = Held(b)
    BY <1>1 DEF Held, Moves
  <2>3. \A e \in g_open' : Settled(a, e)
    BY <1>u, <1>3, <2>1, Roles DEF Types, Settled
  <2>4. QED BY <1>u, <1>0, <2>2, <2>3, CountsMove
<1>14. QED BY <1>4, <1>5, <1>7, <1>8, <1>9, <1>10, <1>11, <1>12, <1>13

\* Publishing a snapshot keeps the superseded one for the pumps that walk it.
LEMMA PublishFacts ==
  ASSUME Types, SnapOwners, Published, NEW open \in SUBSET Ctxs, publish_snapshot(open),
         g_open' = open, retired' = retired,
         \A b \in Actors : act'[b].snaps = act[b].snaps /\ (act[b].snaps # {} => act'[b] = act[b])
  PROVE  /\ SnapsLive' \subseteq Snaps /\ entries' \in [SnapsLive' -> SUBSET Ctxs]
         /\ g_snapshot' \in Snaps /\ g_retired' \subseteq Snaps
         /\ Published' /\ SnapOwners'
         /\ \A p \in Pumps, s \in Snaps : SnapKept(p, s) => SnapKept(p, s)'
<1>1. PICK s \in Snaps \ SnapsLive :
        /\ entries' = [t \in SnapsLive \cup {s} |-> IF t = s THEN open ELSE entries[t]]
        /\ g_snapshot' = s
        /\ g_retired' = g_retired \cup Ptr(g_snapshot)
  BY DEF publish_snapshot
<1>2. SnapsLive' = SnapsLive \cup {s} /\ s \in Snaps /\ s \notin SnapsLive /\ s # None
  BY <1>1, Roles DEF SnapsLive
<1>3. SnapsLive \subseteq Snaps /\ \A t \in SnapsLive : entries[t] \in SUBSET Ctxs
  BY DEF Types
<1>4. SnapsLive' \subseteq Snaps /\ entries' \in [SnapsLive' -> SUBSET Ctxs] /\ entries'[s] = open
  BY <1>1, <1>2, <1>3
<1>5. \A x : x \in g_retired' <=> x \in g_retired \/ (x = g_snapshot /\ x # None)
  BY <1>1 DEF Ptr
<1>6. g_snapshot # None => g_snapshot \in SnapsLive
  BY DEF Published
<1>7. g_retired' \subseteq SnapsLive
  BY <1>5, <1>6 DEF SnapOwners
<1>8. Published'
  BY <1>1, <1>2, <1>4 DEF Published
<1>9. SnapOwners'
  <2>1. g_snapshot' \notin g_retired' /\ g_retired' \subseteq SnapsLive'
    BY <1>1, <1>2, <1>7
  <2>2. ASSUME NEW b \in Actors
        PROVE  /\ act'[b].snaps \subseteq SnapsLive' /\ g_snapshot' \notin act'[b].snaps
               /\ act'[b].snaps \cap g_retired' = {}
               /\ act'[b].snaps # {} => act'[b].pc \in {"mark", "free"}
    <3>1. /\ act[b].snaps \subseteq SnapsLive /\ g_snapshot \notin act[b].snaps
          /\ act[b].snaps \cap g_retired = {}
          /\ act[b].snaps # {} => act[b].pc \in {"mark", "free"}
      BY DEF SnapOwners
    <3>2. QED BY <1>1, <1>2, <1>5, <3>1
  <2>3. ASSUME NEW r \in retired'
        PROVE  /\ r.snaps \subseteq SnapsLive' /\ g_snapshot' \notin r.snaps
               /\ r.snaps \cap g_retired' = {}
               /\ \A b \in Actors : act'[b].snaps \cap r.snaps = {}
    <3>1. /\ r.snaps \subseteq SnapsLive /\ g_snapshot \notin r.snaps
          /\ r.snaps \cap g_retired = {}
          /\ \A b \in Actors : act[b].snaps \cap r.snaps = {}
      BY DEF SnapOwners
    <3>2. QED BY <1>1, <1>2, <1>5, <3>1
  <2>4. \A b, e \in Actors : b # e => act'[b].snaps \cap act'[e].snaps = {}
    BY DEF SnapOwners
  <2>5. \A r, q \in retired' : r # q => r.snaps \cap q.snaps = {}
    BY DEF SnapOwners
  <2>6. QED BY <2>1, <2>2, <2>3, <2>4, <2>5 DEF SnapOwners
<1>10. ASSUME NEW p \in Pumps, NEW x \in Snaps, SnapKept(p, x) PROVE SnapKept(p, x)'
  <2>1. x # None
    BY Roles
  <2>2. CASE x = g_snapshot \/ x \in g_retired
    BY <1>5, <2>1, <2>2 DEF SnapKept
  <2>3. CASE \E b \in Actors : x \in act[b].snaps /\ (act[b].pc = "mark" \/ p \in act[b].mark)
    BY <2>3 DEF SnapKept
  <2>4. CASE \E r \in retired : x \in r.snaps /\ p \in r.mark
    BY <2>4 DEF SnapKept
  <2>5. QED BY <1>10, <2>2, <2>3, <2>4 DEF SnapKept
<1>11. QED BY <1>1, <1>2, <1>4, <1>7, <1>8, <1>9, <1>10

\* The opener links its context and publishes the list.
LEMMA Linked ==
  ASSUME IInv, NEW a \in Builders \cup Life, At(a, "link"), NEW c \in Ctxs, c = act[a].ctx,
         find_existing(ctx[c].key) = {}, g_open' = g_open \cup {c}, publish_snapshot(g_open'),
         Opened(a, c), UNCHANGED <<ctx, alloc, oom, leak, g_shard_ctr, retired, jobVars, walk>>
  PROVE  IInv'
<1> USE DEF IInv
<1>u. /\ ctx' = ctx /\ alloc' = alloc /\ oom' = oom /\ leak' = leak /\ retired' = retired
      /\ walk' = walk /\ job' = job /\ queue' = queue /\ g_shard_ctr' = g_shard_ctr
  BY DEF jobVars
<1>0. /\ a \in Actors /\ a \notin Pumps /\ act \in [Actors -> ActRec] /\ c \in MaybeCtx
      /\ act[a].pc = "link" /\ c # None
  BY Openers, Roles DEF Types, At, MaybeCtx
<1>1. /\ act' \in [Actors -> ActRec] /\ Moves(a) /\ act'[a].ctx = c
      /\ act'[a].snaps \in {{}, act[a].snaps}
      /\ a \in Life => act'[a].pc = "done" /\ act'[a].job = act[a].job
      /\ a \in Users => act'[a].pc = "hold"
  BY <1>0, OpenedFacts
<1>2. act'[a].pc \in {"done", "hold"}
  BY <1>0, <1>1, Roles
<1>3. /\ \A p \in Pumps : c \notin walk[p].todo /\ c \notin walk[p].pinned
      /\ c \in alloc /\ c \notin g_open
      /\ \A b \in Actors : b # a => act[b].ctx # c
      /\ \A r \in retired : r.ctx # c
  BY <1>0, NotWalked
<1>4. act[a].snaps = {} /\ act'[a].snaps = {}
  BY <1>0, <1>1 DEF SnapOwners
<1>5. /\ SnapsLive' \subseteq Snaps /\ entries' \in [SnapsLive' -> SUBSET Ctxs]
      /\ g_snapshot' \in Snaps /\ g_retired' \subseteq Snaps
      /\ Published' /\ SnapOwners'
      /\ \A p \in Pumps, s \in Snaps : SnapKept(p, s) => SnapKept(p, s)'
  <2>1. \A b \in Actors : act'[b].snaps = act[b].snaps /\ (act[b].snaps # {} => act'[b] = act[b])
    BY <1>1, <1>4 DEF Moves
  <2>2. g_open' \in SUBSET Ctxs
    BY DEF Types
  <2>3. QED BY <1>u, <2>1, <2>2, PublishFacts
<1>6. Types'
  BY <1>u, <1>1, <1>3, <1>5 DEF Types
<1>7. HeldOK'
  BY <1>u, <1>0, <1>1, <1>2 DEF HeldOK, Moves, Holding, Away, Leaving
<1>8. InHand(a) = c /\ InHand(a)' = None /\ \A b \in Actors : b # a => InHand(b)' = InHand(b)
  BY <1>0, <1>1, <1>2 DEF InHand, Moves, Away, Leaving
<1>9. AwayOK'
  <2>1. \A b \in Actors : InHand(b)' # None => /\ InHand(b)' \in alloc' /\ InHand(b)' \notin g_open'
                                               /\ InHand(b)' = InHand(b)
    BY <1>u, <1>0, <1>8 DEF AwayOK
  <2>2. \A r \in retired' : r.ctx # None => r.ctx \in alloc' /\ r.ctx \notin g_open'
    BY <1>u, <1>3 DEF AwayOK
  <2>3. \A b, e \in Actors : InHand(b)' # None /\ InHand(b)' = InHand(e)' => b = e
    BY <2>1 DEF AwayOK
  <2>4. \A b \in Actors, r \in retired' : InHand(b)' # None => InHand(b)' # r.ctx
    BY <1>u, <2>1 DEF AwayOK
  <2>5. \A r, q \in retired' : r.ctx # None /\ r.ctx = q.ctx => r = q
    BY <1>u DEF AwayOK
  <2>6. \A e \in alloc' \ g_open' : (\E b \in Actors : InHand(b)' = e) \/ (\E r \in retired' : r.ctx = e)
    BY <1>u, <1>8 DEF AwayOK
  <2>7. QED BY <2>1, <2>2, <2>3, <2>4, <2>5, <2>6 DEF AwayOK
<1>10. AwayCounts'
  BY <1>u, <1>1, <1>2 DEF AwayCounts, Moves, Leaving
<1>11. WalkOK'
  <2>1. \A p \in Pumps : act'[p] = act[p]
    BY <1>0, <1>1, Roles DEF Moves
  <2>2. ASSUME NEW p \in Pumps, NEW d, CtxKept(p, d) PROVE CtxKept(p, d)'
    <3>1. \A b \in Actors : act[b].pc \in {"retire", "mark", "wait"} => act'[b] = act[b]
      BY <1>0, <1>1 DEF Moves
    <3>2. QED BY <1>u, <2>2, <3>1 DEF CtxKept
  <2>3. \A p \in Pumps : walk[p].snap # None => walk[p].snap \in Snaps
    BY DEF Types, WalkRec
  <2>4. QED BY <1>u, <1>5, <2>1, <2>2, <2>3 DEF WalkOK
<1>12. ShardOK'
  BY <1>u, <1>0, <1>1, QuietShard
<1>13. JobOK'
  <2>1. act[a].pc \in Busy /\ act'[a].pc # "await"
    BY <1>0, <1>2 DEF Busy
  <2>2. QED BY <1>u, <1>0, <1>1, <2>1, QuietJob
<1>14. OneAlive'
  <2>1. \A d \in g_open : ctx[d].key = ctx[c].key => ctx[d].dead
    BY DEF find_existing
  <2>2. QED BY <1>u, <2>1 DEF OneAlive
<1>15. Counts'
  <2>1. Held(a) = None /\ Held(a)' = c
    BY <1>0, <1>1, <1>2 DEF Held, Holding
  <2>2. \A b \in Actors : b # a => Held(b)' = Held(b)
    BY <1>1 DEF Held, Moves
  <2>3. ASSUME NEW e \in g_open
        PROVE  ctx'[e].refcount = Cardinality(Holders(e)') + Cardinality(Pinners(e)') + leak'[e]
    <3>1. Settled(a, e)
      BY <1>u, <1>3, <2>1, Roles DEF Settled, Types
    <3>2. QED BY <1>u, <1>0, <2>2, <3>1, CountMove
  <2>4. ctx'[c].refcount = Cardinality(Holders(c)') + Cardinality(Pinners(c)') + leak'[c]
    <3>1. \A x : x \notin Holders(c)
      <4>1. \A b \in Actors : Held(b) # c
        BY <1>0, <1>3 DEF Held, HeldOK
      <4>2. \A j \in Jobs : job[j].result # c
        BY <1>0, <1>3 DEF HeldOK
      <4>3. QED BY <4>1, <4>2, HoldersAre
    <3>2. Holders(c) = {}
      BY <3>1
    <3>3. Pinners(c)' = {}
      BY <1>u, <1>3 DEF Pinners
    <3>4. Cardinality(Holders(c)) = 0 /\ Cardinality(Pinners(c)') = 0
      BY <3>2, <3>3, FS_EmptySet
    <3>5. Cardinality(Holders(c)') = 0 + 1
      BY <1>u, <1>0, <2>1, <2>2, <3>4, HoldersMove
    <3>6. ctx'[c].refcount = 1 /\ leak'[c] = 0
      BY <1>u, <1>0, <1>3 DEF AwayCounts, HeldOK
    <3>7. QED BY <3>4, <3>5, <3>6
  <2>5. QED BY <2>3, <2>4 DEF Counts
<1>16. QED BY <1>5, <1>6, <1>7, <1>9, <1>10, <1>11, <1>12, <1>13, <1>14, <1>15

\* A pass of link_ctx.
LEMMA LinkStep ==
  ASSUME IInv, NEW a \in Builders \cup Life, link_ctx(a)
  PROVE  IInv'
<1> DEFINE c == act[a].ctx
           dups == find_existing(ctx[c].key)
           need == Cardinality(g_open) + 1
<1>0. /\ a \in Actors /\ At(a, "link") /\ c \in Ctxs /\ ctx \in [Ctxs -> CtxRec] /\ oom \in Nat
      /\ UNCHANGED <<leak, g_shard_ctr, retired, jobVars, walk>>
  <2>1. a \in Actors /\ act[a].ctx \in MaybeCtx
    BY Openers DEF IInv, Types, ActRec
  <2>2. act[a].ctx # None
    BY <2>1 DEF IInv, HeldOK, link_ctx, At, Away, Holding, Leaving
  <2>3. QED BY <2>1, <2>2 DEF IInv, Types, link_ctx, MaybeCtx
<1>f. FreeCtx \in CtxRec
  BY DEF FreeCtx, CtxRec
<1>1. CASE dups # {}
  <2>1. PICK d \in dups : /\ ctx' = [ctx EXCEPT ![d].refcount = @ + 1, ![c] = FreeCtx]
                          /\ Opened(a, d)
    BY <1>1 DEF link_ctx
  <2>2. alloc' = alloc \ {c} /\ UNCHANGED <<g_open, snapVars, oom>>
    BY <1>1 DEF link_ctx
  <2>3. d \in g_open /\ d \in Ctxs /\ d # None /\ c \notin g_open /\ d # c
    <3>1. d \in g_open
      BY DEF find_existing
    <3>2. c \notin g_open
      BY <1>0, NotWalked, Roles DEF At
    <3>3. QED BY <3>1, <3>2, Roles DEF IInv, Types
  <2> DEFINE m == [ctx[d] EXCEPT !.refcount = @ + 1]
  <2>4. /\ m \in CtxRec /\ m.refcount = ctx[d].refcount + 1
        /\ m.key = ctx[d].key /\ m.dead = ctx[d].dead /\ m.pump_shard = ctx[d].pump_shard
    BY <1>0, <2>3 DEF CtxRec
  <2>5. ctx' = [[ctx EXCEPT ![d] = m] EXCEPT ![c] = FreeCtx]
    BY <2>1
  <2> HIDE DEF m, c, dups
  <2>6. /\ ctx' \in [Ctxs -> CtxRec] /\ ctx'[d] = m
        /\ \A e \in Ctxs : e # c /\ e # d => ctx'[e] = ctx[e]
    BY <1>0, <1>f, <2>3, <2>4, <2>5
  <2>7. QED
    BY <1>0, <2>1, <2>2, <2>3, <2>4, <2>6, Unbuild DEF c
<1>2. CASE dups = {} /\ act[a].cap >= need
  <2>1. /\ g_open' = g_open \cup {c} /\ publish_snapshot(g_open') /\ Opened(a, c)
        /\ UNCHANGED <<ctx, alloc, oom>>
    BY <1>2 DEF link_ctx
  <2>2. QED BY <1>0, <1>2, <2>1, Linked
<1>3. CASE dups = {} /\ ~(act[a].cap >= need)
  <2>1. \/ /\ act' = [act EXCEPT ![a].cap = need + SNAPSHOT_SLACK]
           /\ UNCHANGED <<ctx, alloc, g_open, snapVars, oom>>
        \/ /\ Oom /\ free_ctx_resources(c) /\ Opened(a, None)
           /\ UNCHANGED <<g_open, snapVars>>
    BY <1>3 DEF link_ctx
  <2>2. CASE /\ act' = [act EXCEPT ![a].cap = need + SNAPSHOT_SLACK]
             /\ UNCHANGED <<ctx, alloc, g_open, snapVars, oom>>
    <3>1. need + SNAPSHOT_SLACK \in Nat
      BY OpenFinite DEF IInv
    <3>2. QED BY <1>0, <2>2, <3>1, CapStep DEF At, jobVars
  <2>3. CASE /\ Oom /\ free_ctx_resources(c) /\ Opened(a, None)
             /\ UNCHANGED <<g_open, snapVars>>
    <3>1. /\ alloc' = alloc \ {c} /\ ctx' = [ctx EXCEPT ![c] = FreeCtx] /\ oom' \in Nat
      BY <1>0, <2>3 DEF free_ctx_resources, Oom
    <3>2. ctx' \in [Ctxs -> CtxRec] /\ \A e \in Ctxs : e # c => ctx'[e] = ctx[e]
      BY <1>0, <1>f, <3>1, Update
    <3>3. QED BY <1>0, <2>3, <3>1, <3>2, Unbuild
  <2>4. QED BY <2>1, <2>2, <2>3
<1>4. QED BY <1>1, <1>2, <1>3

-----------------------------------------------------------------------------
(* Dropping a reference.                                                   *)

\* An actor with a reference comes to rest without it; the count follows, or
\* the reference is leaked.
LEMMA DropRef ==
  ASSUME IInv, NEW a \in Actors, NEW c \in Ctxs, Held(a) = c, Return(a),
         ctx' \in [Ctxs -> CtxRec], leak' \in [Ctxs -> Nat],
         \A e \in Ctxs : /\ ctx'[e].key = ctx[e].key /\ ctx'[e].dead = ctx[e].dead
                         /\ ctx'[e].pump_shard = ctx[e].pump_shard,
         \A e \in Ctxs : e # c => ctx'[e].refcount = ctx[e].refcount /\ leak'[e] = leak[e],
         \/ ctx'[c].refcount = ctx[c].refcount - 1 /\ leak'[c] = leak[c]
         \/ ctx'[c].refcount = ctx[c].refcount /\ leak'[c] = leak[c] + 1,
         UNCHANGED <<alloc, g_open, g_shard_ctr, snapVars, retired, jobVars, walk>>, oom' \in Nat
  PROVE  IInv'
<1> USE DEF IInv
<1>u. /\ alloc' = alloc /\ g_open' = g_open /\ entries' = entries /\ g_snapshot' = g_snapshot
      /\ g_retired' = g_retired /\ retired' = retired /\ walk' = walk
      /\ job' = job /\ queue' = queue /\ g_shard_ctr' = g_shard_ctr
  BY DEF snapVars, jobVars
<1>0. /\ act' \in [Actors -> ActRec] /\ Moves(a) /\ act'[a].pc \in {"idle", "reap", "release"}
      /\ act'[a].ctx = None /\ act'[a].snaps = {} /\ c # None
  BY ReturnFacts, RestFacts, Roles DEF Types
<1>1. act[a].pc \in Holding /\ act[a].ctx = c /\ c \in g_open
  BY <1>0 DEF Held, HeldOK
<1>2. Types'
  BY <1>u, <1>0 DEF Types, SnapsLive
<1>3. HeldOK'
  BY <1>u, <1>0, <1>1 DEF HeldOK, Moves, Holding, Away, Leaving
<1>4. AwayOK' /\ AwayCounts'
  <2>1. act[a].pc \notin Away /\ act'[a].pc \notin Away
    BY <1>0, <1>1 DEF Away, Leaving, Holding
  <2>2. \A e \in alloc : e \notin g_open => ctx'[e].refcount = ctx[e].refcount
    BY <1>1 DEF Types
  <2>3. QED BY <1>u, <1>0, <2>1, <2>2, QuietAway
<1>5. SnapOwners' /\ Published' /\ WalkOK'
  <2>1. act[a].pc \notin Leaving \cup {"pin"} /\ act'[a].pc \notin Leaving \cup {"pin"}
    BY <1>0, <1>1 DEF Leaving, Holding
  <2>2. QED BY <1>u, <1>0, <2>1, QuietWalk
<1>6. ShardOK'
  <2>1. ASSUME NEW p \in Pumps, act'[p].ctx # None PROVE act'[p] = act[p] /\ act[p].ctx \in Ctxs
    BY <1>0, <2>1, Roles DEF Moves, Types, ActRec, MaybeCtx
  <2>2. \A p \in Pumps : walk[p].todo \subseteq Ctxs /\ walk[p].pinned \subseteq Ctxs
    BY DEF Types, WalkRec
  <2>3. QED BY <1>u, <2>1, <2>2 DEF ShardOK
<1>7. JobOK'
  BY <1>u, <1>0, QuietJob DEF Busy
<1>8. OneAlive'
  BY <1>u, QuietAlive DEF Types
<1>9. Counts'
  <2>1. Held(a)' = None
    BY <1>0 DEF Held
  <2>2. \A b \in Actors : b # a => Held(b)' = Held(b)
    BY <1>0 DEF Held, Moves
  <2>3. \A e \in g_open' : Settled(a, e)
    BY <1>u, <1>0, <2>1, Roles DEF Types, Settled
  <2>4. QED BY <1>u, <2>2, <2>3, CountsMove
<1>10. QED BY <1>2, <1>3, <1>4, <1>5, <1>6, <1>7, <1>8, <1>9

\* The same with the count taken down.
LEMMA DropDec ==
  ASSUME IInv, NEW a \in Actors, act[a].pc \in Holding \ {"done"}, Dec(act[a].ctx), Return(a),
         UNCHANGED <<alloc, g_open, leak, g_shard_ctr, snapVars, retired, jobVars, walk, oom>>
  PROVE  IInv'
<1>0. act[a].ctx \in Ctxs /\ Held(a) = act[a].ctx
  BY DEF IInv, HeldOK, Held, Types, ActRec, MaybeCtx, Holding, Away, Leaving
<1>1. ctx[act[a].ctx].refcount # 0 /\ Types /\ leak \in [Ctxs -> Nat] /\ oom \in Nat
  BY <1>0, HeldCounts DEF IInv, Types
<1>2. /\ ctx' \in [Ctxs -> CtxRec]
      /\ \A d \in Ctxs : d # act[a].ctx => ctx'[d] = ctx[d]
      /\ \A d \in Ctxs : /\ ctx'[d].key = ctx[d].key /\ ctx'[d].dead = ctx[d].dead
                         /\ ctx'[d].pump_shard = ctx[d].pump_shard
      /\ ctx'[act[a].ctx].refcount = ctx[act[a].ctx].refcount - 1
  BY <1>0, <1>1, DecFacts
<1>3. QED BY <1>0, <1>1, <1>2, DropRef

\* An actor moves on with the reference it is about to drop.
LEMMA Onwards ==
  ASSUME IInv, NEW a \in Actors, act[a].pc \in {"hold", "slow"},
         NEW n \in ActRec, n.pc \in {"slow", "sub", "last"}, n.ctx = act[a].ctx,
         n.snaps \in {{}, act[a].snaps}, act' = [act EXCEPT ![a] = n],
         UNCHANGED <<ctx, alloc, g_open, leak, g_shard_ctr, snapVars, retired, jobVars, walk, oom>>
  PROVE  IInv'
<1>0. /\ act \in [Actors -> ActRec] /\ job' = job /\ queue' = queue
      /\ g_shard_ctr \in Pumps /\ oom \in Nat /\ job \in [Jobs -> JobRec] /\ queue \in Seq(Jobs)
  BY DEF IInv, Types, jobVars
<1>1. act'[a] = n /\ Moves(a) /\ act' \in [Actors -> ActRec]
  BY <1>0, Update DEF Moves
<1>2. JobOK'
  BY <1>0, <1>1, QuietJob DEF IInv, Busy
<1>3. act[a].ctx # None
  BY DEF IInv, HeldOK, Holding, Away, Leaving
<1>4. /\ act[a].pc \notin Leaving \cup {"pin"} /\ act'[a].pc \notin Leaving \cup {"pin"}
      /\ act[a].pc # "link" /\ act'[a].pc # "link"
      /\ act[a].pc \in Holding /\ act'[a].pc \in Holding
  BY <1>1 DEF Leaving, Holding
<1>5. QED BY <1>0, <1>1, <1>2, <1>3, <1>4, QuietStep

\* The start of a close: at once, or on to the lock.
LEMMA CloseStep ==
  ASSUME IInv, NEW a \in Actors, capture_close(a)
  PROVE  IInv'
<1>0. /\ At(a, "hold") /\ UnrefFast(a, act[a].ctx)
      /\ UNCHANGED <<alloc, g_open, leak, g_shard_ctr, snapVars, retired, jobVars, walk, oom>>
  BY DEF capture_close
<1>1. CASE ctx[act[a].ctx].refcount > 1
  <2>1. Dec(act[a].ctx) /\ Return(a)
    BY <1>0, <1>1 DEF UnrefFast
  <2>2. act[a].pc \in Holding \ {"done"}
    BY <1>0 DEF At, Holding
  <2>3. QED BY <1>0, <2>1, <2>2, DropDec
<1>2. CASE ~(ctx[act[a].ctx].refcount > 1)
  <2> DEFINE n == [Rest(a) EXCEPT !.pc = "slow", !.ctx = act[a].ctx]
  <2>1. act' = [act EXCEPT ![a] = n] /\ ctx' = ctx
    BY <1>0, <1>2 DEF UnrefFast
  <2>2. n \in ActRec /\ n.pc = "slow" /\ n.ctx = act[a].ctx /\ n.snaps = {}
    BY RestFacts DEF IInv, Types, ActRec, Pcs
  <2> HIDE DEF n
  <2>3. QED BY <1>0, <2>1, <2>2, Onwards DEF At
<1>3. QED BY <1>1, <1>2

\* The decision under the lock.
LEMMA UnrefCheckStep ==
  ASSUME IInv, NEW a \in Actors, UnrefCheck(a)
  PROVE  IInv'
<1> DEFINE need == Cardinality(g_open)
           c == act[a].ctx
<1>0. /\ At(a, "slow") /\ act[a].pc = "slow" /\ act[a] \in ActRec
      /\ UNCHANGED <<ctx, alloc, g_open, g_shard_ctr, snapVars, retired, jobVars, walk>>
  BY DEF UnrefCheck, At, IInv, Types
<1>1. ASSUME NEW q \in {"sub", "last"}, act' = [act EXCEPT ![a].pc = q], UNCHANGED <<leak, oom>>
      PROVE  IInv'
  <2> DEFINE n == [act[a] EXCEPT !.pc = q]
  <2>1. act' = [act EXCEPT ![a] = n]
    BY <1>1
  <2>2. n \in ActRec /\ n.pc = q /\ n.ctx = act[a].ctx /\ n.snaps = act[a].snaps
    BY <1>0 DEF ActRec, Pcs
  <2> HIDE DEF n
  <2>3. UNCHANGED <<leak, oom>>
    BY <1>1
  <2>4. QED BY <1>0, <2>1, <2>2, <2>3, Onwards
<1>2. CASE ctx[c].refcount > 1
  BY <1>1, <1>2 DEF UnrefCheck
<1>3. CASE ctx[c].refcount <= 1 /\ act[a].cap >= need
  <2>1. ~(ctx[c].refcount > 1)
    <3>1. c \in Ctxs
      BY <1>0 DEF IInv, HeldOK, Types, ActRec, MaybeCtx, Holding, Away, Leaving
    <3>2. ctx[c].refcount \in Nat
      BY <3>1 DEF IInv, Types, CtxRec
    <3>3. QED BY <1>3, <3>2
  <2>2. act' = [act EXCEPT ![a].pc = "last"] /\ UNCHANGED <<leak, oom>>
    BY <1>3, <2>1 DEF UnrefCheck
  <2>3. QED BY <1>1, <2>2
<1>4. CASE ~(ctx[c].refcount > 1) /\ ~(ctx[c].refcount <= 1 /\ act[a].cap >= need)
  <2>1. \/ act' = [act EXCEPT ![a].cap = need + SNAPSHOT_SLACK] /\ UNCHANGED <<leak, oom>>
        \/ Oom /\ Return(a) /\ leak' = [leak EXCEPT ![c] = @ + 1]
    BY <1>4 DEF UnrefCheck
  <2>2. CASE act' = [act EXCEPT ![a].cap = need + SNAPSHOT_SLACK] /\ UNCHANGED <<leak, oom>>
    <3>1. need + SNAPSHOT_SLACK \in Nat
      BY OpenFinite DEF IInv
    <3>2. QED BY <1>0, <2>2, <3>1, CapStep DEF jobVars
  <2>3. CASE Oom /\ Return(a) /\ leak' = [leak EXCEPT ![c] = @ + 1]
    <3>1. c \in Ctxs /\ Held(a) = c
      BY <1>0 DEF IInv, HeldOK, Held, Types, ActRec, MaybeCtx, Holding, Away, Leaving
    <3>a. leak \in [Ctxs -> Nat] /\ ctx' = ctx /\ ctx' \in [Ctxs -> CtxRec]
      BY <1>0 DEF IInv, Types
    <3>b. oom' \in Nat
      BY <2>3 DEF IInv, Types, Oom
    <3>2. leak' \in [Ctxs -> Nat] /\ leak'[c] = leak[c] + 1 /\ \A e \in Ctxs : e # c => leak'[e] = leak[e]
      BY <2>3, <3>1, <3>a
    <3> HIDE DEF c
    <3>3. QED BY <1>0, <2>3, <3>1, <3>a, <3>b, <3>2, DropRef
  <2>4. QED BY <2>1, <2>2, <2>3
<1>5. QED BY <1>2, <1>3, <1>4

\* The count was seen above 1.
LEMMA UnrefSubStep ==
  ASSUME IInv, NEW a \in Actors, UnrefSub(a)
  PROVE  IInv'
BY DropDec DEF UnrefSub, At, Holding

\* The last reference: unlinked, with nobody left to refer to the context.
LEMMA Unlinked ==
  ASSUME IInv, NEW a \in Actors, act[a].pc = "last", NEW c \in Ctxs, c = act[a].ctx,
         ctx[c].refcount = 1, Dec(c), g_open' = g_open \ {c}, publish_snapshot(g_open'),
         NEW n \in ActRec, n.pc = "retire", n.ctx = c, n.snaps = act[a].snaps,
         act' = [act EXCEPT ![a] = n],
         UNCHANGED <<alloc, leak, g_shard_ctr, retired, jobVars, walk, oom>>
  PROVE  IInv'
<1> USE DEF IInv
<1>u. /\ alloc' = alloc /\ oom' = oom /\ leak' = leak /\ retired' = retired
      /\ walk' = walk /\ job' = job /\ queue' = queue /\ g_shard_ctr' = g_shard_ctr
  BY DEF jobVars
<1>0. /\ act \in [Actors -> ActRec] /\ c # None /\ Held(a) = c /\ c \in g_open /\ c \in alloc
  BY Roles DEF Types, Held, HeldOK, Holding
<1>1. act'[a] = n /\ Moves(a) /\ act' \in [Actors -> ActRec]
  BY <1>0, Update DEF Moves
<1>2. /\ ctx' \in [Ctxs -> CtxRec] /\ ctx'[c].refcount = 0
      /\ \A d \in Ctxs : d # c => ctx'[d] = ctx[d]
      /\ \A d \in Ctxs : /\ ctx'[d].key = ctx[d].key /\ ctx'[d].dead = ctx[d].dead
                         /\ ctx'[d].pump_shard = ctx[d].pump_shard
  BY DecFacts
<1>3. /\ \A b \in Actors : b # a => Held(b) # c
      /\ \A j \in Jobs : job[j].result # c
      /\ \A p \in Pumps : c \notin walk[p].pinned
      /\ leak[c] = 0
  <2> DEFINE S == Holders(c) \ {a}
  <2>1. a \in Holders(c)
    BY <1>0, HoldersAre
  <2>2. IsFiniteSet(S) /\ Cardinality(S) = Cardinality(Holders(c)) - 1
    BY <2>1, FiniteRefs, FS_RemoveElement
  <2>3. 1 = Cardinality(Holders(c)) + Cardinality(Pinners(c)) + leak[c]
    BY <1>0 DEF Counts
  <2>4. /\ Cardinality(S) \in Nat /\ leak[c] \in Nat
        /\ Cardinality(Holders(c)) \in Nat /\ Cardinality(Pinners(c)) \in Nat
    BY <2>2, FiniteRefs, FS_CardinalityType DEF Types
  <2>5. Cardinality(S) = 0 /\ Cardinality(Pinners(c)) = 0 /\ leak[c] = 0
    <3> HIDE DEF S
    <3>1. QED BY <2>2, <2>3, <2>4
  <2>6. S = {} /\ Pinners(c) = {}
    <3> HIDE DEF S
    <3>1. QED BY <2>2, <2>5, FiniteRefs, FS_EmptySet
  <2>7. \A x : x \in Holders(c) => x = a
    BY <2>6
  <2>8. \A p : p \notin Pinners(c)
    BY <2>6
  <2>9. QED BY <2>5, <2>7, <2>8, HoldersAre, Roles
<1>4. act[a].snaps = {} /\ act'[a].snaps = {}
  BY <1>1 DEF SnapOwners
<1>5. /\ SnapsLive' \subseteq Snaps /\ entries' \in [SnapsLive' -> SUBSET Ctxs]
      /\ g_snapshot' \in Snaps /\ g_retired' \subseteq Snaps
      /\ Published' /\ SnapOwners'
      /\ \A p \in Pumps, s \in Snaps : SnapKept(p, s) => SnapKept(p, s)'
  <2>1. \A b \in Actors : act'[b].snaps = act[b].snaps /\ (act[b].snaps # {} => act'[b] = act[b])
    BY <1>1, <1>4 DEF Moves
  <2>2. g_open' \in SUBSET Ctxs
    BY DEF Types
  <2>3. QED BY <1>u, <2>1, <2>2, PublishFacts
<1>6. Types'
  BY <1>u, <1>1, <1>2, <1>5 DEF Types
<1>7. HeldOK'
  <2>1. \A b \in Actors : act'[b].pc \in Holding /\ act'[b].ctx # None => act'[b].ctx \in g_open'
    BY <1>1, <1>3 DEF HeldOK, Moves, Holding, Held
  <2>2. \A b \in Actors : act'[b].pc \in (Holding \cup Away) \ {"done", "mark"} => act'[b].ctx # None
    BY <1>0, <1>1 DEF HeldOK, Moves
  <2>3. \A b \in Actors : act'[b].pc \notin Holding \cup Away => act'[b].ctx = None
    BY <1>1 DEF HeldOK, Moves, Away, Leaving
  <2>4. QED BY <1>u, <1>3, <2>1, <2>2, <2>3 DEF HeldOK
<1>8. InHand(a) = None /\ InHand(a)' = c /\ \A b \in Actors : b # a => InHand(b)' = InHand(b)
  BY <1>1 DEF InHand, Moves, Away, Leaving
<1>9. \A b \in Actors : InHand(b) # c
  BY <1>0 DEF AwayOK
<1>10. AwayOK'
  <2>1. \A b \in Actors : InHand(b)' # None => InHand(b)' \in alloc' /\ InHand(b)' \notin g_open'
    BY <1>u, <1>0, <1>8 DEF AwayOK
  <2>2. \A r \in retired' : r.ctx # None => r.ctx \in alloc' /\ r.ctx \notin g_open' /\ r.ctx # c
    BY <1>u, <1>0 DEF AwayOK
  <2>3. \A b, d \in Actors : InHand(b)' # None /\ InHand(b)' = InHand(d)' => b = d
    BY <1>8, <1>9 DEF AwayOK
  <2>4. \A b \in Actors, r \in retired' : InHand(b)' # None => InHand(b)' # r.ctx
    BY <1>u, <1>0, <1>8, <2>2 DEF AwayOK
  <2>5. \A r, q \in retired' : r.ctx # None /\ r.ctx = q.ctx => r = q
    BY <1>u DEF AwayOK
  <2>6. ASSUME NEW d \in alloc' \ g_open'
        PROVE  (\E b \in Actors : InHand(b)' = d) \/ (\E r \in retired' : r.ctx = d)
    <3>1. CASE d = c
      BY <1>0, <1>8, <3>1
    <3>2. CASE d # c
      <4>1. d \in alloc \ g_open
        BY <1>u, <3>2
      <4>2. (\E b \in Actors : InHand(b) = d) \/ (\E r \in retired : r.ctx = d)
        BY <4>1 DEF AwayOK
      <4>3. d # None
        BY <4>1, Roles DEF Types
      <4>4. QED BY <1>u, <1>8, <4>2, <4>3
    <3>3. QED BY <3>1, <3>2
  <2>7. QED BY <2>1, <2>2, <2>3, <2>4, <2>5, <2>6 DEF AwayOK
<1>11. AwayCounts'
  <2>1. \A d \in alloc \ g_open : ctx'[d] = ctx[d]
    BY <1>0, <1>2 DEF Types
  <2>2. \A b \in Actors : act[b].pc \in Away /\ act[b].ctx # None => act[b].ctx \in alloc \ g_open
    BY DEF AwayOK, InHand
  <2>3. \A b \in Actors : act'[b].pc = "link" => ctx'[act'[b].ctx].refcount = 1
    <3>1. ASSUME NEW b \in Actors, b # a, act[b].pc = "link" PROVE ctx'[act[b].ctx].refcount = 1
      <4>1. act[b].ctx \in alloc \ g_open
        BY <2>2, <3>1 DEF HeldOK, Away
      <4>2. QED BY <2>1, <3>1, <4>1 DEF AwayCounts
    <3>2. QED BY <1>1, <3>1 DEF Moves
  <2>4. ASSUME NEW b \in Actors, act'[b].pc \in Leaving, act'[b].ctx # None
        PROVE  ctx'[act'[b].ctx].refcount = 0
    <3>1. CASE b = a
      BY <1>1, <1>2, <3>1
    <3>2. CASE b # a
      BY <1>1, <2>1, <2>2, <2>4, <3>2 DEF AwayCounts, Moves, Away
    <3>3. QED BY <3>1, <3>2
  <2>5. \A r \in retired' : r.ctx # None => ctx'[r.ctx].refcount = 0
    BY <1>u, <2>1 DEF AwayCounts, AwayOK
  <2>6. QED BY <2>3, <2>4, <2>5 DEF AwayCounts
<1>12. WalkOK'
  <2>1. \A p \in Pumps : act'[p].pc # "pin" => act[p].pc # "pin"
    BY <1>1, Roles DEF Moves
  <2>2. ASSUME NEW p \in Pumps, NEW d, CtxKept(p, d) PROVE CtxKept(p, d)'
    <3>1. \A b \in Actors : act[b].pc \in {"retire", "mark", "wait"} => act'[b] = act[b]
      BY <1>1 DEF Moves
    <3>2. CASE d = c
      BY <1>1, <3>2 DEF CtxKept
    <3>3. CASE d # c
      BY <1>u, <2>2, <3>1, <3>3 DEF CtxKept
    <3>4. QED BY <3>2, <3>3
  <2>3. \A p \in Pumps : walk[p].snap # None => walk[p].snap \in Snaps
    BY DEF Types, WalkRec
  <2>4. QED BY <1>u, <1>5, <2>1, <2>2, <2>3 DEF WalkOK
<1>13. ShardOK'
  <2>1. ASSUME NEW p \in Pumps, act'[p].pc \in Holding \cup Away, act'[p].ctx # None
        PROVE  ctx'[act'[p].ctx].pump_shard = p
    <3>1. CASE p = a
      BY <1>0, <1>1, <1>2, <3>1, Roles DEF ShardOK, Holding
    <3>2. CASE p # a
      <4>1. act'[p] = act[p] /\ act[p].ctx \in Ctxs
        BY <1>1, <2>1, <3>2, Roles DEF Moves, Types, ActRec, MaybeCtx
      <4>2. QED BY <1>2, <2>1, <4>1 DEF ShardOK
    <3>3. QED BY <3>1, <3>2
  <2>2. \A p \in Pumps : walk[p].todo \subseteq Ctxs /\ walk[p].pinned \subseteq Ctxs
    BY DEF Types, WalkRec
  <2>3. QED BY <1>u, <1>2, <2>1, <2>2 DEF ShardOK
<1>14. JobOK'
  BY <1>u, <1>1, QuietJob DEF Busy
<1>15. OneAlive'
  BY <1>2, QuietAlive DEF Types
<1>16. Counts'
  <2>1. Held(a)' = None /\ \A b \in Actors : b # a => Held(b)' = Held(b)
    BY <1>1 DEF Held, Moves, Holding
  <2>2. \A e \in g_open' : Settled(a, e)
    BY <1>u, <1>0, <1>2, <2>1, Roles DEF Types, Settled
  <2>3. QED BY <1>u, <2>1, <2>2, CountsMove
<1>17. QED BY <1>5, <1>6, <1>7, <1>10, <1>11, <1>12, <1>13, <1>14, <1>15, <1>16

\* The last reference, unless a pump took another one.
LEMMA UnrefLastStep ==
  ASSUME IInv, NEW a \in Actors, UnrefLast(a)
  PROVE  IInv'
<1>0. act[a].pc = "last" /\ act[a] \in ActRec /\ Dec(act[a].ctx)
  BY DEF UnrefLast, At, IInv, Types
<1>1. CASE ctx[act[a].ctx].refcount # 1
  BY <1>0, <1>1, DropDec DEF UnrefLast, Holding
<1>2. CASE ctx[act[a].ctx].refcount = 1
  <2> DEFINE n == [act[a] EXCEPT !.pc = "retire", !.cap = 0]
  <2>1. /\ g_open' = g_open \ {act[a].ctx} /\ publish_snapshot(g_open')
        /\ act' = [act EXCEPT ![a] = n]
        /\ UNCHANGED <<alloc, leak, g_shard_ctr, retired, jobVars, walk, oom>>
    BY <1>2 DEF UnrefLast
  <2>2. n \in ActRec /\ n.pc = "retire" /\ n.ctx = act[a].ctx /\ n.snaps = act[a].snaps
    BY <1>0 DEF ActRec, Pcs
  <2>3. act[a].ctx \in Ctxs
    BY <1>0 DEF IInv, HeldOK, ActRec, MaybeCtx, Holding, Away, Leaving
  <2> HIDE DEF n
  <2>4. QED BY <1>0, <1>2, <2>1, <2>2, <2>3, Unlinked
<1>3. QED BY <1>1, <1>2

-----------------------------------------------------------------------------
(* Retiring and freeing.                                                   *)

\* What a step of an actor that retires or frees leaves alone.
LEMMA LeavingFrame ==
  ASSUME IInv, NEW a \in Actors, Moves(a), act' \in [Actors -> ActRec],
         UNCHANGED <<ctx, alloc, g_open, leak, g_shard_ctr, entries, g_snapshot, jobVars, walk>>,
         oom' \in Nat, g_retired' \subseteq Snaps, retired' \subseteq RetRec,
         act[a].pc \in Leaving \cup {"snaps"},
         act'[a].pc \in Leaving \cup {"idle", "reap", "release", "loop"},
         act'[a].ctx \in {act[a].ctx, None},
         act'[a].pc \notin Leaving => act'[a].ctx = None,
         act'[a].pc \in Leaving \ {"mark"} => act'[a].ctx # None
  PROVE  Types' /\ HeldOK' /\ Counts' /\ JobOK' /\ OneAlive' /\ ShardOK' /\ Published'
<1> USE DEF IInv
<1>u. /\ ctx' = ctx /\ alloc' = alloc /\ g_open' = g_open /\ leak' = leak
      /\ entries' = entries /\ g_snapshot' = g_snapshot /\ g_shard_ctr' = g_shard_ctr
      /\ walk' = walk /\ job' = job /\ queue' = queue
  BY DEF jobVars
<1>1. Types'
  BY <1>u DEF Types, SnapsLive
<1>2. act[a].pc \notin Holding /\ act'[a].pc \notin Holding
  BY DEF Holding, Leaving
<1>3. HeldOK'
  <2>1. \A b \in Actors : act'[b].pc \in Holding /\ act'[b].ctx # None => act'[b].ctx \in g_open
    BY <1>2 DEF HeldOK, Moves
  <2>2. \A b \in Actors : act'[b].pc \in (Holding \cup Away) \ {"done", "mark"} => act'[b].ctx # None
    BY <1>2 DEF HeldOK, Moves, Away
  <2>3. \A b \in Actors : act'[b].pc \notin Holding \cup Away => act'[b].ctx = None
    BY <1>2 DEF HeldOK, Moves, Away
  <2>4. QED BY <1>u, <2>1, <2>2, <2>3 DEF HeldOK
<1>4. Counts'
  <2>1. Held(a) = None /\ Held(a)' = None /\ \A b \in Actors : Held(b)' = Held(b)
    BY <1>2 DEF Held, Moves
  <2>2. \A c \in g_open' : Settled(a, c)
    BY <1>u, <2>1 DEF Settled
  <2>3. QED BY <1>u, <2>1, <2>2, CountsMove
<1>5. JobOK'
  <2>1. act'[a].pc \notin Busy /\ act'[a].pc # "await"
    BY DEF Busy, Leaving
  <2>2. QED BY <1>u, <2>1, QuietJob
<1>6. OneAlive'
  BY <1>u, QuietAlive
<1>7. ShardOK'
  <2>1. ASSUME NEW p \in Pumps, act'[p].ctx # None
        PROVE  act'[p].ctx = act[p].ctx /\ act[p].pc \in Holding \cup Away
    BY <2>1, Roles DEF Moves, HeldOK
  <2>2. QED BY <1>u, <2>1 DEF ShardOK
<1>8. Published'
  BY <1>u DEF Published, SnapsLive
<1>9. QED BY <1>1, <1>3, <1>4, <1>5, <1>6, <1>7, <1>8

\* Contexts are kept when nothing that kept one lets go of it.
LEMMA KeptStill ==
  ASSUME WalkOK, walk' = walk, NEW a \in Actors, Moves(a),
         act[a].pc # "pin", act'[a].pc # "pin",
         \A p \in Pumps : \A c \in walk[p].todo : CtxKept(p, c) => CtxKept(p, c)',
         \A p \in Pumps : walk[p].snap # None /\ SnapKept(p, walk[p].snap) => SnapKept(p, walk[p].snap)'
  PROVE  WalkOK'
<1>1. \A p \in Pumps : act'[p].pc # "pin" => act[p].pc # "pin"
  BY Roles DEF Moves
<1>2. QED BY <1>1 DEF WalkOK

\* An actor takes the superseded snapshots along.
LEMMA TakeSnaps ==
  ASSUME IInv, NEW a \in Actors, act[a].pc \in {"retire", "snaps"},
         NEW n \in ActRec, n.pc = "mark", n.ctx = act[a].ctx, n.snaps = g_retired,
         act' = [act EXCEPT ![a] = n], g_retired' = {},
         UNCHANGED <<ctxVars, entries, g_snapshot, retired, jobVars, walk, oom>>
  PROVE  IInv'
<1> USE DEF IInv
<1>0. act \in [Actors -> ActRec] /\ oom' \in Nat /\ retired \subseteq RetRec
      /\ alloc' = alloc /\ g_open' = g_open /\ retired' = retired /\ ctx' = ctx /\ leak' = leak
      /\ g_shard_ctr' = g_shard_ctr /\ entries' = entries /\ g_snapshot' = g_snapshot /\ walk' = walk
  BY DEF Types, ctxVars
<1>1. act'[a] = n /\ Moves(a) /\ act' \in [Actors -> ActRec]
  BY <1>0, Update DEF Moves
<1>2. act[a].snaps = {}
  BY DEF SnapOwners
<1>3. Types' /\ HeldOK' /\ Counts' /\ JobOK' /\ OneAlive' /\ ShardOK' /\ Published'
  <2>1. act[a].pc \in Leaving \cup {"snaps"} /\ act'[a].pc = "mark" /\ "mark" \in Leaving
    BY <1>1 DEF Leaving
  <2>2. QED BY <1>0, <1>1, <2>1, LeavingFrame
<1>4. AwayOK' /\ AwayCounts'
  <2>1. \/ act[a].pc \in Leaving /\ act'[a].pc \in Leaving /\ act'[a].ctx = act[a].ctx
        \/ act[a].ctx = None /\ act'[a].ctx = None /\ act'[a].pc # "link"
    BY <1>1 DEF Leaving, HeldOK, Holding, Away
  <2>2. QED BY <1>0, <1>1, <2>1, QuietAway
<1>5. SnapOwners'
  <2>1. ASSUME NEW b \in Actors
        PROVE  /\ act'[b].snaps \subseteq SnapsLive /\ g_snapshot \notin act'[b].snaps
               /\ act'[b].snaps # {} => act'[b].pc \in {"mark", "free"}
               /\ \A r \in retired : act'[b].snaps \cap r.snaps = {}
    <3>1. CASE b = a
      BY <1>1, <3>1 DEF SnapOwners
    <3>2. CASE b # a
      BY <1>1, <3>2 DEF SnapOwners, Moves
    <3>3. QED BY <3>1, <3>2
  <2>2. \A b, e \in Actors : b # e => act'[b].snaps \cap act'[e].snaps = {}
    <3>1. \A b \in Actors : b # a => act'[b].snaps \cap act'[a].snaps = {}
      BY <1>1 DEF SnapOwners, Moves
    <3>2. \A b, e \in Actors : b # a /\ e # a /\ b # e => act'[b].snaps \cap act'[e].snaps = {}
      BY <1>1 DEF SnapOwners, Moves
    <3>3. QED BY <3>1, <3>2
  <2>3. QED BY <1>0, <2>1, <2>2 DEF SnapOwners, SnapsLive
<1>6. WalkOK'
  <2>1. ASSUME NEW p \in Pumps, NEW c, CtxKept(p, c) PROVE CtxKept(p, c)'
    <3>1. \A b \in Actors : act[b].ctx = c /\ (act[b].pc \in {"retire", "mark"} \/ (act[b].pc = "wait" /\ p \in act[b].mark))
            => act'[b].ctx = c /\ (act'[b].pc \in {"retire", "mark"} \/ (act'[b].pc = "wait" /\ p \in act'[b].mark))
      BY <1>1 DEF Moves
    <3>2. QED BY <1>0, <2>1, <3>1 DEF CtxKept
  <2>2. ASSUME NEW p \in Pumps, NEW s, SnapKept(p, s) PROVE SnapKept(p, s)'
    <3>1. CASE s \in g_retired
      BY <1>1, <3>1 DEF SnapKept
    <3>2. \A b \in Actors : act[b].snaps # {} => act'[b] = act[b]
      BY <1>1, <1>2 DEF Moves
    <3>3. CASE s \notin g_retired
      BY <1>0, <2>2, <3>2, <3>3 DEF SnapKept
    <3>4. QED BY <3>1, <3>3
  <2>3. QED BY <1>0, <1>1, <2>1, <2>2, KeptStill
<1>7. QED BY <1>3, <1>4, <1>5, <1>6

\* Without memory for an entry: a pump goes on to free the context, the
\* others wait for the pumps.  The context is of the pump's own shard, and it
\* is not walking.
LEMMA RetireAlone ==
  ASSUME IInv, NEW a \in Actors, act[a].pc = "retire",
         NEW n \in ActRec, n.ctx = act[a].ctx, n.snaps = act[a].snaps,
         \/ a \in Pumps /\ n.pc = "free"
         \/ a \notin Pumps /\ n.pc = "wait" /\ n.mark = Pumps,
         act' = [act EXCEPT ![a] = n],
         UNCHANGED <<ctxVars, snapVars, retired, jobVars, walk>>, oom' \in Nat
  PROVE  IInv'
<1> USE DEF IInv
<1>0. act \in [Actors -> ActRec] /\ retired \subseteq RetRec /\ g_retired \subseteq Snaps
      /\ alloc' = alloc /\ g_open' = g_open /\ retired' = retired /\ ctx' = ctx /\ leak' = leak
      /\ g_shard_ctr' = g_shard_ctr /\ entries' = entries /\ g_snapshot' = g_snapshot /\ walk' = walk
      /\ g_retired' = g_retired
  BY DEF Types, ctxVars, snapVars
<1>1. act'[a] = n /\ Moves(a) /\ act' \in [Actors -> ActRec]
  BY <1>0, Update DEF Moves
<1>2. act[a].snaps = {} /\ act'[a].snaps = {} /\ act'[a].ctx = act[a].ctx /\ act[a].ctx # None
  BY <1>1 DEF SnapOwners, HeldOK, Holding, Away, Leaving
<1>3. Types' /\ HeldOK' /\ Counts' /\ JobOK' /\ OneAlive' /\ ShardOK' /\ Published'
  <2>1. act[a].pc \in Leaving \cup {"snaps"} /\ act'[a].pc \in Leaving
    BY <1>1 DEF Leaving
  <2>2. QED BY <1>0, <1>1, <1>2, <2>1, LeavingFrame
<1>4. AwayOK' /\ AwayCounts'
  <2>1. act[a].pc \in Leaving /\ act'[a].pc \in Leaving /\ act'[a].ctx = act[a].ctx
    BY <1>1 DEF Leaving
  <2>2. QED BY <1>0, <1>1, <2>1, QuietAway
<1>5. SnapOwners'
  <2>1. \A b \in Actors : act'[b].snaps = act[b].snaps /\ (act[b].snaps # {} => act'[b] = act[b])
    BY <1>1, <1>2 DEF Moves
  <2>2. QED BY <1>0, <2>1 DEF SnapOwners, SnapsLive
<1>6. WalkOK'
  <2>1. ASSUME NEW p \in Pumps, NEW c \in walk[p].todo, CtxKept(p, c) PROVE CtxKept(p, c)'
    <3>1. \A b \in Actors : b # a => act'[b] = act[b]
      BY <1>1 DEF Moves
    <3>2. CASE act[a].ctx = c
      <4>1. a \notin Pumps
        <5>1. SUFFICES ASSUME a \in Pumps PROVE FALSE
          OBVIOUS
        <5>2. ctx[c].pump_shard = a /\ ctx[c].pump_shard = p
          BY <1>2, <3>2, <5>1 DEF ShardOK, Away, Leaving
        <5>3. walk[a].todo = {}
          BY <5>1 DEF WalkOK
        <5>4. QED BY <5>2, <5>3
      <4>2. QED BY <1>1, <3>2, <4>1 DEF CtxKept
    <3>3. CASE act[a].ctx # c
      BY <1>0, <2>1, <3>1, <3>3 DEF CtxKept
    <3>4. QED BY <3>2, <3>3
  <2>2. ASSUME NEW p \in Pumps, NEW s, SnapKept(p, s) PROVE SnapKept(p, s)'
    <3>1. \A b \in Actors : act[b].snaps # {} => act'[b] = act[b]
      BY <1>1, <1>2 DEF Moves
    <3>2. QED BY <1>0, <2>2, <3>1 DEF SnapKept
  <2>3. QED BY <1>0, <1>1, <2>1, <2>2, KeptStill
<1>7. QED BY <1>3, <1>4, <1>5, <1>6

\* Retiring a context, with or without memory.
LEMMA RetireStep ==
  ASSUME IInv, NEW a \in Actors, retire_ctx(a)
  PROVE  IInv'
<1>0. /\ act[a].pc = "retire" /\ act[a] \in ActRec /\ g_retired \subseteq Snaps
      /\ UNCHANGED <<ctxVars, entries, g_snapshot, retired, jobVars, walk>>
  BY DEF retire_ctx, At, IInv, Types
<1>1. CASE /\ act' = [act EXCEPT ![a].pc = "mark", ![a].snaps = g_retired]
           /\ g_retired' = {} /\ UNCHANGED oom
  <2> DEFINE n == [act[a] EXCEPT !.pc = "mark", !.snaps = g_retired]
  <2>1. act' = [act EXCEPT ![a] = n] /\ g_retired' = {} /\ oom' = oom
    BY <1>1
  <2>2. n \in ActRec /\ n.pc = "mark" /\ n.ctx = act[a].ctx /\ n.snaps = g_retired
    BY <1>0 DEF ActRec, Pcs
  <2> HIDE DEF n
  <2>3. QED BY <1>0, <2>1, <2>2, TakeSnaps
<1>2. CASE /\ Oom /\ UNCHANGED g_retired
           /\ act' = [act EXCEPT ![a].pc = IF a \in Pumps THEN "free" ELSE "wait",
                                 ![a].mark = IF a \in Pumps THEN {} ELSE capture_pump_mark]
  <2> DEFINE q == IF a \in Pumps THEN "free" ELSE "wait"
             m == IF a \in Pumps THEN {} ELSE Pumps
             n == [act[a] EXCEPT !.pc = q, !.mark = m]
  <2>1. act' = [act EXCEPT ![a] = n] /\ g_retired' = g_retired
    BY <1>2 DEF capture_pump_mark
  <2>2. n \in ActRec /\ n.pc = q /\ n.mark = m /\ n.ctx = act[a].ctx /\ n.snaps = act[a].snaps
    <3>1. q \in Pcs /\ m \in SUBSET Pumps
      BY DEF Pcs
    <3> HIDE DEF q, m
    <3>2. QED BY <1>0, <3>1 DEF ActRec
  <2>3. \/ a \in Pumps /\ n.pc = "free"
        \/ a \notin Pumps /\ n.pc = "wait" /\ n.mark = Pumps
    <3> HIDE DEF n
    <3>1. QED BY <2>2
  <2>4. oom' \in Nat
    BY <1>2 DEF Oom, IInv, Types
  <2> HIDE DEF n
  <2>5. QED BY <1>0, <2>1, <2>2, <2>3, <2>4, RetireAlone DEF snapVars
<1>3. QED BY <1>1, <1>2 DEF retire_ctx

\* A lifecycle thread queues the superseded snapshots, or leaves them.
LEMMA RetireSnapsStep ==
  ASSUME IInv, NEW t \in Life, retire_snapshots(t)
  PROVE  IInv'
<1>0. /\ act[t].pc = "snaps" /\ act \in [Actors -> ActRec] /\ act[t] \in ActRec /\ t \in Actors
      /\ g_retired \subseteq Snaps
      /\ UNCHANGED <<ctxVars, entries, g_snapshot, retired, jobVars, walk>>
  BY Roles DEF retire_snapshots, At, IInv, Types
<1>1. CASE /\ act' = [act EXCEPT ![t].pc = "mark", ![t].snaps = g_retired]
           /\ g_retired' = {} /\ UNCHANGED oom
  <2> DEFINE n == [act[t] EXCEPT !.pc = "mark", !.snaps = g_retired]
  <2>1. act' = [act EXCEPT ![t] = n] /\ g_retired' = {} /\ oom' = oom
    BY <1>1
  <2>2. n \in ActRec /\ n.pc = "mark" /\ n.ctx = act[t].ctx /\ n.snaps = g_retired
    BY <1>0 DEF ActRec, Pcs
  <2> HIDE DEF n
  <2>3. QED BY <1>0, <2>1, <2>2, TakeSnaps
<1>2. CASE act' = [act EXCEPT ![t].pc = "loop"] /\ g_retired' = g_retired /\ (oom' = oom \/ Oom)
  <2> DEFINE n == [act[t] EXCEPT !.pc = "loop"]
  <2>1. act' = [act EXCEPT ![t] = n]
    BY <1>2
  <2>2. n \in ActRec /\ n.pc = "loop" /\ n.ctx = act[t].ctx /\ n.snaps = act[t].snaps
    BY <1>0 DEF ActRec, Pcs
  <2> HIDE DEF n
  <2>3. act'[t] = n /\ Moves(t) /\ act' \in [Actors -> ActRec]
    BY <1>0, <2>1, <2>2, Update DEF Moves
  <2>4. /\ g_shard_ctr' \in Pumps /\ oom' \in Nat /\ job' = job /\ queue' = queue
        /\ job \in [Jobs -> JobRec] /\ queue \in Seq(Jobs)
    BY <1>0, <1>2 DEF IInv, Types, ctxVars, jobVars, Oom
  <2>5. JobOK'
    BY <1>0, <2>2, <2>3, <2>4, QuietJob DEF IInv, Busy
  <2>6. act[t].ctx = None
    BY <1>0 DEF IInv, HeldOK, Holding, Away, Leaving
  <2>7. /\ act[t].pc \notin Leaving \cup {"pin"} /\ act'[t].pc \notin Leaving \cup {"pin"}
        /\ act[t].pc # "link" /\ act'[t].pc # "link" /\ act'[t].pc \notin Holding \ {"done"}
    BY <1>0, <2>2, <2>3 DEF Leaving, Holding
  <2>8. UNCHANGED <<ctx, alloc, g_open, leak, snapVars, retired, walk>>
    BY <1>0, <1>2 DEF ctxVars, snapVars
  <2>9. QED BY <1>0, <2>2, <2>3, <2>4, <2>5, <2>6, <2>7, <2>8, QuietStep
<1>3. QED BY <1>1, <1>2 DEF retire_snapshots

\* The entry joins the retired list, marked for every pump.
LEMMA PushStep ==
  ASSUME IInv, NEW a \in Actors, RetiredPush(a)
  PROVE  IInv'
<1> USE DEF IInv
<1> DEFINE r == [ctx |-> act[a].ctx, snaps |-> act[a].snaps, mark |-> Pumps]
           n == IF act[a].ctx = None THEN [Rest(a) EXCEPT !.pc = "loop"] ELSE Rest(a)
<1>0. /\ act[a].pc = "mark" /\ act \in [Actors -> ActRec] /\ act[a] \in ActRec
      /\ UNCHANGED <<ctxVars, snapVars, jobVars, walk, oom>>
  BY DEF RetiredPush, At, Types
<1>u. /\ ctx' = ctx /\ alloc' = alloc /\ g_open' = g_open /\ entries' = entries /\ leak' = leak
      /\ g_shard_ctr' = g_shard_ctr /\ g_snapshot' = g_snapshot
      /\ g_retired' = g_retired /\ walk' = walk /\ oom' = oom
  BY <1>0 DEF ctxVars, snapVars
<1>1. retired' = retired \cup {r} /\ act' = [act EXCEPT ![a] = n]
  BY DEF RetiredPush, capture_pump_mark
<1>2. /\ r \in RetRec /\ r.ctx = act[a].ctx /\ r.snaps = act[a].snaps /\ r.mark = Pumps
  BY <1>0 DEF RetRec, ActRec
<1>3. /\ n \in ActRec /\ n.pc \in {"loop", "idle", "reap", "release"} /\ n.ctx = None /\ n.snaps = {}
  <2>1. CASE act[a].ctx = None
    BY <2>1, RestFacts DEF ActRec, Pcs
  <2>2. CASE act[a].ctx # None
    BY <2>2, RestFacts
  <2>3. QED BY <2>1, <2>2
<1> HIDE DEF r, n
<1>4. act'[a] = n /\ Moves(a) /\ act' \in [Actors -> ActRec]
  BY <1>0, <1>1, <1>3, Update DEF Moves
<1>5. Types' /\ HeldOK' /\ Counts' /\ JobOK' /\ OneAlive' /\ ShardOK' /\ Published'
  <2>1. /\ act[a].pc \in Leaving \cup {"snaps"} /\ act'[a].pc \notin Leaving
        /\ act'[a].pc \in Leaving \cup {"idle", "reap", "release", "loop"}
    BY <1>0, <1>3, <1>4 DEF Leaving
  <2>2. retired' \subseteq RetRec /\ g_retired' \subseteq Snaps /\ oom' \in Nat
    BY <1>u, <1>1, <1>2 DEF Types
  <2>3. UNCHANGED <<ctx, alloc, g_open, leak, g_shard_ctr, entries, g_snapshot, jobVars, walk>>
    BY <1>0, <1>u
  <2>4. QED BY <1>3, <1>4, <2>1, <2>2, <2>3, LeavingFrame
<1>6. /\ InHand(a) = act[a].ctx /\ InHand(a)' = None
      /\ \A b \in Actors : b # a => InHand(b)' = InHand(b)
  BY <1>0, <1>3, <1>4 DEF InHand, Moves, Away, Leaving
<1>7. AwayOK'
  <2>1. \A b \in Actors : InHand(b)' # None =>
          /\ b # a /\ InHand(b)' = InHand(b) /\ InHand(b)' \in alloc /\ InHand(b)' \notin g_open
    BY <1>6 DEF AwayOK
  <2>2. \A q \in retired' : q.ctx # None => q.ctx \in alloc /\ q.ctx \notin g_open
    BY <1>1, <1>2, <1>6 DEF AwayOK
  <2>3. \A b, e \in Actors : InHand(b)' # None /\ InHand(b)' = InHand(e)' => b = e
    BY <2>1 DEF AwayOK
  <2>4. \A b \in Actors, q \in retired' : InHand(b)' # None => InHand(b)' # q.ctx
    BY <1>1, <1>2, <1>6, <2>1 DEF AwayOK
  <2>5. ASSUME NEW q \in retired', NEW s \in retired', q.ctx # None, q.ctx = s.ctx PROVE q = s
    <3>1. \A x \in retired : x.ctx # None => x.ctx # r.ctx
      BY <1>2, <1>6 DEF AwayOK
    <3>2. QED BY <1>1, <2>5, <3>1 DEF AwayOK
  <2>6. ASSUME NEW d \in alloc' \ g_open'
        PROVE  (\E b \in Actors : InHand(b)' = d) \/ (\E q \in retired' : q.ctx = d)
    <3>1. (\E b \in Actors : InHand(b) = d) \/ (\E q \in retired : q.ctx = d)
      BY <1>u DEF AwayOK
    <3>2. QED BY <1>1, <1>2, <1>6, <3>1
  <2>7. QED BY <1>u, <2>1, <2>2, <2>3, <2>4, <2>5, <2>6 DEF AwayOK
<1>8. AwayCounts'
  <2>1. r.ctx # None => ctx[r.ctx].refcount = 0
    BY <1>0, <1>2 DEF AwayCounts, Leaving
  <2>2. \A b \in Actors : act'[b].pc \in Away => act'[b] = act[b]
    BY <1>3, <1>4 DEF Moves, Away, Leaving
  <2>3. "link" \in Away /\ \A x \in Leaving : x \in Away
    BY DEF Away
  <2>4. QED BY <1>u, <1>1, <2>1, <2>2, <2>3 DEF AwayCounts
<1>9. SnapOwners'
  <2>1. ASSUME NEW b \in Actors
        PROVE  /\ act'[b].snaps \subseteq SnapsLive /\ g_snapshot \notin act'[b].snaps
               /\ act'[b].snaps \cap g_retired = {}
               /\ act'[b].snaps # {} => act'[b].pc \in {"mark", "free"}
    BY <1>3, <1>4 DEF SnapOwners, Moves
  <2>2. ASSUME NEW q \in retired'
        PROVE  /\ q.snaps \subseteq SnapsLive /\ g_snapshot \notin q.snaps
               /\ q.snaps \cap g_retired = {}
               /\ \A b \in Actors : act'[b].snaps \cap q.snaps = {}
    <3>1. CASE q = r
      <4>1. \A b \in Actors : act'[b].snaps \cap act[a].snaps = {}
        BY <1>3, <1>4 DEF SnapOwners, Moves
      <4>2. QED BY <1>2, <3>1, <4>1 DEF SnapOwners
    <3>2. CASE q \in retired
      BY <1>3, <1>4, <3>2 DEF SnapOwners, Moves
    <3>3. QED BY <1>1, <3>1, <3>2
  <2>3. \A b, e \in Actors : b # e => act'[b].snaps \cap act'[e].snaps = {}
    <3>1. \A b \in Actors : act'[b].snaps \subseteq act[b].snaps
      BY <1>3, <1>4 DEF Moves
    <3>2. QED BY <3>1 DEF SnapOwners
  <2>4. \A q, s \in retired' : q # s => q.snaps \cap s.snaps = {}
    <3>1. \A q \in retired : q.snaps \cap r.snaps = {} /\ r.snaps \cap q.snaps = {}
      BY <1>2 DEF SnapOwners
    <3>2. QED BY <1>1, <3>1 DEF SnapOwners
  <2>5. QED BY <1>u, <2>1, <2>2, <2>3, <2>4 DEF SnapOwners, SnapsLive
<1>10. WalkOK'
  <2>1. ASSUME NEW p \in Pumps, NEW c, CtxKept(p, c) PROVE CtxKept(p, c)'
    <3>1. CASE act[a].ctx = c
      BY <1>1, <1>2, <3>1 DEF CtxKept
    <3>2. CASE act[a].ctx # c
      <4>1. \A b \in Actors : act[b].ctx = c => act'[b] = act[b]
        BY <1>4, <3>2 DEF Moves
      <4>2. QED BY <1>u, <1>1, <2>1, <4>1 DEF CtxKept
    <3>3. QED BY <3>1, <3>2
  <2>2. ASSUME NEW p \in Pumps, NEW s, SnapKept(p, s) PROVE SnapKept(p, s)'
    <3>1. CASE s \in act[a].snaps
      BY <1>1, <1>2, <3>1 DEF SnapKept
    <3>2. CASE s \notin act[a].snaps
      <4>1. \A b \in Actors : s \in act[b].snaps => act'[b] = act[b]
        BY <1>4, <3>2 DEF Moves
      <4>2. QED BY <1>u, <1>1, <2>2, <4>1 DEF SnapKept
    <3>3. QED BY <3>1, <3>2
  <2>3. act[a].pc # "pin" /\ act'[a].pc # "pin"
    BY <1>0, <1>3, <1>4
  <2>4. QED BY <1>u, <1>4, <2>1, <2>2, <2>3, KeptStill
<1>11. QED BY <1>5, <1>7, <1>8, <1>9, <1>10

\* The pumps have passed; the snapshots superseded meanwhile wait for them
\* once more.
LEMMA ReclaimStep ==
  ASSUME IInv, NEW a \in Actors, reclaim_retired_snapshots(a)
  PROVE  IInv'
<1> USE DEF IInv
<1> DEFINE m == IF g_retired = {} THEN {} ELSE Pumps
           n == [act[a] EXCEPT !.pc = "free", !.snaps = g_retired, !.mark = m]
<1>0. /\ act[a].pc = "wait" /\ act \in [Actors -> ActRec] /\ act[a] \in ActRec /\ act[a].mark = {}
      /\ g_retired' = {} /\ g_retired \subseteq Snaps
      /\ UNCHANGED <<ctxVars, entries, g_snapshot, retired, jobVars, walk, oom>>
  BY DEF reclaim_retired_snapshots, capture_pump_mark_passed, At, Types
<1>u. /\ ctx' = ctx /\ alloc' = alloc /\ g_open' = g_open /\ entries' = entries /\ leak' = leak
      /\ g_shard_ctr' = g_shard_ctr /\ g_snapshot' = g_snapshot /\ retired' = retired
      /\ walk' = walk /\ oom' = oom
  BY <1>0 DEF ctxVars
<1>1. act' = [act EXCEPT ![a] = n]
  BY DEF reclaim_retired_snapshots, capture_pump_mark
<1>2. n \in ActRec /\ n.pc = "free" /\ n.ctx = act[a].ctx /\ n.snaps = g_retired /\ n.mark = m
  <2>1. m \in SUBSET Pumps
    OBVIOUS
  <2> HIDE DEF m
  <2>2. QED BY <1>0, <2>1 DEF ActRec, Pcs
<1> HIDE DEF n
<1>3. act'[a] = n /\ Moves(a) /\ act' \in [Actors -> ActRec]
  BY <1>0, <1>1, <1>2, Update DEF Moves
<1>4. act[a].snaps = {} /\ act[a].ctx # None /\ (g_retired # {} => n.mark = Pumps)
  BY <1>0, <1>2 DEF SnapOwners, HeldOK, Holding, Away, Leaving
<1>5. Types' /\ HeldOK' /\ Counts' /\ JobOK' /\ OneAlive' /\ ShardOK' /\ Published'
  <2>1. act[a].pc \in Leaving \cup {"snaps"} /\ act'[a].pc \in Leaving
    BY <1>0, <1>2, <1>3 DEF Leaving
  <2>2. retired' \subseteq RetRec /\ g_retired' \subseteq Snaps /\ oom' \in Nat
    BY <1>u, <1>0 DEF Types
  <2>3. UNCHANGED <<ctx, alloc, g_open, leak, g_shard_ctr, entries, g_snapshot, jobVars, walk>>
    BY <1>0, <1>u
  <2>4. QED BY <1>2, <1>3, <1>4, <2>1, <2>2, <2>3, LeavingFrame
<1>6. AwayOK' /\ AwayCounts'
  <2>1. act[a].pc \in Leaving /\ act'[a].pc \in Leaving /\ act'[a].ctx = act[a].ctx
    BY <1>0, <1>2, <1>3 DEF Leaving
  <2>2. QED BY <1>u, <1>3, <2>1, QuietAway
<1>7. SnapOwners'
  <2>1. ASSUME NEW b \in Actors
        PROVE  /\ act'[b].snaps \subseteq SnapsLive /\ g_snapshot \notin act'[b].snaps
               /\ act'[b].snaps # {} => act'[b].pc \in {"mark", "free"}
               /\ \A r \in retired : act'[b].snaps \cap r.snaps = {}
    <3>1. CASE b = a
      BY <1>2, <1>3, <3>1 DEF SnapOwners
    <3>2. CASE b # a
      BY <1>3, <3>2 DEF SnapOwners, Moves
    <3>3. QED BY <3>1, <3>2
  <2>2. \A b, e \in Actors : b # e => act'[b].snaps \cap act'[e].snaps = {}
    <3>1. \A b \in Actors : b # a => act'[b].snaps \cap act'[a].snaps = {}
      BY <1>2, <1>3 DEF SnapOwners, Moves
    <3>2. \A b, e \in Actors : b # a /\ e # a /\ b # e => act'[b].snaps \cap act'[e].snaps = {}
      BY <1>3 DEF SnapOwners, Moves
    <3>3. QED BY <3>1, <3>2
  <2>3. QED BY <1>u, <1>0, <2>1, <2>2 DEF SnapOwners, SnapsLive
<1>8. WalkOK'
  <2>1. ASSUME NEW p \in Pumps, NEW c, CtxKept(p, c) PROVE CtxKept(p, c)'
    <3>1. \A b \in Actors : b # a => act'[b] = act[b]
      BY <1>3 DEF Moves
    <3>2. ~(act[a].pc \in {"retire", "mark"} \/ (act[a].pc = "wait" /\ p \in act[a].mark))
      BY <1>0
    <3>3. QED BY <1>u, <2>1, <3>1, <3>2 DEF CtxKept
  <2>2. ASSUME NEW p \in Pumps, NEW s, SnapKept(p, s) PROVE SnapKept(p, s)'
    <3>1. CASE s \in g_retired
      BY <1>2, <1>3, <1>4, <3>1 DEF SnapKept
    <3>2. CASE s \notin g_retired
      <4>1. \A b \in Actors : s \in act[b].snaps => act'[b] = act[b]
        BY <1>3, <1>4 DEF Moves
      <4>2. QED BY <1>u, <2>2, <3>2, <4>1 DEF SnapKept
    <3>3. QED BY <3>1, <3>2
  <2>3. act[a].pc # "pin" /\ act'[a].pc # "pin"
    BY <1>0, <1>2, <1>3
  <2>4. QED BY <1>u, <1>3, <2>1, <2>2, <2>3, KeptStill
<1>9. QED BY <1>5, <1>6, <1>7, <1>8

\* The contexts F and the snapshots G are freed: nothing that is left refers
\* to them.
LEMMA Freed ==
  ASSUME IInv, NEW a \in Actors, Moves(a), act' \in [Actors -> ActRec],
         act[a].pc \in {"free", "reap", "loop"},
         act'[a].pc \in {"idle", "reap", "release", "loop", "snaps"},
         act'[a].ctx = None, act'[a].snaps = {},
         NEW F \in SUBSET Ctxs, NEW G \in SUBSET Snaps,
         retired' \subseteq retired, alloc' = alloc \ F,
         ctx' \in [Ctxs -> CtxRec], \A c \in Ctxs : c \notin F => ctx'[c] = ctx[c],
         entries' = [s \in SnapsLive \ G |-> entries[s]],
         UNCHANGED <<g_open, leak, g_shard_ctr, g_snapshot, g_retired, jobVars, walk, oom>>,
         F \cap g_open = {},
         \A b \in Actors : b # a /\ InHand(b) # None => InHand(b) \notin F,
         \A r \in retired' : r.ctx # None => r.ctx \notin F,
         \A c \in alloc \ g_open : c \notin F =>
            (\E b \in Actors : b # a /\ InHand(b) = c) \/ (\E r \in retired' : r.ctx = c),
         g_snapshot \notin G, g_retired \cap G = {},
         \A b \in Actors : b # a => act[b].snaps \cap G = {},
         \A r \in retired' : r.snaps \cap G = {},
         \A p \in Pumps : \A c \in walk[p].todo : c \notin F /\ (CtxKept(p, c) => CtxKept(p, c)'),
         \A p \in Pumps : walk[p].snap # None /\ SnapKept(p, walk[p].snap) => SnapKept(p, walk[p].snap)'
  PROVE  IInv'
<1> USE DEF IInv
<1>u. /\ g_open' = g_open /\ g_snapshot' = g_snapshot /\ leak' = leak /\ oom' = oom
      /\ g_retired' = g_retired /\ walk' = walk /\ job' = job /\ queue' = queue
      /\ g_shard_ctr' = g_shard_ctr
  BY DEF jobVars
<1>1. SnapsLive' = SnapsLive \ G /\ \A s \in SnapsLive' : entries'[s] = entries[s]
  BY DEF SnapsLive
<1>2. Types'
  <2>1. SnapsLive' \subseteq Snaps /\ entries' \in [SnapsLive' -> SUBSET Ctxs]
    BY <1>1 DEF Types
  <2>2. QED BY <1>u, <2>1 DEF Types
<1>3. /\ act'[a].pc \notin Holding /\ act'[a].pc \notin Away /\ act[a].pc \notin Holding
      /\ act'[a].pc # "pin" /\ act[a].pc # "pin" /\ act'[a].pc \notin Busy /\ act'[a].pc # "await"
  BY DEF Holding, Away, Leaving, Busy
<1>4. HeldOK'
  <2>1. \A b \in Actors : act'[b].pc \in Holding /\ act'[b].ctx # None => act'[b].ctx \in g_open
    BY <1>3 DEF HeldOK, Moves
  <2>2. \A b \in Actors : act'[b].pc \in (Holding \cup Away) \ {"done", "mark"} => act'[b].ctx # None
    BY <1>3 DEF HeldOK, Moves
  <2>3. \A b \in Actors : act'[b].pc \notin Holding \cup Away => act'[b].ctx = None
    BY <1>3 DEF HeldOK, Moves
  <2>4. QED BY <1>u, <2>1, <2>2, <2>3 DEF HeldOK
<1>5. InHand(a)' = None /\ \A b \in Actors : b # a => InHand(b)' = InHand(b)
  BY <1>3 DEF InHand, Moves
<1>6. AwayOK'
  <2>1. \A b \in Actors : InHand(b)' # None =>
          /\ b # a /\ InHand(b)' = InHand(b) /\ InHand(b)' \in alloc' /\ InHand(b)' \notin g_open
    BY <1>5 DEF AwayOK
  <2>2. \A r \in retired' : r.ctx # None => r.ctx \in alloc' /\ r.ctx \notin g_open
    BY DEF AwayOK
  <2>3. \A b, e \in Actors : InHand(b)' # None /\ InHand(b)' = InHand(e)' => b = e
    BY <2>1 DEF AwayOK
  <2>4. \A b \in Actors, r \in retired' : InHand(b)' # None => InHand(b)' # r.ctx
    BY <2>1 DEF AwayOK
  <2>5. \A r, q \in retired' : r.ctx # None /\ r.ctx = q.ctx => r = q
    BY DEF AwayOK
  <2>6. \A c \in alloc' \ g_open : (\E b \in Actors : InHand(b)' = c) \/ (\E r \in retired' : r.ctx = c)
    BY <1>5
  <2>7. QED BY <1>u, <2>1, <2>2, <2>3, <2>4, <2>5, <2>6 DEF AwayOK
<1>7. AwayCounts'
  <2>1. \A b \in Actors : act'[b].pc \in Away => act'[b] = act[b] /\ b # a
    BY <1>3 DEF Moves
  <2>2. \A b \in Actors : b # a /\ act[b].pc \in Away /\ act[b].ctx # None => ctx'[act[b].ctx] = ctx[act[b].ctx]
    <3>1. ASSUME NEW b \in Actors, b # a, act[b].pc \in Away, act[b].ctx # None
          PROVE  ctx'[act[b].ctx] = ctx[act[b].ctx]
      <4>1. InHand(b) = act[b].ctx
        BY <3>1 DEF InHand
      <4>2. act[b].ctx \in Ctxs /\ act[b].ctx \notin F
        BY <3>1, <4>1 DEF AwayOK, Types
      <4>3. QED BY <4>2
    <3>2. QED BY <3>1
  <2>3. "link" \in Away /\ \A x \in Leaving : x \in Away
    BY DEF Away
  <2>4. \A b \in Actors : act'[b].pc = "link" => ctx'[act'[b].ctx].refcount = 1
    <3>1. \A b \in Actors : act[b].pc = "link" => act[b].ctx # None
      BY <2>3 DEF HeldOK
    <3>2. QED BY <2>1, <2>2, <2>3, <3>1 DEF AwayCounts
  <2>5. \A b \in Actors : act'[b].pc \in Leaving /\ act'[b].ctx # None => ctx'[act'[b].ctx].refcount = 0
    BY <2>1, <2>2, <2>3 DEF AwayCounts
  <2>6. \A r \in retired' : r.ctx # None => ctx'[r.ctx].refcount = 0
    BY DEF AwayCounts, AwayOK, Types
  <2>7. QED BY <2>4, <2>5, <2>6 DEF AwayCounts
<1>8. Published'
  BY <1>u, <1>1 DEF Published
<1>9. SnapOwners'
  <2>1. \A b \in Actors : act'[b].snaps \subseteq act[b].snaps /\ act'[b].snaps \cap G = {}
    BY DEF Moves
  <2>2. \A b \in Actors : act'[b].snaps # {} => act'[b].pc \in {"mark", "free"}
    BY DEF Moves, SnapOwners
  <2>3. g_snapshot' \notin g_retired' /\ g_retired' \subseteq SnapsLive'
    BY <1>u, <1>1 DEF SnapOwners
  <2>4. ASSUME NEW b \in Actors
        PROVE  /\ act'[b].snaps \subseteq SnapsLive' /\ g_snapshot' \notin act'[b].snaps
               /\ act'[b].snaps \cap g_retired' = {}
    BY <1>u, <1>1, <2>1 DEF SnapOwners
  <2>5. ASSUME NEW r \in retired'
        PROVE  /\ r.snaps \subseteq SnapsLive' /\ g_snapshot' \notin r.snaps
               /\ r.snaps \cap g_retired' = {}
               /\ \A b \in Actors : act'[b].snaps \cap r.snaps = {}
    BY <1>u, <1>1, <2>1 DEF SnapOwners
  <2>6. \A b, e \in Actors : b # e => act'[b].snaps \cap act'[e].snaps = {}
    BY <2>1 DEF SnapOwners
  <2>7. \A r, q \in retired' : r # q => r.snaps \cap q.snaps = {}
    BY DEF SnapOwners
  <2>8. QED BY <2>2, <2>3, <2>4, <2>5, <2>6, <2>7 DEF SnapOwners
<1>10. WalkOK'
  BY <1>u, <1>3, KeptStill
<1>11. ShardOK'
  <2>1. ASSUME NEW p \in Pumps, act'[p].pc \in Holding \cup Away, act'[p].ctx # None
        PROVE  ctx'[act'[p].ctx].pump_shard = p
    <3>1. act'[p] = act[p] /\ p # a
      BY <1>3, <2>1, Roles DEF Moves
    <3>2. act[p].ctx \in Ctxs /\ act[p].ctx \notin F
      BY <2>1, <3>1, Roles DEF HeldOK, InHand, Types, ActRec, MaybeCtx
    <3>3. QED BY <2>1, <3>1, <3>2 DEF ShardOK
  <2>2. ASSUME NEW p \in Pumps, NEW c \in walk'[p].todo \cup walk'[p].pinned
        PROVE  ctx'[c].pump_shard = p
    <3>1. c \in Ctxs /\ c \notin F
      BY <1>u DEF HeldOK, Types, WalkRec
    <3>2. QED BY <1>u, <3>1 DEF ShardOK
  <2>3. QED BY <2>1, <2>2 DEF ShardOK
<1>12. JobOK'
  BY <1>u, <1>3, QuietJob
<1>13. OneAlive'
  BY <1>u, QuietAlive DEF Types
<1>14. Counts'
  <2>1. Held(a) = None /\ Held(a)' = None /\ \A b \in Actors : Held(b)' = Held(b)
    BY <1>3 DEF Held, Moves
  <2>2. \A c \in g_open' : Settled(a, c)
    BY <1>u, <2>1 DEF Settled, Types
  <2>3. QED BY <1>u, <2>1, <2>2, CountsMove
<1>15. QED BY <1>2, <1>4, <1>6, <1>7, <1>8, <1>9, <1>10, <1>11, <1>12, <1>13, <1>14

\* An actor frees what it has waited for, or a pump its own context.
LEMMA FreeStep ==
  ASSUME IInv, NEW a \in Actors, FreeInline(a)
  PROVE  IInv'
<1> DEFINE c == act[a].ctx
           G == act[a].snaps
<1>0. /\ act[a].pc = "free" /\ act[a].mark = {} /\ c # None /\ c \in Ctxs
      /\ act \in [Actors -> ActRec] /\ Return(a)
      /\ UNCHANGED <<g_open, leak, g_shard_ctr, g_snapshot, g_retired, retired, jobVars, walk, oom>>
  <2>1. act[a].pc = "free" /\ act[a].mark = {} /\ act \in [Actors -> ActRec] /\ act[a] \in ActRec
    BY DEF FreeInline, At, capture_pump_mark_passed, IInv, Types
  <2>2. c # None /\ c \in Ctxs
    BY <2>1 DEF IInv, HeldOK, ActRec, MaybeCtx, Holding, Away, Leaving
  <2>3. QED BY <2>1, <2>2 DEF FreeInline
<1>1. /\ alloc' = alloc \ {c} /\ ctx' = [ctx EXCEPT ![c] = FreeCtx]
      /\ entries' = [s \in SnapsLive \ G |-> entries[s]]
  BY DEF FreeInline, free_ctx_resources, FreeSnaps
<1>2. /\ \A p \in Pumps : ~CtxKept(p, c) /\ c \notin walk[p].todo /\ c \notin walk[p].pinned
      /\ c \in alloc /\ c \notin g_open
      /\ \A b \in Actors : b # a => act[b].ctx # c
      /\ \A r \in retired : r.ctx # c
  BY <1>0, NotWalked
<1>3. act' \in [Actors -> ActRec] /\ Moves(a) /\ act'[a] = Rest(a)
  BY <1>0, ReturnFacts
<1>4. act'[a].pc \in {"idle", "reap", "release"} /\ act'[a].ctx = None /\ act'[a].snaps = {}
  BY <1>3, RestFacts
<1>5. ctx' \in [Ctxs -> CtxRec] /\ \A d \in Ctxs : d # c => ctx'[d] = ctx[d]
  <2>1. FreeCtx \in CtxRec /\ ctx \in [Ctxs -> CtxRec]
    BY DEF FreeCtx, CtxRec, IInv, Types
  <2> HIDE DEF c
  <2>2. QED BY <1>0, <1>1, <2>1, Update
<1>6. /\ G \in SUBSET Snaps /\ g_snapshot \notin G /\ g_retired \cap G = {}
      /\ \A b \in Actors : b # a => act[b].snaps \cap G = {}
      /\ \A r \in retired : r.snaps \cap G = {}
  BY DEF IInv, SnapOwners, Types, ActRec
<1>7. InHand(a) = c
  BY <1>0 DEF InHand, Away, Leaving
<1>8. /\ \A b \in Actors : b # a /\ InHand(b) # None => InHand(b) \notin {c}
      /\ \A d \in alloc \ g_open : d \notin {c} =>
            (\E b \in Actors : b # a /\ InHand(b) = d) \/ (\E r \in retired : r.ctx = d)
  BY <1>2, <1>7 DEF IInv, AwayOK, InHand
<1>9. ASSUME NEW p \in Pumps, NEW d, CtxKept(p, d) PROVE CtxKept(p, d)'
  <2>1. \A b \in Actors : b # a => act'[b] = act[b]
    BY <1>3 DEF Moves
  <2>2. QED BY <1>0, <1>9, <2>1 DEF CtxKept
<1>10. ASSUME NEW p \in Pumps, NEW s, SnapKept(p, s) PROVE SnapKept(p, s)'
  <2>1. \A b \in Actors : b # a => act'[b] = act[b]
    BY <1>3 DEF Moves
  <2>2. QED BY <1>0, <1>10, <2>1 DEF SnapKept
<1>11. /\ {c} \in SUBSET Ctxs /\ {c} \cap g_open = {} /\ retired' \subseteq retired
       /\ \A d \in Ctxs : d \notin {c} => ctx'[d] = ctx[d]
       /\ \A r \in retired' : r.ctx # None => r.ctx \notin {c}
  BY <1>0, <1>2, <1>5
<1>12. \A p \in Pumps : \A d \in walk[p].todo : d \notin {c} /\ (CtxKept(p, d) => CtxKept(p, d)')
  BY <1>2, <1>9
<1>13. PICK F : F = {c}
  OBVIOUS
<1> HIDE DEF c, G
<1>14. /\ F \in SUBSET Ctxs /\ F \cap g_open = {} /\ alloc' = alloc \ F
       /\ \A d \in Ctxs : d \notin F => ctx'[d] = ctx[d]
       /\ \A r \in retired' : r.ctx # None => r.ctx \notin F
       /\ \A b \in Actors : b # a /\ InHand(b) # None => InHand(b) \notin F
  BY <1>1, <1>8, <1>11, <1>13
<1>15. \A d \in alloc \ g_open : d \notin F =>
          (\E b \in Actors : b # a /\ InHand(b) = d) \/ (\E r \in retired' : r.ctx = d)
  BY <1>0, <1>8, <1>13
<1>16. \A p \in Pumps : \A d \in walk[p].todo : d \notin F /\ (CtxKept(p, d) => CtxKept(p, d)')
  BY <1>12, <1>13
<1>17. \A p \in Pumps : walk[p].snap # None /\ SnapKept(p, walk[p].snap) => SnapKept(p, walk[p].snap)'
  <2>1. walk' = walk
    BY <1>0
  <2>2. QED BY <1>10, <2>1
<1>18. /\ act[a].pc \in {"free", "reap", "loop"} /\ retired' \subseteq retired
       /\ act'[a].pc \in {"idle", "reap", "release", "loop", "snaps"}
       /\ \A r \in retired' : r.snaps \cap G = {}
       /\ entries' = [s \in SnapsLive \ G |-> entries[s]]
       /\ UNCHANGED <<g_open, leak, g_shard_ctr, g_snapshot, g_retired, jobVars, walk, oom>>
  BY <1>0, <1>1, <1>4, <1>6
<1>19. ctx' \in [Ctxs -> CtxRec]
  BY <1>5
<1>20. QED
  BY <1>3, <1>4, <1>6, <1>14, <1>15, <1>16, <1>17, <1>18, <1>19, Freed

\* A lifecycle thread frees every entry that the pumps have passed.
LEMMA ReapStep ==
  ASSUME IInv, NEW t \in Life, reap_retired(t)
  PROVE  IInv'
<1> DEFINE over == {r \in retired : capture_pump_mark_passed(r.mark)}
           gone == {r.ctx : r \in over}
           F == gone \cap Ctxs
           G == UNION {r.snaps : r \in over}
           q == IF g_retired = {} THEN "loop" ELSE "snaps"
           n == [act[t] EXCEPT !.pc = q]
<1>0. /\ t \in Actors /\ act[t].pc \in {"reap", "loop"} /\ act \in [Actors -> ActRec] /\ act[t] \in ActRec
      /\ UNCHANGED <<g_open, leak, g_shard_ctr, g_snapshot, g_retired, jobVars, walk, oom>>
      /\ retired \subseteq RetRec /\ ctx \in [Ctxs -> CtxRec] /\ alloc \subseteq Ctxs
  BY Roles DEF reap_retired, At, IInv, Types
<1>1. /\ retired' = retired \ over /\ alloc' = alloc \ gone
      /\ ctx' = [c \in Ctxs |-> IF c \in gone THEN FreeCtx ELSE ctx[c]]
      /\ entries' = [s \in SnapsLive \ G |-> entries[s]]
      /\ act' = [act EXCEPT ![t].pc = q]
  BY DEF reap_retired, FreeSnaps
<1>o. \A r : r \in over <=> r \in retired /\ r.mark = {}
  BY DEF capture_pump_mark_passed
<1>f. /\ \A c : c \in F <=> c \in Ctxs /\ \E r \in over : r.ctx = c
      /\ \A s : s \in G <=> \E r \in over : s \in r.snaps
      /\ F \in SUBSET Ctxs
  OBVIOUS
<1>2. act' = [act EXCEPT ![t] = n]
  BY <1>1
<1>3. n \in ActRec /\ n.pc \in {"loop", "snaps"} /\ n.ctx = act[t].ctx /\ n.snaps = act[t].snaps
  <2>1. q \in Pcs /\ q \in {"loop", "snaps"}
    BY DEF Pcs
  <2> HIDE DEF q
  <2>2. QED BY <1>0, <2>1 DEF ActRec
<1>4. act[t].ctx = None /\ act[t].snaps = {}
  BY <1>0 DEF IInv, HeldOK, SnapOwners, Holding, Away, Leaving
<1>5. /\ alloc' = alloc \ F
      /\ ctx' \in [Ctxs -> CtxRec] /\ \A c \in Ctxs : c \notin F => ctx'[c] = ctx[c]
  <2>1. FreeCtx \in CtxRec
    BY DEF FreeCtx, CtxRec
  <2> HIDE DEF gone
  <2>2. QED BY <1>0, <1>1, <2>1
<1>6. retired' \subseteq retired /\ \A r \in retired' : r \notin over
  BY <1>1
<1>7. G \in SUBSET Snaps
  BY <1>0, <1>o, <1>f DEF RetRec
<1> HIDE DEF n, F, G, gone, over, q
<1>8. act'[t] = n /\ Moves(t) /\ act' \in [Actors -> ActRec]
  BY <1>0, <1>2, <1>3, Update DEF Moves
<1>9. /\ act'[t].pc \in {"loop", "snaps"} /\ act'[t].ctx = None /\ act'[t].snaps = {}
  BY <1>3, <1>4, <1>8
<1>10. /\ F \cap g_open = {}
       /\ \A b \in Actors : InHand(b) # None => InHand(b) \notin F
       /\ \A r \in retired' : r.ctx # None => r.ctx \notin F
  BY <1>6, <1>f, <1>o, Roles DEF IInv, AwayOK
<1>11. ASSUME NEW c \in alloc \ g_open, c \notin F
       PROVE  (\E b \in Actors : b # t /\ InHand(b) = c) \/ (\E r \in retired' : r.ctx = c)
  <2>1. (\E b \in Actors : InHand(b) = c) \/ (\E r \in retired : r.ctx = c)
    BY DEF IInv, AwayOK
  <2>2. InHand(t) = None /\ c # None /\ c \in Ctxs
    BY <1>0, <1>4, Roles DEF InHand
  <2>3. \A r \in retired : r.ctx = c => r \notin over
    BY <1>11, <1>f, <2>2
  <2>4. QED BY <1>1, <2>1, <2>2, <2>3
<1>12. /\ g_snapshot \notin G /\ g_retired \cap G = {}
       /\ \A b \in Actors : act[b].snaps \cap G = {}
       /\ \A r \in retired' : r.snaps \cap G = {}
  <2>1. g_snapshot \notin G /\ g_retired \cap G = {}
    BY <1>f, <1>o DEF IInv, SnapOwners
  <2>2. \A b \in Actors : act[b].snaps \cap G = {}
    BY <1>f, <1>o DEF IInv, SnapOwners
  <2>3. ASSUME NEW r \in retired' PROVE r.snaps \cap G = {}
    <3>1. \A x \in over : x # r /\ x \in retired /\ r \in retired
      BY <1>6, <1>o
    <3>2. \A x \in over : x.snaps \cap r.snaps = {}
      BY <3>1 DEF IInv, SnapOwners
    <3>3. QED BY <1>f, <3>2
  <2>4. QED BY <2>1, <2>2, <2>3
<1>13. ASSUME NEW p \in Pumps, NEW c, CtxKept(p, c) PROVE CtxKept(p, c)'
  <2>1. \A b \in Actors : act[b].pc \in {"retire", "mark", "wait"} => act'[b] = act[b]
    BY <1>0, <1>8 DEF Moves
  <2>2. \A r \in retired : p \in r.mark => r \in retired'
    BY <1>1, <1>o
  <2>3. QED BY <1>0, <1>13, <2>1, <2>2 DEF CtxKept
<1>14. ASSUME NEW p \in Pumps, NEW s, SnapKept(p, s) PROVE SnapKept(p, s)'
  <2>1. \A b \in Actors : act[b].snaps # {} => act'[b] = act[b]
    BY <1>4, <1>8 DEF Moves
  <2>2. \A r \in retired : p \in r.mark => r \in retired'
    BY <1>1, <1>o
  <2>3. QED BY <1>0, <1>14, <2>1, <2>2 DEF SnapKept
<1>15. ASSUME NEW p \in Pumps, NEW c \in walk[p].todo PROVE c \notin F
  <2>1. CtxKept(p, c) /\ c \in Ctxs /\ c # None
    BY Roles DEF IInv, WalkOK, Types, WalkRec
  <2>2. SUFFICES ASSUME c \in F PROVE FALSE
    OBVIOUS
  <2>3. PICK r \in retired : r.ctx = c /\ r.mark = {}
    BY <1>f, <1>o, <2>2
  <2>4. c \notin g_open /\ \A b \in Actors : InHand(b) # c
    BY <2>1, <2>3 DEF IInv, AwayOK
  <2>5. \A b \in Actors : act[b].pc \in {"retire", "mark", "wait"} => act[b].ctx # c
    BY <2>4 DEF InHand, Away, Leaving
  <2>6. PICK s \in retired : s.ctx = c /\ p \in s.mark
    BY <2>1, <2>4, <2>5 DEF CtxKept
  <2>7. s = r
    BY <2>1, <2>3, <2>6 DEF IInv, AwayOK
  <2>8. QED BY <2>3, <2>6, <2>7
<1>16. /\ act[t].pc \in {"free", "reap", "loop"} /\ retired' \subseteq retired
       /\ act'[t].pc \in {"idle", "reap", "release", "loop", "snaps"}
       /\ entries' = [s \in SnapsLive \ G |-> entries[s]]
       /\ UNCHANGED <<g_open, leak, g_shard_ctr, g_snapshot, g_retired, jobVars, walk, oom>>
  BY <1>0, <1>1, <1>6, <1>9
<1>17. /\ \A b \in Actors : b # t /\ InHand(b) # None => InHand(b) \notin F
       /\ \A b \in Actors : b # t => act[b].snaps \cap G = {}
       /\ \A c \in alloc \ g_open : c \notin F =>
            (\E b \in Actors : b # t /\ InHand(b) = c) \/ (\E r \in retired' : r.ctx = c)
       /\ F \in SUBSET Ctxs /\ t \in Actors
  BY <1>0, <1>10, <1>11, <1>12, <1>f
<1>18. \A p \in Pumps : \A c \in walk[p].todo : c \notin F /\ (CtxKept(p, c) => CtxKept(p, c)')
  BY <1>13, <1>15
<1>19. \A p \in Pumps : walk[p].snap # None /\ SnapKept(p, walk[p].snap) => SnapKept(p, walk[p].snap)'
  <2>1. walk' = walk
    BY <1>0
  <2>2. QED BY <1>14, <2>1
<1>20. /\ F \cap g_open = {} /\ \A r \in retired' : r.ctx # None => r.ctx \notin F
       /\ g_snapshot \notin G /\ g_retired \cap G = {} /\ \A r \in retired' : r.snaps \cap G = {}
       /\ Moves(t) /\ act' \in [Actors -> ActRec] /\ act'[t].ctx = None /\ act'[t].snaps = {}
  BY <1>8, <1>9, <1>10, <1>12
<1>21. QED
  BY <1>5, <1>7, <1>16, <1>17, <1>18, <1>19, <1>20, Freed

-----------------------------------------------------------------------------
(* Requests and jobs.                                                      *)

\* A request finds a context.
LEMMA TryRefStep ==
  ASSUME IInv, NEW u \in Requests, NEW k \in Keys, capture_try_ref(u, k)
  PROVE  IInv'
<1>1. PICK c \in find_existing(k) : Ref(c) /\ Opened(u, c)
  BY DEF capture_try_ref
<1>2. c \in g_open /\ u \in Actors /\ u \notin Pumps /\ u \notin Life /\ act[u].pc = "idle"
  BY Roles DEF find_existing, capture_try_ref, At
<1>3. UNCHANGED <<alloc, g_open, leak, g_shard_ctr, snapVars, retired, jobVars, walk, oom>>
  BY DEF capture_try_ref
<1>4. QED BY <1>1, <1>2, <1>3, TakeRef

\* A job record that replaces another one.
LEMMA JobUpdate ==
  ASSUME IInv, NEW j \in Jobs, NEW m \in JobRec, job' = [job EXCEPT ![j] = m]
  PROVE  /\ job' \in [Jobs -> JobRec] /\ job'[j] = m
         /\ \A k \in Jobs : k # j => job'[k] = job[k]
BY Update DEF IInv, Types

\* A request queues a job.
LEMMA SubmitStep ==
  ASSUME IInv, NEW u \in Requests, NEW k \in Keys, job_submit(u, k)
  PROVE  IInv'
<1>0. /\ u \in Actors /\ u \in Users /\ u \notin Life /\ act[u].pc = "idle"
      /\ act \in [Actors -> ActRec] /\ act[u] \in ActRec /\ queue \in Seq(Jobs)
      /\ UNCHANGED <<ctxVars, snapVars, retired, walk, oom>>
  BY Roles DEF job_submit, At, IInv, Types
<1>1. PICK j \in Jobs : /\ job[j].st = "free"
                        /\ job' = [job EXCEPT ![j] = [FreeJob EXCEPT !.st = "queued", !.key = k]]
                        /\ queue' = Append(queue, j)
                        /\ act' = [act EXCEPT ![u].pc = "await", ![u].job = j]
  BY DEF job_submit
<1> DEFINE m == [FreeJob EXCEPT !.st = "queued", !.key = k]
           n == [act[u] EXCEPT !.pc = "await", !.job = j]
<1>2. m \in JobRec /\ m.st = "queued" /\ m.result = None
  BY DEF FreeJob, JobRec, JobStates, MaybeCtx
<1>3. n \in ActRec /\ n.pc = "await" /\ n.job = j /\ n.ctx = act[u].ctx /\ n.snaps = act[u].snaps
  BY <1>0 DEF ActRec, Pcs
<1>4. job' = [job EXCEPT ![j] = m] /\ act' = [act EXCEPT ![u] = n]
  BY <1>1
<1>5. job[j].st = "free" /\ queue' = Append(queue, j)
  BY <1>1
<1> HIDE DEF m, n
<1>6. act'[u] = n /\ Moves(u) /\ act' \in [Actors -> ActRec]
  BY <1>0, <1>3, <1>4, Update DEF Moves
<1>7. job' \in [Jobs -> JobRec] /\ job'[j] = m /\ \A i \in Jobs : i # j => job'[i] = job[i]
  BY <1>2, <1>4, JobUpdate
<1>8. job[j].result = None
  BY <1>5 DEF IInv, JobOK
<1>9. /\ queue' \in Seq(Jobs) /\ Len(queue) \in Nat /\ Len(queue') = Len(queue) + 1
      /\ \A i \in 1..Len(queue) : queue'[i] = queue[i] /\ queue[i] \in Jobs
      /\ queue'[Len(queue) + 1] = j
  BY <1>0, <1>5, AppendProperties, ElementOfSeq, LenProperties
<1>10. \A i \in 1..Len(queue) : queue[i] # j /\ job[queue[i]].st = "queued"
  BY <1>5 DEF IInv, JobOK
<1>11. JobOK'
  <2>1. \A i \in 1..Len(queue') : i \in 1..Len(queue) \/ i = Len(queue) + 1
    BY <1>9
  <2>2. \A i \in 1..Len(queue') : job'[queue'[i]].st = "queued"
    BY <1>2, <1>7, <1>9, <1>10, <2>1
  <2>3. ASSUME NEW i \in 1..Len(queue'), NEW l \in 1..Len(queue'), queue'[i] = queue'[l] PROVE i = l
    BY <1>9, <1>10, <2>1, <2>3 DEF IInv, JobOK
  <2>4. \A t \in Life : act'[t] = act[t]
    BY <1>0, <1>6, Roles DEF Moves
  <2>5. \A t \in Life : act[t].pc \in Busy => act[t].job \in Jobs /\ act[t].job # j /\ job[act[t].job].st = "running"
    BY <1>5 DEF IInv, JobOK
  <2>6. \A t \in Life : act'[t].pc \in Busy => act'[t].job \in Jobs /\ job'[act'[t].job].st = "running"
    BY <1>7, <2>4, <2>5
  <2>7. \A t, v \in Life : act'[t].pc \in Busy /\ act'[v].pc \in Busy /\ act'[t].job = act'[v].job => t = v
    BY <2>4 DEF IInv, JobOK
  <2>8. \A x \in Users : act'[x].pc = "await" => act'[x].job \in Jobs
    BY <1>3, <1>6, Roles DEF IInv, JobOK, Moves
  <2>9. \A i \in Jobs : job'[i].st # "finished" => job'[i].result = None
    BY <1>2, <1>7 DEF IInv, JobOK
  <2>10. QED BY <2>2, <2>3, <2>6, <2>7, <2>8, <2>9 DEF JobOK
<1>12. act[u].ctx = None
  BY <1>0 DEF IInv, HeldOK, Holding, Away, Leaving
<1>13. /\ act[u].pc \notin Leaving \cup {"pin"} /\ act'[u].pc \notin Leaving \cup {"pin"}
       /\ act[u].pc # "link" /\ act'[u].pc # "link" /\ act'[u].pc \notin Holding \ {"done"}
  BY <1>0, <1>3, <1>6 DEF Leaving, Holding
<1>14. /\ UNCHANGED <<ctx, alloc, g_open, leak, snapVars, retired, walk>>
       /\ g_shard_ctr' \in Pumps /\ oom' \in Nat
  BY <1>0 DEF ctxVars, IInv, Types
<1>15. \A i \in Jobs : job'[i].result = job[i].result
  BY <1>2, <1>7, <1>8
<1>16. act'[u].ctx = act[u].ctx /\ act'[u].snaps \in {{}, act[u].snaps}
  BY <1>3, <1>6
<1>17. QED
  BY <1>0, <1>6, <1>7, <1>9, <1>11, <1>12, <1>13, <1>14, <1>15, <1>16, QuietStep

\* The request goes away; its job is marked.
LEMMA CancelStep ==
  ASSUME IInv, NEW u \in Requests, capture_open_job_cancel(u)
  PROVE  IInv'
<1> DEFINE j == act[u].job
           m == [job[j] EXCEPT !.cancelled = TRUE]
<1>0. /\ u \in Actors /\ u \in Users /\ u \notin Life /\ act[u].pc = "await"
      /\ act \in [Actors -> ActRec] /\ queue \in Seq(Jobs) /\ queue' = queue
      /\ j \in Jobs /\ job[j] \in JobRec /\ Return(u)
      /\ UNCHANGED <<ctxVars, snapVars, retired, walk, oom>>
  BY Roles DEF capture_open_job_cancel, At, IInv, Types, JobOK
<1>1. job' = [job EXCEPT ![j] = m]
  BY DEF capture_open_job_cancel
<1>2. m \in JobRec /\ m.st = job[j].st /\ m.result = job[j].result
  BY <1>0 DEF JobRec
<1> HIDE DEF m, j
<1>3. job' \in [Jobs -> JobRec] /\ job'[j] = m /\ \A i \in Jobs : i # j => job'[i] = job[i]
  BY <1>0, <1>1, <1>2, JobUpdate
<1>4. \A i \in Jobs : job'[i].result = job[i].result /\ job'[i].st = job[i].st
  BY <1>2, <1>3
<1>5. act' \in [Actors -> ActRec] /\ Moves(u) /\ act'[u] = Rest(u)
  BY <1>0, ReturnFacts
<1>6. act'[u].pc = "idle" /\ act'[u].ctx = None /\ act'[u].snaps = {}
  BY <1>0, <1>5, RestFacts
<1>7. JobOK'
  <2>1. \A t \in Life : act'[t] = act[t]
    BY <1>0, <1>5, Roles DEF Moves
  <2>2. \A i \in 1..Len(queue) : queue[i] \in Jobs
    BY <1>0, ElementOfSeq
  <2>3. \A i \in 1..Len(queue') : job'[queue'[i]].st = "queued"
    BY <1>0, <1>4, <2>2 DEF IInv, JobOK
  <2>4. \A t \in Life : act'[t].pc \in Busy => act'[t].job \in Jobs /\ job'[act'[t].job].st = "running"
    BY <1>4, <2>1 DEF IInv, JobOK
  <2>5. \A t, v \in Life : act'[t].pc \in Busy /\ act'[v].pc \in Busy /\ act'[t].job = act'[v].job => t = v
    BY <2>1 DEF IInv, JobOK
  <2>6. \A x \in Users : act'[x].pc = "await" => act'[x].job \in Jobs
    BY <1>5, <1>6, Roles DEF IInv, JobOK, Moves
  <2>7. \A i \in Jobs : job'[i].st # "finished" => job'[i].result = None
    BY <1>4 DEF IInv, JobOK
  <2>8. \A i, k \in 1..Len(queue') : queue'[i] = queue'[k] => i = k
    BY <1>0 DEF IInv, JobOK
  <2>9. QED BY <2>3, <2>4, <2>5, <2>6, <2>7, <2>8 DEF JobOK
<1>8. act[u].ctx = None
  BY <1>0 DEF IInv, HeldOK, Holding, Away, Leaving
<1>9. /\ act[u].pc \notin Leaving \cup {"pin"} /\ act'[u].pc \notin Leaving \cup {"pin"}
      /\ act[u].pc # "link" /\ act'[u].pc # "link" /\ act'[u].pc \notin Holding \ {"done"}
  BY <1>0, <1>6 DEF Leaving, Holding
<1>10. /\ UNCHANGED <<ctx, alloc, g_open, leak, snapVars, retired, walk>>
       /\ g_shard_ctr' \in Pumps /\ oom' \in Nat
  BY <1>0 DEF ctxVars, IInv, Types
<1>11. act'[u].ctx = act[u].ctx /\ act'[u].snaps \in {{}, act[u].snaps} /\ queue' \in Seq(Jobs)
  BY <1>0, <1>6, <1>8
<1>12. QED
  BY <1>0, <1>3, <1>4, <1>5, <1>7, <1>8, <1>9, <1>10, <1>11, QuietStep

\* A sequence without one of its elements.
LEMMA Removed ==
  ASSUME NEW S, NEW q \in Seq(S), NEW i \in 1..Len(q)
  PROVE  /\ RemoveAt(q, i) \in Seq(S) /\ Len(RemoveAt(q, i)) = Len(q) - 1 /\ Len(q) \in Nat
         /\ \A k \in 1..(Len(q) - 1) : RemoveAt(q, i)[k] = IF k < i THEN q[k] ELSE q[k + 1]
<1> DEFINE f == SubSeq(q, 1, i - 1)
           g == SubSeq(q, i + 1, Len(q))
<1>0. Len(q) \in Nat /\ i \in Int /\ 1 <= i /\ i <= Len(q) /\ \A k \in 1..Len(q) : q[k] \in S
  BY ElementOfSeq, LenProperties
<1>1. /\ f \in Seq(S) /\ Len(f) = i - 1 /\ \A k \in 1..(i - 1) : f[k] = q[k]
  <2>1. \A k \in 1..(i - 1) : q[k] \in S
    BY <1>0
  <2>2. /\ f \in Seq(S) /\ Len(f) = IF 1 <= i - 1 THEN i - 1 - 1 + 1 ELSE 0
        /\ \A k \in 1..(i - 1 - 1 + 1) : f[k] = q[1 + k - 1]
    BY <1>0, <2>1, SubSeqProperties
  <2> HIDE DEF f
  <2>3. QED BY <1>0, <2>2
<1>2. /\ g \in Seq(S) /\ Len(g) = Len(q) - i /\ \A k \in 1..(Len(q) - i) : g[k] = q[i + k]
  <2>1. \A k \in (i + 1)..Len(q) : q[k] \in S
    BY <1>0
  <2>2. /\ g \in Seq(S) /\ Len(g) = IF i + 1 <= Len(q) THEN Len(q) - (i + 1) + 1 ELSE 0
        /\ \A k \in 1..(Len(q) - (i + 1) + 1) : g[k] = q[(i + 1) + k - 1]
    BY <1>0, <2>1, SubSeqProperties
  <2> HIDE DEF g
  <2>3. QED BY <1>0, <2>2
<1>3. RemoveAt(q, i) = f \o g
  BY DEF RemoveAt
<1> HIDE DEF f, g
<1>4. /\ f \o g \in Seq(S) /\ Len(f \o g) = Len(f) + Len(g)
      /\ \A k \in 1 .. Len(f) + Len(g) : (f \o g)[k] = IF k <= Len(f) THEN f[k] ELSE g[k - Len(f)]
  BY <1>1, <1>2, ConcatProperties
<1>5. Len(f) + Len(g) = Len(q) - 1
  BY <1>0, <1>1, <1>2
<1>6. ASSUME NEW k \in 1..(Len(q) - 1) PROVE (f \o g)[k] = IF k < i THEN q[k] ELSE q[k + 1]
  <2>1. CASE k < i
    BY <1>0, <1>1, <1>4, <1>5, <2>1
  <2>2. CASE ~(k < i)
    <3>1. k - Len(f) \in 1..(Len(q) - i) /\ i + (k - Len(f)) = k + 1 /\ ~(k <= Len(f))
      BY <1>0, <1>1, <2>2
    <3>2. QED BY <1>2, <1>4, <1>5, <2>2, <3>1
  <2>3. QED BY <2>1, <2>2
<1>7. QED BY <1>0, <1>3, <1>4, <1>5, <1>6

\* A lifecycle thread takes the first job it may run.
LEMMA TakeJobStep ==
  ASSUME IInv, NEW t \in Life, TakeJob(t)
  PROVE  IInv'
<1>0. /\ t \in Actors /\ t \notin Users /\ act[t].pc = "loop"
      /\ act \in [Actors -> ActRec] /\ act[t] \in ActRec /\ queue \in Seq(Jobs)
      /\ UNCHANGED <<ctxVars, snapVars, retired, walk, oom>>
  BY Roles DEF TakeJob, At, IInv, Types
<1>1. PICK i \in Runnable :
        /\ queue' = RemoveAt(queue, i)
        /\ job' = [job EXCEPT ![queue[i]].st = "running"]
        /\ act' = [act EXCEPT ![t].pc = IF job[queue[i]].cancelled THEN "done" ELSE "open",
                              ![t].key = job[queue[i]].key, ![t].job = queue[i]]
  BY DEF TakeJob
<1>2. i \in 1..Len(queue)
  BY DEF Runnable
<1> DEFINE j == queue[i]
           q == IF job[j].cancelled THEN "done" ELSE "open"
           m == [job[j] EXCEPT !.st = "running"]
           n == [act[t] EXCEPT !.pc = q, !.key = job[j].key, !.job = j]
<1>3. j \in Jobs /\ job[j] \in JobRec /\ job[j].st = "queued" /\ job[j].result = None
  <2>1. j \in Jobs
    BY <1>0, <1>2, ElementOfSeq
  <2>2. QED BY <1>2, <2>1 DEF IInv, Types, JobOK
<1>4. m \in JobRec /\ m.st = "running" /\ m.result = None
  BY <1>3 DEF JobRec, JobStates
<1>5. n \in ActRec /\ n.pc \in {"done", "open"} /\ n.job = j /\ n.ctx = act[t].ctx /\ n.snaps = act[t].snaps
  <2>1. q \in Pcs /\ q \in {"done", "open"} /\ job[j].key \in Keys \cup {None}
    BY <1>3 DEF Pcs, JobRec
  <2> HIDE DEF q, j
  <2>2. QED BY <1>0, <1>3, <2>1 DEF ActRec
<1>6. job' = [job EXCEPT ![j] = m] /\ act' = [act EXCEPT ![t] = n]
  BY <1>1
<1>7. queue' = RemoveAt(queue, i)
  BY <1>1
<1> HIDE DEF m, n, q
<1>8. act'[t] = n /\ Moves(t) /\ act' \in [Actors -> ActRec]
  BY <1>0, <1>5, <1>6, Update DEF Moves
<1>9. job' \in [Jobs -> JobRec] /\ job'[j] = m /\ \A k \in Jobs : k # j => job'[k] = job[k]
  BY <1>3, <1>4, <1>6, JobUpdate
<1>10. /\ queue' \in Seq(Jobs) /\ Len(queue') = Len(queue) - 1 /\ Len(queue) \in Nat
       /\ \A k \in 1..(Len(queue) - 1) : queue'[k] = IF k < i THEN queue[k] ELSE queue[k + 1]
  BY <1>0, <1>2, <1>7, Removed
<1>11. ASSUME NEW k \in 1..Len(queue')
       PROVE  \E l \in 1..Len(queue) : /\ l # i /\ queue'[k] = queue[l]
                                       /\ l = IF k < i THEN k ELSE k + 1
  BY <1>2, <1>10
<1>12. \A l \in 1..Len(queue) : l # i => queue[l] # j /\ queue[l] \in Jobs /\ job[queue[l]].st = "queued"
  BY <1>0, <1>2, ElementOfSeq DEF IInv, JobOK
<1>13. JobOK'
  <2>1. \A k \in 1..Len(queue') : job'[queue'[k]].st = "queued"
    BY <1>9, <1>11, <1>12
  <2>2. ASSUME NEW k \in 1..Len(queue'), NEW l \in 1..Len(queue'), queue'[k] = queue'[l] PROVE k = l
    <3>1. PICK x \in 1..Len(queue) : queue'[k] = queue[x] /\ x = IF k < i THEN k ELSE k + 1
      BY <1>11
    <3>2. PICK y \in 1..Len(queue) : queue'[l] = queue[y] /\ y = IF l < i THEN l ELSE l + 1
      BY <1>11
    <3>3. x = y
      BY <2>2, <3>1, <3>2 DEF IInv, JobOK
    <3>4. k \in Int /\ l \in Int /\ i \in Int
      BY <1>10, <1>2
    <3>5. QED BY <3>1, <3>2, <3>3, <3>4
  <2>3. \A v \in Life : v # t => act'[v] = act[v]
    BY <1>8, Roles DEF Moves
  <2>4. \A v \in Life : act[v].pc \in Busy => act[v].job \in Jobs /\ act[v].job # j /\ job[act[v].job].st = "running"
    BY <1>3 DEF IInv, JobOK
  <2>5. \A v \in Life : act'[v].pc \in Busy => act'[v].job \in Jobs /\ job'[act'[v].job].st = "running"
    BY <1>3, <1>4, <1>5, <1>8, <1>9, <2>3, <2>4
  <2>6. \A v, w \in Life : act'[v].pc \in Busy /\ act'[w].pc \in Busy /\ act'[v].job = act'[w].job => v = w
    BY <1>5, <1>8, <2>3, <2>4 DEF IInv, JobOK
  <2>7. \A x \in Users : act'[x].pc = "await" => act'[x].job \in Jobs
    BY <1>0, <1>8, Roles DEF IInv, JobOK, Moves
  <2>8. \A k \in Jobs : job'[k].st # "finished" => job'[k].result = None
    BY <1>4, <1>9 DEF IInv, JobOK
  <2>9. QED BY <2>1, <2>2, <2>5, <2>6, <2>7, <2>8 DEF JobOK
<1>14. act[t].ctx = None
  BY <1>0 DEF IInv, HeldOK, Holding, Away, Leaving
<1>15. /\ act[t].pc \notin Leaving \cup {"pin"} /\ act'[t].pc \notin Leaving \cup {"pin"}
       /\ act[t].pc # "link" /\ act'[t].pc # "link" /\ act'[t].pc \notin Holding \ {"done"}
  BY <1>0, <1>5, <1>8 DEF Leaving, Holding
<1>16. /\ UNCHANGED <<ctx, alloc, g_open, leak, snapVars, retired, walk>>
       /\ g_shard_ctr' \in Pumps /\ oom' \in Nat
  BY <1>0 DEF ctxVars, IInv, Types
<1>17. \A k \in Jobs : job'[k].result = job[k].result
  BY <1>3, <1>4, <1>9
<1>18. act'[t].ctx = act[t].ctx /\ act'[t].snaps \in {{}, act[t].snaps}
  BY <1>5, <1>8
<1>19. QED
  BY <1>0, <1>8, <1>9, <1>10, <1>13, <1>14, <1>15, <1>16, <1>17, <1>18, QuietStep

\* A job that is not queued comes to its end.
LEMMA JobEnds ==
  ASSUME IInv, NEW a \in Actors, Moves(a), act'[a].pc \notin Busy, act'[a].pc # "await",
         NEW j \in Jobs, job[j].st # "queued",
         \A t \in Life : t # a /\ act[t].pc \in Busy => act[t].job # j,
         \A i \in Jobs : i # j => job'[i] = job[i],
         job'[j].st # "finished" => job'[j].result = None, queue' = queue
  PROVE  JobOK'
<1>1. \A i \in 1..Len(queue) : queue[i] \in Jobs /\ queue[i] # j /\ job[queue[i]].st = "queued"
  <2>1. queue \in Seq(Jobs)
    BY DEF IInv, Types
  <2>2. QED BY <2>1, ElementOfSeq DEF IInv, JobOK
<1>2. \A i \in 1..Len(queue') : job'[queue'[i]].st = "queued"
  BY <1>1
<1>3. \A i, k \in 1..Len(queue') : queue'[i] = queue'[k] => i = k
  BY DEF IInv, JobOK
<1>4. \A t \in Life : act'[t].pc \in Busy => t # a /\ act'[t] = act[t]
  BY Roles DEF Moves
<1>5. \A t \in Life : act'[t].pc \in Busy => act'[t].job \in Jobs /\ job'[act'[t].job].st = "running"
  BY <1>4 DEF IInv, JobOK
<1>6. \A t, v \in Life : act'[t].pc \in Busy /\ act'[v].pc \in Busy /\ act'[t].job = act'[v].job => t = v
  BY <1>4 DEF IInv, JobOK
<1>7. \A u \in Users : act'[u].pc = "await" => act'[u].job \in Jobs
  BY Roles DEF IInv, JobOK, Moves
<1>8. \A i \in Jobs : job'[i].st # "finished" => job'[i].result = None
  BY DEF IInv, JobOK
<1>9. QED BY <1>2, <1>3, <1>5, <1>6, <1>7, <1>8 DEF JobOK

\* A context passes between an actor and the result of a job.
LEMMA Pass ==
  ASSUME IInv, NEW a \in Actors, a \notin Pumps, Moves(a), act' \in [Actors -> ActRec],
         act[a].pc \in {"await", "done"}, act'[a].pc \in {"idle", "hold", "reap"},
         act'[a].snaps = {}, act'[a].pc = "hold" <=> act'[a].ctx # None,
         NEW j \in Jobs, job' \in [Jobs -> JobRec], \A i \in Jobs : i # j => job'[i] = job[i],
         Held(a)' = job[j].result, job'[j].result = Held(a),
         Held(a) = None \/ job[j].result = None, JobOK', queue' = queue,
         UNCHANGED <<ctx, alloc, g_open, leak, g_shard_ctr, snapVars, retired, walk, oom>>
  PROVE  IInv'
<1> USE DEF IInv
<1>u. /\ ctx' = ctx /\ alloc' = alloc /\ g_open' = g_open /\ leak' = leak
      /\ entries' = entries /\ g_snapshot' = g_snapshot /\ g_retired' = g_retired
      /\ retired' = retired /\ walk' = walk /\ g_shard_ctr' = g_shard_ctr /\ oom' = oom
  BY DEF snapVars
<1>1. Types'
  BY <1>u DEF Types, SnapsLive
<1>2. Held(a)' = act'[a].ctx /\ (Held(a) # None => Held(a) \in g_open)
  BY DEF Held, HeldOK, Holding
<1>3. job[j].result # None => job[j].result \in g_open
  BY DEF HeldOK
<1>4. HeldOK'
  <2>1. \A b \in Actors : act'[b].pc \in Holding /\ act'[b].ctx # None => act'[b].ctx \in g_open
    BY <1>2, <1>3 DEF HeldOK, Moves
  <2>2. \A b \in Actors : act'[b].pc \in (Holding \cup Away) \ {"done", "mark"} => act'[b].ctx # None
    BY DEF HeldOK, Moves, Holding, Away, Leaving
  <2>3. \A b \in Actors : act'[b].pc \notin Holding \cup Away => act'[b].ctx = None
    BY DEF HeldOK, Moves, Holding, Away, Leaving
  <2>4. \A i \in Jobs : job'[i].result # None => job'[i].result \in g_open
    BY <1>2 DEF HeldOK
  <2>5. QED BY <1>u, <2>1, <2>2, <2>3, <2>4 DEF HeldOK
<1>5. AwayOK' /\ AwayCounts'
  <2>1. act[a].pc \notin Away /\ act'[a].pc \notin Away
    BY DEF Away, Leaving
  <2>2. QED BY <1>u, <2>1, QuietAway
<1>6. SnapOwners' /\ Published' /\ WalkOK'
  <2>1. act[a].pc \notin Leaving \cup {"pin"} /\ act'[a].pc \notin Leaving \cup {"pin"}
    BY DEF Leaving
  <2>2. QED BY <1>u, <2>1, QuietWalk
<1>7. ShardOK'
  BY <1>u, QuietShard
<1>8. OneAlive'
  BY <1>u, QuietAlive
<1>9. Counts'
  <2>1. \A b \in Actors : b # a => Held(b)' = Held(b)
    BY DEF Held, Moves
  <2>2. \A i \in Jobs : i # j => job'[i].result = job[i].result
    OBVIOUS
  <2>3. ASSUME NEW c \in g_open PROVE Cardinality(Holders(c)') = Cardinality(Holders(c))
    <3>1. c \in Ctxs
      BY DEF Types
    <3>2. QED BY <2>1, <2>2, <3>1, HoldersPass
  <2>4. \A c \in g_open : Cardinality(Pinners(c)') = Cardinality(Pinners(c))
    BY <1>u, PinnersSame
  <2>5. QED BY <1>u, <2>3, <2>4 DEF Counts
<1>10. QED BY <1>1, <1>4, <1>5, <1>6, <1>7, <1>8, <1>9

\* A request takes the result of its job.
LEMMA TakeResultStep ==
  ASSUME IInv, NEW u \in Requests, capture_open_job_take(u)
  PROVE  IInv'
<1>0. PICK j \in Jobs : j = act[u].job
  BY Roles DEF capture_open_job_take, At, IInv, JobOK
<1>1. PICK c \in MaybeCtx : c = job[j].result
  BY DEF IInv, Types, JobRec
<1>2. /\ u \in Actors /\ u \in Users /\ u \notin Life /\ u \notin Pumps /\ act[u].pc = "await"
      /\ act \in [Actors -> ActRec] /\ queue' = queue
      /\ job[j].st = "finished" /\ Opened(u, c)
      /\ UNCHANGED <<ctx, alloc, g_open, leak, g_shard_ctr, snapVars, retired, walk, oom>>
  BY <1>0, <1>1, Roles DEF capture_open_job_take, At, IInv, Types, ctxVars
<1>3. PICK m \in JobRec : m = FreeJob
  BY DEF FreeJob, JobRec, JobStates, MaybeCtx
<1>4. m.st = "free" /\ m.result = None
  BY <1>3 DEF FreeJob
<1>5. job' = [job EXCEPT ![j] = m]
  BY <1>0, <1>3 DEF capture_open_job_take
<1>6. job' \in [Jobs -> JobRec] /\ job'[j] = m /\ \A i \in Jobs : i # j => job'[i] = job[i]
  BY <1>5, JobUpdate
<1>7. /\ act' \in [Actors -> ActRec] /\ Moves(u) /\ act'[u].ctx = c
      /\ act'[u].snaps \in {{}, act[u].snaps}
      /\ act'[u].pc \in {"idle", "hold"} /\ (act'[u].pc = "hold" <=> c # None)
  BY <1>2, OpenedFacts
<1>8. act[u].snaps = {}
  BY <1>2 DEF IInv, SnapOwners
<1>9. JobOK'
  <2>1. act'[u].pc \notin Busy /\ act'[u].pc # "await" /\ job[j].st # "queued"
    BY <1>2, <1>7 DEF Busy
  <2>2. \A t \in Life : t # u /\ act[t].pc \in Busy => act[t].job # j
    BY <1>2 DEF IInv, JobOK
  <2>3. QED BY <1>2, <1>4, <1>6, <1>7, <2>1, <2>2, JobEnds
<1>10. Held(u) = None /\ Held(u)' = c
  BY <1>2, <1>7 DEF Held, Holding
<1>11. /\ act'[u].snaps = {} /\ (act'[u].pc = "hold" <=> act'[u].ctx # None)
       /\ act[u].pc \in {"await", "done"} /\ act'[u].pc \in {"idle", "hold", "reap"}
       /\ Held(u)' = job[j].result /\ job'[j].result = Held(u)
  BY <1>1, <1>2, <1>4, <1>6, <1>7, <1>8, <1>10
<1>12. QED
  BY <1>2, <1>6, <1>7, <1>9, <1>10, <1>11, Pass

\* A lifecycle thread ends a job.
LEMMA JobDoneStep ==
  ASSUME IInv, NEW t \in Life, JobDone(t)
  PROVE  IInv'
<1>0. PICK j \in Jobs : j = act[t].job
  BY DEF JobDone, At, IInv, JobOK, Busy
<1>1. PICK c \in MaybeCtx : c = act[t].ctx
  BY Roles DEF IInv, Types, ActRec
<1>2. /\ t \in Actors /\ t \notin Users /\ t \notin Pumps /\ act[t].pc = "done"
      /\ act \in [Actors -> ActRec] /\ job[j] \in JobRec /\ queue' = queue /\ queue \in Seq(Jobs)
      /\ g_shard_ctr \in Pumps /\ oom \in Nat
      /\ UNCHANGED <<ctx, alloc, g_open, leak, g_shard_ctr, snapVars, retired, walk, oom>>
  BY Roles DEF JobDone, At, IInv, Types, ctxVars
<1>3. /\ job[j].st = "running" /\ job[j].result = None /\ act[t].snaps = {}
      /\ \A v \in Life : v # t /\ act[v].pc \in Busy => act[v].job # j
  BY <1>0, <1>2 DEF IInv, JobOK, Busy, SnapOwners
<1>4. CASE job[j].cancelled
  <2>1. PICK m \in JobRec : m = FreeJob
    BY DEF FreeJob, JobRec, JobStates, MaybeCtx
  <2>2. m.st = "free" /\ m.result = None
    BY <2>1 DEF FreeJob
  <2>3. job' = [job EXCEPT ![j] = m]
    BY <1>0, <1>4, <2>1 DEF JobDone
  <2>4. job' \in [Jobs -> JobRec] /\ job'[j] = m /\ \A i \in Jobs : i # j => job'[i] = job[i]
    BY <2>3, JobUpdate
  <2> DEFINE n == IF c = None THEN Rest(t) ELSE [Rest(t) EXCEPT !.pc = "hold", !.ctx = c]
  <2>5. act' = [act EXCEPT ![t] = n]
    BY <1>0, <1>1, <1>4 DEF JobDone
  <2>6. /\ n \in ActRec /\ n.ctx = c /\ n.snaps = {}
        /\ c = None => n.pc = "reap"
        /\ c # None => n.pc = "hold"
    <3>1. CASE c = None
      BY <1>2, <3>1, RestFacts
    <3>2. CASE c # None
      <4>1. n = [Rest(t) EXCEPT !.pc = "hold", !.ctx = c]
        BY <3>2
      <4> HIDE DEF n
      <4>2. QED BY <1>2, <3>2, <4>1, RestFacts DEF ActRec, Pcs
    <3>3. QED BY <3>1, <3>2
  <2> HIDE DEF n
  <2>7. act'[t] = n /\ Moves(t) /\ act' \in [Actors -> ActRec]
    BY <1>2, <2>5, <2>6, Update DEF Moves
  <2>8. act'[t].pc \in {"reap", "hold"} /\ act'[t].ctx = act[t].ctx /\ act'[t].snaps = {}
        /\ (act[t].ctx = None => act'[t].pc = "reap") /\ (act[t].ctx # None => act'[t].pc = "hold")
    BY <1>1, <2>6, <2>7
  <2>9. JobOK'
    <3>1. act'[t].pc \notin Busy /\ act'[t].pc # "await" /\ job[j].st # "queued"
      BY <1>3, <2>8 DEF Busy
    <3>2. QED BY <1>2, <1>3, <2>2, <2>4, <2>7, <3>1, JobEnds
  <2>10. /\ act[t].pc \notin Leaving \cup {"pin"} /\ act'[t].pc \notin Leaving \cup {"pin"}
         /\ act[t].pc # "link" /\ act'[t].pc # "link"
         /\ act[t].ctx # None => (act[t].pc \in Holding <=> act'[t].pc \in Holding)
         /\ act[t].ctx = None => act'[t].pc \notin Holding \ {"done"}
    BY <1>2, <2>8 DEF Leaving, Holding
  <2>11. \A i \in Jobs : job'[i].result = job[i].result
    BY <1>3, <2>2, <2>4
  <2>12. /\ act'[t].ctx = act[t].ctx /\ act'[t].snaps \in {{}, act[t].snaps}
         /\ queue' \in Seq(Jobs) /\ g_shard_ctr' \in Pumps /\ oom' \in Nat
         /\ UNCHANGED <<ctx, alloc, g_open, leak, snapVars, retired, walk>>
    BY <1>2, <2>8
  <2>13. QED BY <1>2, <2>4, <2>7, <2>9, <2>10, <2>11, <2>12, QuietStep
<1>5. CASE ~job[j].cancelled
  <2> DEFINE m == [job[j] EXCEPT !.st = "finished", !.result = c]
  <2>1. m \in JobRec /\ m.st = "finished" /\ m.result = c
    BY <1>2 DEF JobRec, JobStates
  <2>2. job' = [job EXCEPT ![j] = m] /\ Return(t)
    BY <1>0, <1>1, <1>5 DEF JobDone
  <2> HIDE DEF m
  <2>3. job' \in [Jobs -> JobRec] /\ job'[j] = m /\ \A i \in Jobs : i # j => job'[i] = job[i]
    BY <2>1, <2>2, JobUpdate
  <2>4. act' \in [Actors -> ActRec] /\ Moves(t) /\ act'[t] = Rest(t)
    BY <1>2, <2>2, ReturnFacts
  <2>5. act'[t].pc = "reap" /\ act'[t].ctx = None /\ act'[t].snaps = {}
    BY <1>2, <2>4, RestFacts
  <2>6. JobOK'
    <3>1. act'[t].pc \notin Busy /\ act'[t].pc # "await" /\ job[j].st # "queued"
      BY <1>3, <2>5 DEF Busy
    <3>2. QED BY <1>2, <1>3, <2>1, <2>3, <2>4, <3>1, JobEnds
  <2>7. Held(t) = c /\ Held(t)' = None
    BY <1>1, <1>2, <2>5 DEF Held, Holding
  <2>8. /\ act'[t].snaps = {} /\ (act'[t].pc = "hold" <=> act'[t].ctx # None)
        /\ act[t].pc \in {"await", "done"} /\ act'[t].pc \in {"idle", "hold", "reap"}
        /\ Held(t)' = job[j].result /\ job'[j].result = Held(t)
    BY <1>2, <1>3, <2>1, <2>3, <2>5, <2>7
  <2>9. QED BY <1>2, <1>3, <2>3, <2>4, <2>6, <2>8, Pass
<1>6. QED BY <1>4, <1>5

-----------------------------------------------------------------------------
(* Pumps.                                                                  *)

\* A step of a pump, in its loop, that changes counts and its own walk.
LEMMA PumpFrame ==
  ASSUME IInv, NEW p \in Pumps, Moves(p), act' \in [Actors -> ActRec],
         act[p].pc \in {"loop", "pin", "release"},
         act'[p].pc \in {"loop", "pin", "release", "slow"}, act'[p].snaps = {},
         act'[p].pc = "slow" => act'[p].ctx \in g_open /\ ctx[act'[p].ctx].pump_shard = p,
         act'[p].pc # "slow" => act'[p].ctx = None,
         walk' \in [Pumps -> WalkRec], \A q \in Pumps : q # p => walk'[q] = walk[q],
         ctx' \in [Ctxs -> CtxRec],
         \A c \in Ctxs : /\ ctx'[c].key = ctx[c].key /\ ctx'[c].pump_shard = ctx[c].pump_shard
                         /\ ctx[c].dead => ctx'[c].dead
                         /\ c \notin g_open => ctx'[c].refcount = ctx[c].refcount,
         walk'[p].pinned \subseteq g_open,
         \A c \in walk'[p].todo \cup walk'[p].pinned : ctx[c].pump_shard = p,
         act'[p].pc # "pin" => walk'[p].todo = {} /\ walk'[p].snap = None,
         walk'[p].snap = None => walk'[p].todo = {},
         walk'[p].snap # None => SnapKept(p, walk'[p].snap),
         \A c \in walk'[p].todo : CtxKept(p, c), Counts',
         UNCHANGED <<alloc, g_open, leak, g_shard_ctr, snapVars, retired, jobVars, oom>>
  PROVE  IInv'
<1> USE DEF IInv
<1>u. /\ alloc' = alloc /\ g_open' = g_open /\ leak' = leak /\ g_shard_ctr' = g_shard_ctr
      /\ entries' = entries /\ g_snapshot' = g_snapshot /\ g_retired' = g_retired
      /\ retired' = retired /\ job' = job /\ queue' = queue /\ oom' = oom
  BY DEF snapVars, jobVars
<1>0. p \in Actors /\ act[p].snaps = {} /\ act[p].ctx = None /\ Pumps \subseteq Actors
  BY Roles DEF SnapOwners, HeldOK, Holding, Away, Leaving
<1>1. Types'
  BY <1>u DEF Types, SnapsLive
<1>2. HeldOK'
  <2>1. \A b \in Actors : act'[b].pc \in Holding /\ act'[b].ctx # None => act'[b].ctx \in g_open
    BY DEF HeldOK, Moves, Holding
  <2>2. \A b \in Actors : act'[b].pc \in (Holding \cup Away) \ {"done", "mark"} => act'[b].ctx # None
    <3>1. act'[p].pc = "slow" => act'[p].ctx # None
      BY Roles DEF Types
    <3>2. act'[p].pc # "slow" => act'[p].pc \notin Holding \cup Away
      BY DEF Holding, Away, Leaving
    <3>3. QED BY <3>1, <3>2 DEF HeldOK, Moves
  <2>3. \A b \in Actors : act'[b].pc \notin Holding \cup Away => act'[b].ctx = None
    BY DEF HeldOK, Moves, Holding, Away, Leaving
  <2>4. \A q \in Pumps : walk'[q].pinned \subseteq g_open
    BY DEF HeldOK
  <2>5. QED BY <1>u, <2>1, <2>2, <2>3, <2>4 DEF HeldOK
<1>3. AwayOK' /\ AwayCounts'
  <2>1. act[p].pc \notin Away /\ act'[p].pc \notin Away
    BY DEF Away, Leaving
  <2>2. \A c \in alloc : c \notin g_open => ctx'[c].refcount = ctx[c].refcount
    BY DEF Types
  <2>3. QED BY <1>u, <1>0, <2>1, <2>2, QuietAway
<1>4. SnapOwners'
  <2>1. \A b \in Actors : act'[b].snaps = act[b].snaps
    BY <1>0 DEF Moves
  <2>2. \A b \in Actors : act'[b].snaps # {} => act'[b].pc \in {"mark", "free"}
    BY DEF SnapOwners, Moves
  <2>3. QED BY <1>u, <2>1, <2>2 DEF SnapOwners, SnapsLive
<1>5. Published'
  BY <1>u DEF Published, SnapsLive
<1>6. ASSUME NEW q \in Pumps, NEW c, CtxKept(q, c) PROVE CtxKept(q, c)'
  <2>1. \A b \in Actors : act[b].pc \in {"retire", "mark", "wait"} => act'[b] = act[b]
    BY DEF Moves
  <2>2. QED BY <1>u, <1>6, <2>1 DEF CtxKept
<1>7. ASSUME NEW q \in Pumps, NEW s, SnapKept(q, s) PROVE SnapKept(q, s)'
  <2>1. \A b \in Actors : act[b].snaps # {} => act'[b] = act[b]
    BY <1>0 DEF Moves
  <2>2. QED BY <1>u, <1>7, <2>1 DEF SnapKept
<1>8. WalkOK'
  <2>1. ASSUME NEW q \in Pumps, q # p
        PROVE  /\ act'[q].pc # "pin" => walk'[q].todo = {} /\ walk'[q].snap = None
               /\ walk'[q].snap = None => walk'[q].todo = {}
               /\ walk'[q].snap # None => SnapKept(q, walk[q].snap)'
               /\ \A c \in walk'[q].todo : CtxKept(q, c)'
    <3>1. act'[q] = act[q] /\ walk'[q] = walk[q]
      BY <1>0, <2>1 DEF Moves
    <3>2. walk[q].snap # None => SnapKept(q, walk[q].snap)
      BY DEF WalkOK
    <3>3. walk'[q].snap # None => SnapKept(q, walk[q].snap)'
      BY <3>1, <3>2, <1>7 DEF SnapKept
    <3>4. QED BY <3>1, <3>3, <1>6 DEF WalkOK
  <2>2. walk'[p].snap # None => SnapKept(p, walk[p].snap)'
    BY <1>7 DEF SnapKept
  <2>3. \A c \in walk'[p].todo : CtxKept(p, c)'
    BY <1>6
  <2>4. QED BY <2>1, <2>2, <2>3 DEF WalkOK
<1>9. ShardOK'
  <2>1. \A q \in Pumps : walk'[q].todo \subseteq Ctxs /\ walk'[q].pinned \subseteq Ctxs
    BY DEF WalkRec
  <2>2. \A q \in Pumps : \A c \in walk'[q].todo \cup walk'[q].pinned : ctx'[c].pump_shard = q
    BY <2>1 DEF ShardOK
  <2>3. ASSUME NEW q \in Pumps, act'[q].pc \in Holding \cup Away, act'[q].ctx # None
        PROVE  ctx'[act'[q].ctx].pump_shard = q
    <3>1. act'[q].ctx \in Ctxs
      BY <1>0, <2>3 DEF ActRec, MaybeCtx
    <3>2. CASE q = p
      BY <2>3, <3>1, <3>2
    <3>3. CASE q # p
      <4>1. act'[q] = act[q]
        BY <1>0, <3>3 DEF Moves
      <4>2. QED BY <2>3, <3>1, <4>1 DEF ShardOK
    <3>4. QED BY <3>2, <3>3
  <2>4. QED BY <2>2, <2>3 DEF ShardOK
<1>10. JobOK'
  <2>1. p \notin Life
    BY Roles
  <2>2. QED BY <1>u, <1>0, <2>1, QuietJob
<1>11. OneAlive'
  BY <1>u, QuietAlive DEF Types
<1>12. QED
  BY <1>1, <1>2, <1>3, <1>4, <1>5, <1>8, <1>9, <1>10, <1>11

\* A walk that replaces another one.
LEMMA WalkUpdate ==
  ASSUME IInv, NEW p \in Pumps, NEW w \in WalkRec, walk' = [walk EXCEPT ![p] = w]
  PROVE  /\ walk' \in [Pumps -> WalkRec] /\ walk'[p] = w
         /\ \A q \in Pumps : q # p => walk'[q] = walk[q]
BY Update DEF IInv, Types

\* Nobody takes or drops a reference.
LEMMA CountsSame ==
  ASSUME IInv, \A a \in Actors : Held(a)' = Held(a), job' = job,
         \A p \in Pumps : walk'[p].pinned = walk[p].pinned,
         \A c \in g_open : ctx'[c].refcount = ctx[c].refcount, leak' = leak, g_open' = g_open
  PROVE  Counts'
<1>1. ASSUME NEW c \in g_open PROVE Holders(c)' = Holders(c)
  <2>1. c \in Ctxs
    BY DEF IInv, Types
  <2>2. \A x : x \in Holders(c)' <=> x \in Holders(c)
    BY <2>1, HoldersAre
  <2>3. QED BY <2>2
<1>2. \A c \in g_open : Cardinality(Pinners(c)') = Cardinality(Pinners(c))
  BY PinnersSame
<1>3. QED BY <1>1, <1>2 DEF IInv, Counts

\* A pump loads the published snapshot.
LEMMA LoadStep ==
  ASSUME IInv, NEW p \in Pumps, PumpLoad(p)
  PROVE  IInv'
<1> DEFINE t == IF g_snapshot = None THEN {}
                ELSE {c \in entries[g_snapshot] : ctx[c].pump_shard = p}
           w == [walk[p] EXCEPT !.snap = g_snapshot, !.todo = t]
           n == [act[p] EXCEPT !.pc = "pin"]
<1>0. /\ p \in Actors /\ act[p].pc = "loop" /\ act \in [Actors -> ActRec] /\ act[p] \in ActRec
      /\ walk[p] \in WalkRec /\ g_snapshot \in Snaps \cup {None}
      /\ UNCHANGED <<ctx, alloc, g_open, leak, g_shard_ctr, snapVars, retired, jobVars, oom>>
      /\ ctx \in [Ctxs -> CtxRec]
  BY Roles DEF PumpLoad, At, IInv, Types, ctxVars
<1>1. walk' = [walk EXCEPT ![p] = w] /\ act' = [act EXCEPT ![p] = n]
  BY DEF PumpLoad
<1>2. /\ t \subseteq g_open /\ \A c \in t : ctx[c].pump_shard = p
      /\ g_snapshot = None => t = {}
  BY DEF IInv, Published
<1>3. t \in SUBSET Ctxs
  BY <1>2 DEF IInv, Types
<1> HIDE DEF t
<1>4. w \in WalkRec /\ w.snap = g_snapshot /\ w.todo = t /\ w.pinned = walk[p].pinned
  BY <1>0, <1>3 DEF WalkRec
<1>5. n \in ActRec /\ n.pc = "pin" /\ n.ctx = act[p].ctx /\ n.snaps = act[p].snaps
  BY <1>0 DEF ActRec, Pcs
<1> HIDE DEF w, n
<1>6. act'[p] = n /\ Moves(p) /\ act' \in [Actors -> ActRec]
  BY <1>0, <1>1, <1>5, Update DEF Moves
<1>7. /\ walk' \in [Pumps -> WalkRec] /\ walk'[p] = w
      /\ \A q \in Pumps : q # p => walk'[q] = walk[q]
  BY <1>1, <1>4, WalkUpdate
<1>8. act[p].ctx = None /\ act[p].snaps = {}
  BY <1>0 DEF IInv, HeldOK, SnapOwners, Holding, Away, Leaving
<1>9. Counts'
  <2>1. \A a \in Actors : Held(a)' = Held(a)
    BY <1>0, <1>5, <1>6, <1>8 DEF Held, Moves
  <2>2. \A q \in Pumps : walk'[q].pinned = walk[q].pinned
    BY <1>4, <1>7
  <2>3. QED BY <1>0, <2>1, <2>2, CountsSame DEF jobVars
<1>10. /\ walk'[p].pinned \subseteq g_open
       /\ \A c \in walk'[p].todo \cup walk'[p].pinned : ctx[c].pump_shard = p
  BY <1>2, <1>4, <1>7 DEF IInv, HeldOK, ShardOK
<1>11. /\ walk'[p].snap = None => walk'[p].todo = {}
       /\ walk'[p].snap # None => SnapKept(p, walk'[p].snap)
       /\ \A c \in walk'[p].todo : CtxKept(p, c)
  BY <1>2, <1>4, <1>7 DEF SnapKept, CtxKept
<1>12. act'[p].pc = "pin" /\ act'[p].ctx = None /\ act'[p].snaps = {}
  BY <1>5, <1>6, <1>8
<1>13. QED
  BY <1>0, <1>6, <1>7, <1>9, <1>10, <1>11, <1>12, PumpFrame

\* A pump pins the next context of its snapshot, or leaves it alone.
LEMMA PinStep ==
  ASSUME IInv, PinOK, NEW p \in Pumps, try_pin(p)
  PROVE  IInv'
<1>1. PICK c \in walk[p].todo :
        IF ctx[c].refcount > 0
        THEN Ref(c) /\ walk' = [walk EXCEPT ![p].todo = @ \ {c}, ![p].pinned = @ \cup {c}]
        ELSE walk' = [walk EXCEPT ![p].todo = @ \ {c}] /\ UNCHANGED ctx
  BY DEF try_pin
<1>0. /\ p \in Actors /\ act[p].pc = "pin" /\ act \in [Actors -> ActRec] /\ act' = act /\ Types
      /\ walk[p] \in WalkRec /\ c \in Ctxs /\ c # None /\ ctx[c].refcount \in Nat
      /\ UNCHANGED <<alloc, g_open, leak, g_shard_ctr, snapVars, retired, jobVars, oom>>
      /\ ctx \in [Ctxs -> CtxRec]
  BY Roles DEF try_pin, At, IInv, Types, WalkRec, CtxRec
<1>2. act[p].ctx = None /\ act[p].snaps = {}
  BY <1>0 DEF IInv, HeldOK, SnapOwners, Holding, Away, Leaving
<1>3. Moves(p) /\ \A a \in Actors : Held(a)' = Held(a)
  BY <1>0 DEF Moves, Held
<1>4. CASE ctx[c].refcount > 0
  <2> DEFINE w == [walk[p] EXCEPT !.todo = @ \ {c}, !.pinned = @ \cup {c}]
  <2>1. Ref(c) /\ walk' = [walk EXCEPT ![p] = w]
    BY <1>1, <1>4
  <2>2. /\ w \in WalkRec /\ w.snap = walk[p].snap /\ w.todo = walk[p].todo \ {c}
        /\ w.pinned = walk[p].pinned \cup {c}
    BY <1>0 DEF WalkRec
  <2> HIDE DEF w
  <2>3. /\ walk' \in [Pumps -> WalkRec] /\ walk'[p] = w
        /\ \A q \in Pumps : q # p => walk'[q] = walk[q]
    BY <2>1, <2>2, WalkUpdate
  <2>4. /\ ctx' \in [Ctxs -> CtxRec] /\ ctx'[c].refcount = ctx[c].refcount + 1
        /\ \A d \in Ctxs : d # c => ctx'[d] = ctx[d]
        /\ \A d \in Ctxs : /\ ctx'[d].key = ctx[d].key /\ ctx'[d].dead = ctx[d].dead
                           /\ ctx'[d].pump_shard = ctx[d].pump_shard
    BY <1>0, <2>1, RefFacts
  \* a context with a count is linked: what waits to be freed has none
  <2>5. c \in g_open
    <3>1. CtxKept(p, c)
      BY DEF IInv, WalkOK
    <3>2. ASSUME NEW a \in Actors, act[a].ctx = c, act[a].pc \in {"retire", "mark", "wait"}
          PROVE  FALSE
      BY <1>0, <1>4, <3>2 DEF IInv, AwayCounts, Leaving
    <3>3. ASSUME NEW r \in retired, r.ctx = c PROVE FALSE
      BY <1>0, <1>4, <3>3 DEF IInv, AwayCounts
    <3>4. QED BY <3>1, <3>2, <3>3 DEF CtxKept
  <2>6. c \notin walk[p].pinned
    BY DEF PinOK
  <2>7. QED
    <3>1. Counts'
      <4>1. ASSUME NEW d \in g_open
            PROVE  ctx'[d].refcount = Cardinality(Holders(d)') + Cardinality(Pinners(d)') + leak'[d]
        <5>0. d \in Ctxs /\ ctx[d].refcount \in Nat /\ leak[d] \in Nat /\ leak' = leak
          BY <1>0 DEF Types, CtxRec
        <5>1. ctx[d].refcount = Cardinality(Holders(d)) + Cardinality(Pinners(d)) + leak[d]
          BY DEF IInv, Counts
        <5>2. Cardinality(Holders(d)') = Cardinality(Holders(d))
          <6>1. \A i \in Jobs : job'[i].result = job[i].result
            BY <1>0 DEF jobVars
          <6>2. QED BY <1>0, <1>3, <5>0, <6>1, HoldersMove
        <5>3. \A q \in Pumps : q # p => walk'[q].pinned = walk[q].pinned
          BY <2>3
        <5>4. CASE d = c
          <6>1. Cardinality(Pinners(d)') = Cardinality(Pinners(d)) + 1
            BY <2>2, <2>3, <2>6, <5>0, <5>3, <5>4, PinnersMove
          <6>2. QED BY <2>4, <5>0, <5>1, <5>2, <5>4, <6>1, FiniteRefs
        <5>5. CASE d # c
          <6>1. Cardinality(Pinners(d)') = Cardinality(Pinners(d))
            BY <2>2, <2>3, <5>0, <5>3, <5>5, PinnersMove
          <6>2. QED BY <2>4, <5>0, <5>1, <5>2, <5>5, <6>1
        <5>6. QED BY <5>4, <5>5
      <4>2. QED BY <1>0, <4>1 DEF Counts
    <3>2. /\ walk'[p].pinned \subseteq g_open
          /\ \A d \in walk'[p].todo \cup walk'[p].pinned : ctx[d].pump_shard = p
      BY <2>2, <2>3, <2>5 DEF IInv, HeldOK, ShardOK
    <3>3. /\ walk'[p].snap = None => walk'[p].todo = {}
          /\ walk'[p].snap # None => SnapKept(p, walk'[p].snap)
          /\ \A d \in walk'[p].todo : CtxKept(p, d)
      BY <2>2, <2>3 DEF IInv, WalkOK
    <3>4. \A d \in Ctxs : /\ ctx[d].dead => ctx'[d].dead
                          /\ d \notin g_open => ctx'[d].refcount = ctx[d].refcount
      BY <2>4, <2>5
    <3>5. QED
      BY <1>0, <1>2, <1>3, <2>3, <2>4, <3>1, <3>2, <3>3, <3>4, PumpFrame
<1>5. CASE ~(ctx[c].refcount > 0)
  <2> DEFINE w == [walk[p] EXCEPT !.todo = @ \ {c}]
  <2>1. ctx' = ctx /\ walk' = [walk EXCEPT ![p] = w]
    BY <1>1, <1>5
  <2>2. /\ w \in WalkRec /\ w.snap = walk[p].snap /\ w.todo = walk[p].todo \ {c}
        /\ w.pinned = walk[p].pinned
    BY <1>0 DEF WalkRec
  <2> HIDE DEF w
  <2>3. /\ walk' \in [Pumps -> WalkRec] /\ walk'[p] = w
        /\ \A q \in Pumps : q # p => walk'[q] = walk[q]
    BY <2>1, <2>2, WalkUpdate
  <2>4. Counts'
    <3>1. \A q \in Pumps : walk'[q].pinned = walk[q].pinned
      BY <2>2, <2>3
    <3>2. QED BY <1>0, <1>3, <2>1, <3>1, CountsSame DEF jobVars
  <2>5. /\ walk'[p].pinned \subseteq g_open
        /\ \A d \in walk'[p].todo \cup walk'[p].pinned : ctx[d].pump_shard = p
    BY <2>2, <2>3 DEF IInv, HeldOK, ShardOK
  <2>6. /\ walk'[p].snap = None => walk'[p].todo = {}
        /\ walk'[p].snap # None => SnapKept(p, walk'[p].snap)
        /\ \A d \in walk'[p].todo : CtxKept(p, d)
    BY <2>2, <2>3 DEF IInv, WalkOK
  <2>7. QED
    BY <1>0, <1>2, <1>3, <2>1, <2>3, <2>4, <2>5, <2>6, PumpFrame
<1>6. QED BY <1>4, <1>5

\* A pump drains what it has pinned; some sources turn out dead.
LEMMA DrainStep ==
  ASSUME IInv, NEW p \in Pumps, PumpDrain(p)
  PROVE  IInv'
<1> DEFINE w == [walk[p] EXCEPT !.snap = None]
           n == [act[p] EXCEPT !.pc = "release"]
<1>0. /\ p \in Actors /\ act[p].pc = "pin" /\ act \in [Actors -> ActRec] /\ act[p] \in ActRec
      /\ walk[p] \in WalkRec /\ walk[p].todo = {} /\ ctx \in [Ctxs -> CtxRec]
      /\ UNCHANGED <<alloc, g_open, leak, g_shard_ctr, snapVars, retired, jobVars, oom>>
  BY Roles DEF PumpDrain, At, IInv, Types
<1>1. walk' = [walk EXCEPT ![p] = w] /\ act' = [act EXCEPT ![p] = n]
  BY DEF PumpDrain
<1>2. PICK D : ctx' = [c \in Ctxs |-> [ctx[c] EXCEPT !.dead = @ \/ c \in D]]
  BY DEF PumpDrain
<1>3. ASSUME NEW c \in Ctxs
      PROVE  /\ ctx'[c] \in CtxRec /\ ctx'[c].key = ctx[c].key /\ ctx'[c].refcount = ctx[c].refcount
             /\ ctx'[c].pump_shard = ctx[c].pump_shard /\ (ctx[c].dead => ctx'[c].dead)
  <2>1. PICK b \in BOOLEAN : b = (ctx[c].dead \/ c \in D)
    OBVIOUS
  <2>2. ctx'[c] = [ctx[c] EXCEPT !.dead = b]
    BY <1>2, <2>1
  <2>3. ctx[c] \in CtxRec
    BY <1>0
  <2>4. [ctx[c] EXCEPT !.dead = b] \in CtxRec /\ [ctx[c] EXCEPT !.dead = b].dead = b
    BY <2>3 DEF CtxRec
  <2>5. /\ ctx'[c].key = ctx[c].key /\ ctx'[c].refcount = ctx[c].refcount
        /\ ctx'[c].pump_shard = ctx[c].pump_shard
    BY <2>2, <2>3 DEF CtxRec
  <2>6. ctx[c].dead => ctx'[c].dead
    BY <2>1, <2>2, <2>4, Zenon
  <2>7. QED BY <2>2, <2>4, <2>5, <2>6
<1>4. ctx' \in [Ctxs -> CtxRec]
  <2>1. DOMAIN ctx' = Ctxs /\ ctx' = [c \in DOMAIN ctx' |-> ctx'[c]]
    BY <1>2
  <2>2. QED BY <1>3, <2>1
<1>5. w \in WalkRec /\ w.snap = None /\ w.todo = {} /\ w.pinned = walk[p].pinned
  BY <1>0 DEF WalkRec
<1>6. n \in ActRec /\ n.pc = "release" /\ n.ctx = act[p].ctx /\ n.snaps = act[p].snaps
  BY <1>0 DEF ActRec, Pcs
<1> HIDE DEF w, n
<1>7. act'[p] = n /\ Moves(p) /\ act' \in [Actors -> ActRec]
  BY <1>0, <1>1, <1>6, Update DEF Moves
<1>8. /\ walk' \in [Pumps -> WalkRec] /\ walk'[p] = w
      /\ \A q \in Pumps : q # p => walk'[q] = walk[q]
  BY <1>1, <1>5, WalkUpdate
<1>9. act[p].ctx = None /\ act[p].snaps = {}
  BY <1>0 DEF IInv, HeldOK, SnapOwners, Holding, Away, Leaving
<1>10. Counts'
  <2>1. \A a \in Actors : Held(a)' = Held(a)
    BY <1>0, <1>6, <1>7, <1>9 DEF Held, Moves
  <2>2. \A q \in Pumps : walk'[q].pinned = walk[q].pinned
    BY <1>5, <1>8
  <2>3. \A c \in g_open : ctx'[c].refcount = ctx[c].refcount
    BY <1>3 DEF IInv, Types
  <2>4. QED BY <1>0, <2>1, <2>2, <2>3, CountsSame DEF jobVars
<1>11. /\ walk'[p].pinned \subseteq g_open
       /\ \A c \in walk'[p].todo \cup walk'[p].pinned : ctx[c].pump_shard = p
  BY <1>5, <1>8 DEF IInv, HeldOK, ShardOK
<1>12. /\ act'[p].pc = "release" /\ act'[p].ctx = None /\ act'[p].snaps = {}
       /\ walk'[p].snap = None /\ walk'[p].todo = {}
  BY <1>5, <1>6, <1>7, <1>8, <1>9
<1>13. QED
  BY <1>0, <1>3, <1>4, <1>7, <1>8, <1>10, <1>11, <1>12, PumpFrame

\* A pin is dropped, or becomes the reference the pump has in hand.
LEMMA ReleaseStep ==
  ASSUME IInv, NEW p \in Pumps, pump_release_pin(p)
  PROVE  IInv'
<1>1. PICK c \in walk[p].pinned :
        walk' = [walk EXCEPT ![p].pinned = @ \ {c}] /\ UnrefFast(p, c)
  BY DEF pump_release_pin
<1> DEFINE w == [walk[p] EXCEPT !.pinned = @ \ {c}]
<1>0. /\ p \in Actors /\ act[p].pc = "release" /\ act \in [Actors -> ActRec] /\ Types /\ HeldOK /\ Counts
      /\ walk[p] \in WalkRec /\ ctx \in [Ctxs -> CtxRec] /\ c \in Ctxs /\ c # None
      /\ UNCHANGED <<alloc, g_open, leak, g_shard_ctr, snapVars, retired, jobVars, oom>>
  BY Roles DEF pump_release_pin, At, IInv, Types, WalkRec
<1>2. walk' = [walk EXCEPT ![p] = w]
  BY <1>1
<1>3. /\ w \in WalkRec /\ w.snap = walk[p].snap /\ w.todo = walk[p].todo
      /\ w.pinned = walk[p].pinned \ {c}
  BY <1>0 DEF WalkRec
<1> HIDE DEF w
<1>4. /\ walk' \in [Pumps -> WalkRec] /\ walk'[p] = w
      /\ \A q \in Pumps : q # p => walk'[q] = walk[q]
  BY <1>2, <1>3, WalkUpdate
<1>5. act[p].ctx = None /\ act[p].snaps = {} /\ walk[p].todo = {} /\ walk[p].snap = None
  BY <1>0 DEF IInv, HeldOK, SnapOwners, WalkOK, Holding, Away, Leaving
<1>6. c \in g_open /\ ctx[c].refcount \in Nat /\ ctx[c].refcount # 0 /\ ctx[c].pump_shard = p
  BY <1>0, HeldCounts DEF IInv, ShardOK
<1>7. Held(p) = None
  BY <1>5 DEF Held
<1>8. ASSUME NEW d \in g_open
      PROVE  /\ d \in Ctxs /\ ctx[d].refcount \in Nat /\ leak[d] \in Nat /\ leak' = leak
             /\ ctx[d].refcount = Cardinality(Holders(d)) + Cardinality(Pinners(d)) + leak[d]
             /\ Cardinality(Holders(d)) \in Nat /\ Cardinality(Pinners(d)) \in Nat
             /\ Cardinality(Pinners(d)') \in Nat /\ \A i \in Jobs : job'[i].result = job[i].result
             /\ d = c => Cardinality(Pinners(d)) = Cardinality(Pinners(d)') + 1
             /\ d # c => Cardinality(Pinners(d)') = Cardinality(Pinners(d))
  <2>1. \A q \in Pumps : q # p => walk'[q].pinned = walk[q].pinned
    BY <1>4
  <2>2. d \in Ctxs /\ ctx[d].refcount \in Nat /\ leak[d] \in Nat
    BY <1>0 DEF Types, CtxRec
  <2>3. /\ d = c => Cardinality(Pinners(d)) = Cardinality(Pinners(d)') + 1
        /\ d # c => Cardinality(Pinners(d)') = Cardinality(Pinners(d))
    BY <1>3, <1>4, <2>1, <2>2, PinnersMove
  <2>4. QED BY <1>0, <2>2, <2>3, FiniteRefs, FiniteRefsNext DEF Counts, jobVars
<1>9. /\ walk'[p].pinned \subseteq g_open /\ walk'[p].todo = {} /\ walk'[p].snap = None
      /\ \A d \in walk'[p].todo \cup walk'[p].pinned : ctx[d].pump_shard = p
  BY <1>3, <1>4, <1>5 DEF IInv, HeldOK, ShardOK
<1>10. CASE ctx[c].refcount > 1
  <2>1. Dec(c) /\ Return(p)
    BY <1>1, <1>10 DEF UnrefFast
  <2>2. act' \in [Actors -> ActRec] /\ Moves(p) /\ act'[p] = Rest(p)
    BY <1>0, <2>1, ReturnFacts
  <2>3. act'[p].pc = "release" /\ act'[p].ctx = None /\ act'[p].snaps = {}
    BY <1>0, <2>2, RestFacts
  <2>4. /\ ctx' \in [Ctxs -> CtxRec] /\ ctx'[c].refcount = ctx[c].refcount - 1
        /\ \A d \in Ctxs : d # c => ctx'[d] = ctx[d]
        /\ \A d \in Ctxs : /\ ctx'[d].key = ctx[d].key /\ ctx'[d].dead = ctx[d].dead
                           /\ ctx'[d].pump_shard = ctx[d].pump_shard
    BY <1>0, <1>6, <2>1, DecFacts
  <2>5. Counts'
    <3>1. Held(p)' = None /\ \A a \in Actors : a # p => Held(a)' = Held(a)
      BY <2>2, <2>3 DEF Held, Moves
    <3>2. ASSUME NEW d \in g_open
          PROVE  ctx'[d].refcount = Cardinality(Holders(d)') + Cardinality(Pinners(d)') + leak'[d]
      <4>1. Cardinality(Holders(d)') = Cardinality(Holders(d))
        <5>1. Held(p) # d /\ Held(p)' # d /\ \A i \in Jobs : job'[i].result = job[i].result
          BY <1>7, <1>8, <3>1, Roles
        <5>2. QED BY <1>0, <1>8, <3>1, <5>1, HoldersMove
      <4>2. CASE d = c
        BY <1>8, <2>4, <4>1, <4>2
      <4>3. CASE d # c
        BY <1>8, <2>4, <4>1, <4>3
      <4>4. QED BY <4>2, <4>3
    <3>3. QED BY <1>0, <3>2 DEF Counts
  <2>6. \A d \in Ctxs : /\ ctx[d].dead => ctx'[d].dead
                        /\ d \notin g_open => ctx'[d].refcount = ctx[d].refcount
    BY <1>6, <2>4
  <2>7. QED BY <1>0, <1>4, <1>9, <2>2, <2>3, <2>4, <2>5, <2>6, PumpFrame
<1>11. CASE ~(ctx[c].refcount > 1)
  <2> DEFINE n == [Rest(p) EXCEPT !.pc = "slow", !.ctx = c]
  <2>1. act' = [act EXCEPT ![p] = n] /\ ctx' = ctx
    BY <1>1, <1>11 DEF UnrefFast
  <2>2. n \in ActRec /\ n.pc = "slow" /\ n.ctx = c /\ n.snaps = {}
    BY <1>0, RestFacts DEF ActRec, Pcs, MaybeCtx
  <2> HIDE DEF n
  <2>3. act'[p] = n /\ Moves(p) /\ act' \in [Actors -> ActRec]
    BY <1>0, <2>1, <2>2, Update DEF Moves
  <2>4. Counts'
    <3>1. Held(p)' = c /\ \A a \in Actors : a # p => Held(a)' = Held(a)
      BY <2>2, <2>3 DEF Held, Moves, Holding
    <3>2. ASSUME NEW d \in g_open
          PROVE  ctx'[d].refcount = Cardinality(Holders(d)') + Cardinality(Pinners(d)') + leak'[d]
      <4>0. Held(p) # d /\ \A i \in Jobs : job'[i].result = job[i].result
        BY <1>7, <1>8, Roles
      <4>1. /\ d = c => Cardinality(Holders(d)') = Cardinality(Holders(d)) + 1
            /\ d # c => Cardinality(Holders(d)') = Cardinality(Holders(d))
        BY <1>0, <1>8, <3>1, <4>0, HoldersMove
      <4>2. CASE d = c
        BY <1>8, <2>1, <4>1, <4>2
      <4>3. CASE d # c
        BY <1>8, <2>1, <4>1, <4>3
      <4>4. QED BY <4>2, <4>3
    <3>3. QED BY <1>0, <3>2 DEF Counts
  <2>5. /\ act'[p].pc = "slow" /\ act'[p].ctx \in g_open /\ ctx[act'[p].ctx].pump_shard = p
        /\ act'[p].snaps = {}
    BY <1>6, <2>2, <2>3
  <2>6. QED BY <1>0, <1>4, <1>9, <2>1, <2>3, <2>4, <2>5, PumpFrame
<1>12. QED BY <1>10, <1>11

\* A pump passes a quiescent state: nobody waits for it any more, and it has
\* nothing that would have to be waited for.
LEMMA QuiescentStep ==
  ASSUME IInv, NEW p \in Pumps, qsbr_worker_quiescent(p)
  PROVE  IInv'
<1> USE DEF IInv
<1> DEFINE U(r) == [r EXCEPT !.mark = @ \ {p}]
<1>u. /\ ctx' = ctx /\ alloc' = alloc /\ g_open' = g_open /\ leak' = leak
      /\ entries' = entries /\ g_snapshot' = g_snapshot /\ g_retired' = g_retired
      /\ walk' = walk /\ g_shard_ctr' = g_shard_ctr /\ oom' = oom /\ job' = job /\ queue' = queue
  BY DEF qsbr_worker_quiescent, ctxVars, snapVars, jobVars
<1>0. /\ p \in Actors /\ act[p].pc = "release" /\ act \in [Actors -> ActRec] /\ retired \subseteq RetRec
      /\ act[p].ctx = None /\ act[p].snaps = {} /\ walk[p].todo = {} /\ walk[p].snap = None
  BY Roles DEF qsbr_worker_quiescent, At, Types, HeldOK, SnapOwners, WalkOK, Holding, Away, Leaving
<1>1. \A r \in retired : /\ U(r) \in RetRec /\ U(r).ctx = r.ctx /\ U(r).snaps = r.snaps
                         /\ \A q \in Pumps : q # p => (q \in U(r).mark <=> q \in r.mark)
  BY <1>0 DEF RetRec
<1>2. retired' = {U(r) : r \in retired}
  BY DEF qsbr_worker_quiescent
<1>3. ASSUME NEW a \in Actors, a # p
      PROVE  /\ act'[a] \in ActRec /\ act'[a].pc = act[a].pc /\ act'[a].ctx = act[a].ctx
             /\ act'[a].job = act[a].job /\ act'[a].snaps = act[a].snaps
             /\ \A q \in Pumps : q # p => (q \in act'[a].mark <=> q \in act[a].mark)
  <2>1. act'[a] = [act[a] EXCEPT !.mark = @ \ {p}]
    BY <1>3 DEF qsbr_worker_quiescent
  <2>2. act[a] \in ActRec
    BY <1>0
  <2>3. QED BY <2>1, <2>2 DEF ActRec
<1>4. act'[p] \in ActRec /\ act'[p].pc = "loop" /\ act'[p].ctx = None /\ act'[p].snaps = {}
  <2>1. act'[p] = [Rest(p) EXCEPT !.pc = "loop"]
    BY <1>0 DEF qsbr_worker_quiescent
  <2>2. QED BY <1>0, <2>1, RestFacts DEF ActRec, Pcs
<1>5. act' \in [Actors -> ActRec]
  <2>1. DOMAIN act' = Actors /\ act' = [a \in DOMAIN act' |-> act'[a]]
    BY DEF qsbr_worker_quiescent
  <2>2. QED BY <1>3, <1>4, <2>1
<1>6. /\ \A r \in retired' : \E q \in retired : r = U(q)
      /\ \A q \in retired : U(q) \in retired'
  BY <1>2
<1> HIDE DEF U
<1>7. /\ \A a \in Actors : act'[a].ctx = act[a].ctx /\ act'[a].snaps = act[a].snaps
      /\ \A a \in Actors : a # p => act'[a].pc = act[a].pc /\ act'[a].job = act[a].job
      /\ \A a \in Actors : /\ act'[a].pc \in Holding \cup Away \cup Busy <=> act[a].pc \in Holding \cup Away \cup Busy
                           /\ act'[a].pc \in Holding \cup Away \cup Busy => a # p
  BY <1>0, <1>3, <1>4 DEF Holding, Away, Leaving, Busy
<1>8. \A a \in Actors : InHand(a)' = InHand(a) /\ Held(a)' = Held(a)
  BY <1>0, <1>4, <1>7 DEF InHand, Held
<1>9. Types'
  <2>1. retired' \subseteq RetRec
    BY <1>1, <1>6
  <2>2. QED BY <1>u, <1>5, <2>1 DEF Types, SnapsLive
<1>10. HeldOK'
  <2>1. \A a \in Actors : act'[a].pc \in Holding /\ act'[a].ctx # None => act'[a].ctx \in g_open
    BY <1>7 DEF HeldOK
  <2>2. \A a \in Actors : act'[a].pc \in (Holding \cup Away) \ {"done", "mark"} => act'[a].ctx # None
    BY <1>7 DEF HeldOK
  <2>3. \A a \in Actors : act'[a].pc \notin Holding \cup Away => act'[a].ctx = None
    BY <1>0, <1>7 DEF HeldOK
  <2>4. QED BY <1>u, <2>1, <2>2, <2>3 DEF HeldOK
<1>11. AwayOK'
  <2>1. \A a \in Actors : InHand(a)' # None => InHand(a)' \in alloc' \ g_open'
    BY <1>u, <1>8 DEF AwayOK
  <2>2. \A r \in retired' : r.ctx # None => r.ctx \in alloc' \ g_open'
    BY <1>u, <1>1, <1>6 DEF AwayOK
  <2>3. \A a, b \in Actors : InHand(a)' # None /\ InHand(a)' = InHand(b)' => a = b
    BY <1>8 DEF AwayOK
  <2>4. \A a \in Actors, r \in retired' : InHand(a)' # None => InHand(a)' # r.ctx
    BY <1>1, <1>6, <1>8 DEF AwayOK
  <2>5. ASSUME NEW r \in retired', NEW s \in retired', r.ctx # None, r.ctx = s.ctx PROVE r = s
    <3>1. PICK x \in retired, y \in retired : r = U(x) /\ s = U(y)
      BY <1>6
    <3>2. x = y
      BY <1>1, <2>5, <3>1 DEF AwayOK
    <3>3. QED BY <3>1, <3>2
  <2>6. \A c \in alloc' \ g_open' : (\E a \in Actors : InHand(a)' = c) \/ (\E r \in retired' : r.ctx = c)
    BY <1>u, <1>1, <1>6, <1>8 DEF AwayOK
  <2>7. QED BY <2>1, <2>2, <2>3, <2>4, <2>5, <2>6 DEF AwayOK
<1>12. AwayCounts'
  <2>1. \A a \in Actors : act'[a].pc = "link" => ctx[act'[a].ctx].refcount = 1
    BY <1>4, <1>7 DEF AwayCounts
  <2>2. \A a \in Actors : act'[a].pc \in Leaving /\ act'[a].ctx # None => ctx[act'[a].ctx].refcount = 0
    BY <1>4, <1>7 DEF AwayCounts, Leaving
  <2>3. \A r \in retired' : r.ctx # None => ctx[r.ctx].refcount = 0
    BY <1>1, <1>6 DEF AwayCounts
  <2>4. QED BY <1>u, <2>1, <2>2, <2>3 DEF AwayCounts
<1>13. Counts'
  BY <1>u, <1>8, CountsSame
<1>14. Published'
  BY <1>u DEF Published, SnapsLive
<1>15. SnapOwners'
  <2>1. \A a \in Actors : act'[a].snaps # {} => act'[a].pc \in {"mark", "free"}
    BY <1>0, <1>7 DEF SnapOwners
  <2>2. \A r \in retired' : /\ r.snaps \subseteq SnapsLive' /\ g_snapshot' \notin r.snaps
                            /\ r.snaps \cap g_retired' = {}
                            /\ \A a \in Actors : act'[a].snaps \cap r.snaps = {}
    BY <1>u, <1>1, <1>6, <1>7 DEF SnapOwners, SnapsLive
  <2>3. ASSUME NEW r \in retired', NEW s \in retired', r # s PROVE r.snaps \cap s.snaps = {}
    <3>1. PICK x \in retired, y \in retired : r = U(x) /\ s = U(y)
      BY <1>6
    <3>2. x # y
      BY <2>3, <3>1
    <3>3. QED BY <1>1, <3>1, <3>2 DEF SnapOwners
  <2>4. QED BY <1>u, <1>7, <2>1, <2>2, <2>3 DEF SnapOwners, SnapsLive
<1>16. WalkOK'
  <2>1. ASSUME NEW q \in Pumps, q # p, NEW c, CtxKept(q, c) PROVE CtxKept(q, c)'
    <3>1. CASE c \in g_open
      BY <1>u, <3>1 DEF CtxKept
    <3>2. ASSUME NEW a \in Actors, act[a].ctx = c,
                 act[a].pc \in {"retire", "mark"} \/ (act[a].pc = "wait" /\ q \in act[a].mark)
          PROVE  CtxKept(q, c)'
      <4>1. a # p
        BY <1>0, <3>2
      <4>2. act'[a].ctx = c /\ (act'[a].pc \in {"retire", "mark"} \/ (act'[a].pc = "wait" /\ q \in act'[a].mark))
        BY <1>3, <2>1, <3>2, <4>1
      <4>3. QED BY <4>2 DEF CtxKept
    <3>3. ASSUME NEW r \in retired, r.ctx = c, q \in r.mark PROVE CtxKept(q, c)'
      <4>1. U(r) \in retired' /\ U(r).ctx = c /\ q \in U(r).mark
        BY <1>1, <1>6, <2>1, <3>3
      <4>2. QED BY <4>1 DEF CtxKept
    <3>4. QED BY <2>1, <3>1, <3>2, <3>3 DEF CtxKept
  <2>2. ASSUME NEW q \in Pumps, q # p, NEW s, SnapKept(q, s) PROVE SnapKept(q, s)'
    <3>1. CASE s = g_snapshot \/ s \in g_retired
      BY <1>u, <3>1 DEF SnapKept
    <3>2. ASSUME NEW a \in Actors, s \in act[a].snaps, act[a].pc = "mark" \/ q \in act[a].mark
          PROVE  SnapKept(q, s)'
      <4>1. a # p
        BY <1>0, <3>2
      <4>2. s \in act'[a].snaps /\ (act'[a].pc = "mark" \/ q \in act'[a].mark)
        BY <1>3, <2>2, <3>2, <4>1
      <4>3. QED BY <4>2 DEF SnapKept
    <3>3. ASSUME NEW r \in retired, s \in r.snaps, q \in r.mark PROVE SnapKept(q, s)'
      <4>1. U(r) \in retired' /\ s \in U(r).snaps /\ q \in U(r).mark
        BY <1>1, <1>6, <2>2, <3>3
      <4>2. QED BY <4>1 DEF SnapKept
    <3>4. QED BY <2>2, <3>1, <3>2, <3>3 DEF SnapKept
  <2>3. \A q \in Pumps : q # p => act'[q].pc = act[q].pc
    BY <1>7, Roles
  <2>4. \A q \in Pumps : q # p /\ walk[q].snap # None => SnapKept(q, walk[q].snap)'
    BY <1>u, <2>2 DEF WalkOK
  <2>5. \A q \in Pumps : q # p => \A c \in walk[q].todo : CtxKept(q, c)'
    BY <2>1 DEF WalkOK
  <2>6. QED BY <1>u, <1>0, <2>3, <2>4, <2>5 DEF WalkOK
<1>17. ShardOK'
  <2>1. \A q \in Pumps : act'[q].pc \in Holding \cup Away => act[q].pc \in Holding \cup Away /\ act'[q].ctx = act[q].ctx
    BY <1>7, Roles
  <2>2. QED BY <1>u, <2>1 DEF ShardOK
<1>18. JobOK'
  <2>1. \A t \in Life : act'[t].pc = act[t].pc /\ act'[t].job = act[t].job
    BY <1>7, Roles
  <2>2. \A x \in Users : act'[x].pc = act[x].pc /\ act'[x].job = act[x].job
    BY <1>7, Roles
  <2>3. QED BY <1>u, <2>1, <2>2 DEF JobOK
<1>19. OneAlive'
  BY <1>u, QuietAlive
<1>20. QED
  BY <1>9, <1>10, <1>11, <1>12, <1>13, <1>14, <1>15, <1>16, <1>17, <1>18, <1>19

\* Who is not a pump leaves the pumps and their walks alone.
LEMMA OthersMove ==
  ASSUME IInv, NEW a \in Actors, a \notin Pumps,
         \/ Request(a) \/ Open(a) \/ capture_close(a) \/ lifecycle_thread(a) \/ Close(a)
  PROVE  walk' = walk /\ \A p \in Pumps : act'[p] = act[p]
<1>0. act \in [Actors -> ActRec] /\ \A p \in Pumps : p \in Actors /\ p # a
  BY Roles DEF IInv, Types
<1>1. ASSUME NEW n, act' = [act EXCEPT ![a] = n] PROVE \A p \in Pumps : act'[p] = act[p]
  BY <1>0, <1>1
<1>2. Return(a) \/ (\E c : Opened(a, c)) => \A p \in Pumps : act'[p] = act[p]
  <2>1. ASSUME NEW c, Opened(a, c) PROVE \A p \in Pumps : act'[p] = act[p]
    <3> DEFINE n == IF a \in Life THEN [act[a] EXCEPT !.pc = "done", !.ctx = c, !.cap = 0]
                    ELSE IF c = None THEN Rest(a) ELSE [Rest(a) EXCEPT !.pc = "hold", !.ctx = c]
    <3>1. act' = [act EXCEPT ![a] = n]
      BY <2>1 DEF Opened
    <3> HIDE DEF n
    <3>2. QED BY <1>1, <3>1
  <2>2. Return(a) => \A p \in Pumps : act'[p] = act[p]
    BY <1>0 DEF Return
  <2>3. QED BY <2>1, <2>2
<1>3. CASE Request(a)
  <2>1. ASSUME NEW k \in Keys, capture_try_ref(a, k) PROVE walk' = walk /\ \A p \in Pumps : act'[p] = act[p]
    BY <1>2, <2>1 DEF capture_try_ref
  <2>2. ASSUME NEW k \in Keys, job_submit(a, k) PROVE walk' = walk /\ \A p \in Pumps : act'[p] = act[p]
    BY <1>0, <2>2 DEF job_submit
  <2>3. CASE capture_open_job_take(a)
    BY <1>2, <2>3 DEF capture_open_job_take
  <2>4. CASE capture_open_job_cancel(a)
    BY <1>2, <2>4 DEF capture_open_job_cancel
  <2>5. QED BY <1>3, <2>1, <2>2, <2>3, <2>4 DEF Request
<1>4. CASE Open(a)
  <2>1. ASSUME NEW k \in Keys, capture_open(a, k) PROVE walk' = walk /\ \A p \in Pumps : act'[p] = act[p]
    BY <1>0, <1>2, <2>1 DEF capture_open
  <2>2. CASE OpenSource(a)
    BY <1>0, <1>2, <2>2 DEF OpenSource
  <2>3. CASE link_ctx(a)
    <3>1. walk' = walk
      BY <2>3 DEF link_ctx
    <3>2. (\E c : Opened(a, c)) \/ (\E m : act' = [act EXCEPT ![a].cap = m])
      BY <2>3 DEF link_ctx
    <3>3. QED BY <1>0, <1>2, <3>1, <3>2
  <2>4. QED BY <1>4, <2>1, <2>2, <2>3 DEF Open
<1>5. CASE capture_close(a)
  BY <1>0, <1>2, <1>5 DEF capture_close, UnrefFast
<1>6. CASE lifecycle_thread(a)
  <2>1. CASE TakeJob(a)
    BY <1>0, <2>1 DEF TakeJob
  <2>2. CASE JobDone(a)
    BY <1>0, <1>2, <2>2 DEF JobDone
  <2>3. CASE reap_retired(a)
    BY <1>0, <2>3 DEF reap_retired
  <2>4. CASE retire_snapshots(a)
    BY <1>0, <2>4 DEF retire_snapshots
  <2>5. QED BY <1>6, <2>1, <2>2, <2>3, <2>4 DEF lifecycle_thread
<1>7. CASE Close(a)
  <2>1. CASE UnrefCheck(a)
    <3>1. walk' = walk
      BY <2>1 DEF UnrefCheck
    <3>2. Return(a) \/ (\E m : act' = [act EXCEPT ![a].cap = m]) \/ (\E m : act' = [act EXCEPT ![a].pc = m])
      BY <2>1 DEF UnrefCheck
    <3>3. QED BY <1>0, <1>2, <3>1, <3>2
  <2>2. CASE UnrefSub(a)
    BY <1>2, <2>2 DEF UnrefSub
  <2>3. CASE UnrefLast(a)
    BY <1>0, <1>2, <2>3 DEF UnrefLast
  <2>4. CASE retire_ctx(a)
    BY <1>0, <2>4 DEF retire_ctx
  <2>5. CASE RetiredPush(a)
    <3> DEFINE n == IF act[a].ctx = None THEN [Rest(a) EXCEPT !.pc = "loop"] ELSE Rest(a)
    <3>1. act' = [act EXCEPT ![a] = n] /\ walk' = walk
      BY <2>5 DEF RetiredPush
    <3> HIDE DEF n
    <3>2. QED BY <1>1, <3>1
  <2>6. CASE reclaim_retired_snapshots(a)
    <3>1. walk' = walk /\ \E m : act' = [act EXCEPT ![a].pc = "free", ![a].snaps = g_retired, ![a].mark = m]
      BY <2>6 DEF reclaim_retired_snapshots
    <3>2. QED BY <1>0, <3>1
  <2>7. CASE FreeInline(a)
    BY <1>2, <2>7 DEF FreeInline
  <2>8. QED BY <1>7, <2>1, <2>2, <2>3, <2>4, <2>5, <2>6, <2>7 DEF Close
<1>8. QED BY <1>3, <1>4, <1>5, <1>6, <1>7

\* A pump that drops its last pin comes back to the pins it still has.
LEMMA PumpCloses ==
  ASSUME IInv, PinOK, NEW p \in Pumps, Close(p)
  PROVE  PinOK'
<1>0. /\ act \in [Actors -> ActRec] /\ act[p] \in ActRec /\ p \in Actors /\ \A q \in Pumps : q \in Actors
      /\ Rest(p).pc = "release"
  BY Roles, RestFacts DEF IInv, Types
<1>1. act[p].pc = "retire" => act[p].ctx # None
  BY <1>0 DEF IInv, HeldOK, Holding, Away, Leaving
<1>2. SUFFICES /\ walk' = walk /\ \A q \in Pumps : q # p => act'[q] = act[q]
               /\ act'[p].pc # "loop" /\ (act'[p].pc = "mark" => act'[p].ctx # None)
  BY DEF PinOK
<1>3. Return(p) => /\ \A q \in Pumps : q # p => act'[q] = act[q]
                   /\ act'[p].pc = "release"
  BY <1>0 DEF Return
<1>4. CASE UnrefCheck(p)
  <2>1. walk' = walk /\ act[p].pc = "slow"
    BY <1>4 DEF UnrefCheck, At
  <2>2. \/ Return(p) \/ (\E m : act' = [act EXCEPT ![p].cap = m])
        \/ (\E m \in {"sub", "last"} : act' = [act EXCEPT ![p].pc = m])
    BY <1>4 DEF UnrefCheck
  <2>3. QED BY <1>0, <1>3, <2>1, <2>2 DEF ActRec
<1>5. CASE UnrefSub(p)
  BY <1>3, <1>5 DEF UnrefSub
<1>6. CASE UnrefLast(p)
  <2>1. walk' = walk
    BY <1>6 DEF UnrefLast
  <2>2. Return(p) \/ act' = [act EXCEPT ![p].pc = "retire", ![p].cap = 0]
    BY <1>6 DEF UnrefLast
  <2>3. QED BY <1>0, <1>3, <2>1, <2>2 DEF ActRec
<1>7. CASE retire_ctx(p)
  <2>1. walk' = walk /\ act[p].pc = "retire"
    BY <1>7 DEF retire_ctx, At
  <2>2. \E m \in {"mark", "free"} : \E s, k :
          \/ act' = [act EXCEPT ![p].pc = m, ![p].snaps = s]
          \/ act' = [act EXCEPT ![p].pc = m, ![p].mark = k]
    BY <1>7 DEF retire_ctx
  <2>3. QED BY <1>0, <1>1, <2>1, <2>2 DEF ActRec
<1>8. CASE RetiredPush(p)
  <2>1. act[p].ctx # None
    BY <1>8 DEF RetiredPush, At, PinOK
  <2>2. walk' = walk /\ act' = [act EXCEPT ![p] = Rest(p)]
    BY <1>0, <1>8, <2>1 DEF RetiredPush
  <2>3. QED BY <1>0, <2>2
<1>9. CASE reclaim_retired_snapshots(p)
  BY <1>0, <1>9 DEF reclaim_retired_snapshots, ActRec
<1>10. CASE FreeInline(p)
  BY <1>3, <1>10 DEF FreeInline
<1>11. QED BY <1>4, <1>5, <1>6, <1>7, <1>8, <1>9, <1>10 DEF Close

\* The loop of a pump: it walks what it has not pinned and pins it once.
LEMMA PumpTicks ==
  ASSUME IInv, PinOK, NEW p \in Pumps, capture_pump_tick(p)
  PROVE  PinOK'
<1>0. /\ act \in [Actors -> ActRec] /\ act[p] \in ActRec /\ p \in Actors /\ \A q \in Pumps : q \in Actors
      /\ walk \in [Pumps -> WalkRec] /\ walk[p] \in WalkRec /\ Rest(p).pc = "release" /\ Rest(p) \in ActRec
  BY Roles, RestFacts DEF IInv, Types
<1>1. SUFFICES /\ \A q \in Pumps : /\ q # p => walk'[q] = walk[q]
                                   /\ q # p => act'[q].pc = act[q].pc /\ act'[q].ctx = act[q].ctx
               /\ walk'[p].todo \cap walk'[p].pinned = {}
               /\ act'[p].pc = "loop" => walk'[p].pinned = {}
               /\ act'[p].pc # "mark"
  BY DEF PinOK
<1>2. CASE PumpLoad(p)
  <2>1. \E s, t : walk' = [walk EXCEPT ![p].snap = s, ![p].todo = t]
    BY <1>2 DEF PumpLoad
  <2>2. act' = [act EXCEPT ![p].pc = "pin"] /\ walk[p].pinned = {}
    BY <1>2 DEF PumpLoad, At, PinOK
  <2>3. QED BY <1>0, <2>1, <2>2 DEF WalkRec, ActRec
<1>3. CASE try_pin(p)
  <2>1. \E c : \/ walk' = [walk EXCEPT ![p].todo = @ \ {c}, ![p].pinned = @ \cup {c}]
               \/ walk' = [walk EXCEPT ![p].todo = @ \ {c}]
    BY <1>3 DEF try_pin
  <2>2. act' = act /\ act[p].pc = "pin" /\ walk[p].todo \cap walk[p].pinned = {}
    BY <1>3 DEF try_pin, At, PinOK
  <2>3. QED BY <1>0, <2>1, <2>2 DEF WalkRec
<1>4. CASE PumpDrain(p)
  <2>1. walk' = [walk EXCEPT ![p].snap = None] /\ act' = [act EXCEPT ![p].pc = "release"]
    BY <1>4 DEF PumpDrain
  <2>2. QED BY <1>0, <2>1 DEF WalkRec, ActRec, PinOK
<1>5. CASE pump_release_pin(p)
  <2>1. \E c : walk' = [walk EXCEPT ![p].pinned = @ \ {c}] /\ UnrefFast(p, c)
    BY <1>5 DEF pump_release_pin
  <2>2. PICK n : act' = [act EXCEPT ![p] = n] /\ n.pc \in {"release", "slow"}
    <3>1. PICK c : UnrefFast(p, c)
      BY <2>1
    <3>2. [Rest(p) EXCEPT !.pc = "slow", !.ctx = c].pc = "slow"
      BY <1>0 DEF ActRec
    <3>3. QED BY <1>0, <3>1, <3>2 DEF UnrefFast, Return
  <2>3. act'[p].pc \in {"release", "slow"} /\ \A q \in Pumps : q # p => act'[q] = act[q]
    BY <1>0, <2>2
  <2>4. /\ \A q \in Pumps : q # p => walk'[q] = walk[q]
        /\ walk'[p].todo \cap walk'[p].pinned = {}
    BY <1>0, <2>1 DEF WalkRec, PinOK
  <2>5. QED BY <2>3, <2>4
<1>6. CASE qsbr_worker_quiescent(p)
  <2>1. walk' = walk /\ walk[p].pinned = {} /\ act'[p] = [Rest(p) EXCEPT !.pc = "loop"]
    BY <1>0, <1>6 DEF qsbr_worker_quiescent
  <2>2. ASSUME NEW q \in Pumps, q # p PROVE act'[q].pc = act[q].pc /\ act'[q].ctx = act[q].ctx
    <3>1. act'[q] = [act[q] EXCEPT !.mark = @ \ {p}] /\ act[q] \in ActRec
      BY <1>0, <1>6, <2>2 DEF qsbr_worker_quiescent
    <3>2. QED BY <3>1 DEF ActRec
  <2>3. QED BY <1>0, <2>1, <2>2 DEF ActRec
<1>7. QED BY <1>2, <1>3, <1>4, <1>5, <1>6 DEF capture_pump_tick

-----------------------------------------------------------------------------
(* The theorems.                                                           *)

\* Nothing is allocated at the start.
LEMMA InitIInv ==
  ASSUME Init
  PROVE  IInv /\ PinOK
<1>1. /\ act \in [Actors -> ActRec]
      /\ \A a \in Actors : /\ act[a].pc \in {"idle", "loop"} /\ act[a].ctx = None /\ act[a].snaps = {}
  <2>1. ASSUME NEW a \in Actors
        PROVE  /\ act[a] \in ActRec /\ act[a].pc \in {"idle", "loop"} /\ act[a].ctx = None
               /\ act[a].snaps = {}
    <3>1. CASE a \in Users
      BY <3>1, RestFacts DEF Init
    <3>2. CASE a \notin Users
      <4>1. act[a] = [Rest(a) EXCEPT !.pc = "loop"]
        BY <3>2 DEF Init
      <4>2. QED BY <4>1, RestFacts DEF ActRec, Pcs
    <3>3. QED BY <3>1, <3>2
  <2>2. DOMAIN act = Actors /\ act = [a \in DOMAIN act |-> act[a]]
    BY DEF Init
  <2>3. QED BY <2>1, <2>2
<1>2. /\ walk \in [Pumps -> WalkRec]
      /\ \A p \in Pumps : walk[p].snap = None /\ walk[p].todo = {} /\ walk[p].pinned = {}
  BY DEF Init, NoWalk, WalkRec
<1>3. /\ job \in [Jobs -> JobRec] /\ \A j \in Jobs : job[j].st = "free" /\ job[j].result = None
  BY DEF Init, FreeJob, JobRec, JobStates, MaybeCtx
<1>4. ctx \in [Ctxs -> CtxRec] /\ leak \in [Ctxs -> Nat] /\ \A c \in Ctxs : leak[c] = 0
  BY DEF Init, FreeCtx, CtxRec
<1>5. /\ alloc = {} /\ g_open = {} /\ g_snapshot = None /\ g_retired = {} /\ retired = {}
      /\ queue = <<>> /\ oom = 0 /\ g_shard_ctr \in Pumps
  BY CaptureAssumption DEF Init, Pumps
<1>6. SnapsLive = {} /\ entries \in [SnapsLive -> SUBSET Ctxs]
  BY DEF Init, SnapsLive
<1>7. Types
  BY <1>1, <1>2, <1>3, <1>4, <1>5, <1>6 DEF Types
<1>8. \A a \in Actors : act[a].pc \notin Holding \cup Away \cup Busy /\ act[a].pc \notin {"await", "pin", "mark"}
  BY <1>1 DEF Holding, Away, Leaving, Busy
<1>9. \A a \in Actors : InHand(a) = None
  BY <1>8 DEF InHand
<1>10. HeldOK /\ AwayOK /\ Counts /\ Published /\ OneAlive
  BY <1>1, <1>2, <1>3, <1>4, <1>5, <1>8, <1>9 DEF HeldOK, AwayOK, Counts, Published, OneAlive
<1>11. AwayCounts
  BY <1>5, <1>8 DEF AwayCounts, Away
<1>12. SnapOwners
  BY <1>1, <1>5, <1>6, Roles DEF SnapOwners
<1>13. WalkOK /\ PinOK
  BY <1>2, <1>8, Roles DEF WalkOK, PinOK
<1>14. ShardOK
  BY <1>2, <1>8, Roles DEF ShardOK
<1>15. JobOK
  <2>1. Len(queue) = 0
    BY <1>5
  <2>2. \A i \in 1..Len(queue) : FALSE
    BY <2>1
  <2>3. QED BY <1>3, <1>8, <2>2, Roles DEF JobOK
<1>16. QED BY <1>7, <1>10, <1>11, <1>12, <1>13, <1>14, <1>15 DEF IInv

\* Every step keeps the invariant.
LEMMA StepIInv ==
  ASSUME IInv, PinOK, [Next]_vars
  PROVE  IInv' /\ PinOK'
<1>0. Requests \subseteq Actors /\ Builders \subseteq Actors /\ Life \subseteq Actors /\ Pumps \subseteq Actors
      /\ \A a \in Requests \cup Builders \cup Life : a \notin Pumps
  BY Roles
<1>1. ASSUME NEW a \in Actors, Close(a) PROVE IInv'
  BY <1>1, UnrefCheckStep, UnrefSubStep, UnrefLastStep, RetireStep, PushStep, ReclaimStep, FreeStep
  DEF Close
<1>2. ASSUME NEW a \in Builders \cup Life, Open(a) PROVE IInv'
  BY <1>2, OpenStep, OpenSourceStep, LinkStep DEF Open
<1>3. ASSUME NEW a \in Actors, a \notin Pumps,
             \/ Request(a) \/ Open(a) \/ capture_close(a) \/ lifecycle_thread(a) \/ Close(a)
      PROVE  PinOK'
  <2>1. walk' = walk /\ \A p \in Pumps : act'[p] = act[p]
    BY <1>3, OthersMove
  <2>2. QED BY <2>1 DEF PinOK
<1>4. ASSUME NEW u \in Requests, Request(u) \/ capture_close(u) \/ Close(u) PROVE IInv' /\ PinOK'
  <2>1. CASE Request(u)
    BY <2>1, TryRefStep, SubmitStep, TakeResultStep, CancelStep, <1>0, <1>3 DEF Request
  <2>2. QED BY <1>0, <1>1, <1>3, <1>4, <2>1, CloseStep
<1>5. ASSUME NEW u \in Builders, Open(u) \/ capture_close(u) \/ Close(u) PROVE IInv' /\ PinOK'
  BY <1>0, <1>1, <1>2, <1>3, <1>5, CloseStep
<1>6. ASSUME NEW t \in Life, lifecycle_thread(t) \/ Open(t) \/ capture_close(t) \/ Close(t)
      PROVE  IInv' /\ PinOK'
  <2>1. CASE lifecycle_thread(t)
    BY <2>1, TakeJobStep, JobDoneStep, ReapStep, RetireSnapsStep, <1>0, <1>3 DEF lifecycle_thread
  <2>2. QED BY <1>0, <1>1, <1>2, <1>3, <1>6, <2>1, CloseStep
<1>7. ASSUME NEW p \in Pumps, capture_pump_tick(p) \/ Close(p) PROVE IInv' /\ PinOK'
  <2>1. CASE capture_pump_tick(p)
    BY <2>1, LoadStep, PinStep, DrainStep, ReleaseStep, QuiescentStep, PumpTicks
    DEF capture_pump_tick
  <2>2. CASE Close(p)
    BY <1>0, <1>1, <2>2, PumpCloses
  <2>3. QED BY <1>7, <2>1, <2>2
<1>8. CASE UNCHANGED vars
  <2>1. IInv'
    <3>1. /\ ctx' = ctx /\ alloc' = alloc /\ g_open' = g_open /\ leak' = leak
          /\ entries' = entries /\ g_snapshot' = g_snapshot /\ g_retired' = g_retired
          /\ retired' = retired /\ job' = job /\ queue' = queue /\ act' = act /\ walk' = walk
          /\ g_shard_ctr' = g_shard_ctr /\ oom' = oom
      BY <1>8 DEF vars
    <3>2. Types' /\ HeldOK'
      BY <3>1 DEF IInv, Types, HeldOK, SnapsLive
    <3>3. AwayOK' /\ AwayCounts'
      BY <3>1 DEF IInv, AwayOK, AwayCounts, InHand
    <3>4. Counts'
      BY <3>1 DEF IInv, Counts, Holders, Pinners
    <3>5. Published' /\ SnapOwners'
      BY <3>1 DEF IInv, Published, SnapOwners, SnapsLive
    <3>6. WalkOK'
      BY <3>1 DEF IInv, WalkOK, CtxKept, SnapKept
    <3>7. ShardOK' /\ JobOK' /\ OneAlive'
      BY <3>1 DEF IInv, ShardOK, JobOK, OneAlive
    <3>8. QED BY <3>2, <3>3, <3>4, <3>5, <3>6, <3>7 DEF IInv
  <2>2. PinOK'
    BY <1>8 DEF vars, PinOK
  <2>3. QED BY <2>1, <2>2
<1>9. QED BY <1>4, <1>5, <1>6, <1>7, <1>8 DEF Next

\* The invariant is one of the specification.
LEMMA Invariant == Spec => [](IInv /\ PinOK)
<1>1. Init => IInv /\ PinOK
  BY InitIInv
<1>2. (IInv /\ PinOK) /\ [Next]_vars => (IInv /\ PinOK)'
  BY StepIInv
<1>3. QED BY <1>1, <1>2, PTL DEF Spec

\* No pump, request or job ever refers to a context or a snapshot that has
\* been freed, whatever the interleaving of opens, closes, retirements and
\* quiescent states and whichever allocations fail (pump.c:251, ctx.c:76,
\* lifecycle.c:88).
THEOREM NoUseAfterFreeCorrect == Spec => []NoUseAfterFree
<1>1. ASSUME IInv PROVE NoUseAfterFree
  <2>1. ASSUME NEW p \in Pumps, walk[p].todo # {}
        PROVE  walk[p].snap \in SnapsLive /\ walk[p].todo \subseteq alloc
    <3>1. walk[p].snap # None /\ SnapKept(p, walk[p].snap)
      BY <1>1, <2>1 DEF IInv, WalkOK
    <3>2. walk[p].snap \in SnapsLive
      BY <1>1, <3>1 DEF IInv, SnapKept, SnapOwners, Published
    <3>3. walk[p].todo \subseteq alloc
      BY <1>1, WalkedAlloc DEF IInv
    <3>4. QED BY <3>2, <3>3
  <2>2. ASSUME NEW c \in Ctxs, Holders(c) # {} \/ Pinners(c) # {} PROVE c \in alloc
    <3>1. c # None
      BY Roles
    <3>2. c \in g_open
      BY <1>1, <2>2, <3>1 DEF Holders, Pinners, IInv, HeldOK
    <3>3. QED BY <1>1, <3>2 DEF IInv, Types
  <2>3. g_snapshot # None => g_snapshot \in SnapsLive /\ entries[g_snapshot] \subseteq alloc
    BY <1>1 DEF IInv, Published, Types
  <2>4. QED BY <2>1, <2>2, <2>3 DEF NoUseAfterFree
<1>2. QED BY <1>1, Invariant, PTL

\* The count of a linked context is the number of references to it, and an
\* unlinked one is either being opened or has no reference left (ctx.c:76,
\* pump.c:41, lifecycle.c:214).
THEOREM RefsExactCorrect == Spec => []RefsExact
<1>1. ASSUME IInv PROVE RefsExact
  <2>1. ASSUME NEW c \in alloc \ g_open
        PROVE  \/ \E a \in Actors : At(a, "link") /\ act[a].ctx = c
               \/ ctx[c].refcount = 0 /\ Holders(c) = {} /\ Pinners(c) = {}
    <3>1. c \in Ctxs /\ c # None
      BY <1>1, Roles DEF IInv, Types
    <3>2. Holders(c) = {} /\ Pinners(c) = {}
      BY <1>1, <3>1 DEF Holders, Pinners, IInv, HeldOK
    <3>3. ASSUME NEW a \in Actors, InHand(a) = c
          PROVE  (At(a, "link") /\ act[a].ctx = c) \/ ctx[c].refcount = 0
      <4>1. act[a].pc \in Away /\ act[a].ctx = c
        BY <3>1, <3>3 DEF InHand
      <4>2. QED BY <1>1, <3>1, <4>1 DEF IInv, AwayCounts, Away, At
    <3>4. ASSUME NEW r \in retired, r.ctx = c PROVE ctx[c].refcount = 0
      BY <1>1, <3>1, <3>4 DEF IInv, AwayCounts
    <3>5. (\E a \in Actors : InHand(a) = c) \/ (\E r \in retired : r.ctx = c)
      BY <1>1 DEF IInv, AwayOK
    <3>6. QED BY <3>2, <3>3, <3>4, <3>5
  <2>2. QED BY <1>1, <2>1 DEF RefsExact, IInv, Counts
<1>2. QED BY <1>1, Invariant, PTL

\* Two openers of one source end up with one context: at most one linked
\* context of a key is alive (ctx.c:53).
THEOREM OneSourceCorrect == Spec => []OneSource
<1>1. ASSUME IInv PROVE OneSource
  <2>1. ASSUME NEW k \in Keys PROVE Cardinality(find_existing(k)) <= 1
    <3>1. \A c, d \in find_existing(k) : c = d
      BY <1>1 DEF find_existing, IInv, OneAlive
    <3>2. CASE find_existing(k) = {}
      <4>1. Cardinality(find_existing(k)) = 0
        BY <3>2, FS_EmptySet
      <4>2. QED BY <4>1
    <3>3. CASE find_existing(k) # {}
      <4>1. PICK c : find_existing(k) = {c}
        BY <3>1, <3>3
      <4>2. Cardinality(find_existing(k)) = 1
        BY <4>1, FS_Singleton
      <4>3. QED BY <4>2
    <3>4. QED BY <3>2, <3>3
  <2>2. QED BY <2>1 DEF OneSource
<1>2. QED BY <1>1, Invariant, PTL
=============================================================================
