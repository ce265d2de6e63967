---------------------------- MODULE CaptureLife ----------------------------
(***************************************************************************)
(* The life of a capture context of dipixy (src/src/dipixy/ts/capture/):   *)
(* reference counts, the list g_open, the snapshots of that list that pump *)
(* threads walk without a lock, open jobs run by the lifecycle threads and *)
(* the retirement of contexts and snapshots once every pump has been       *)
(* through a quiescent state.                                              *)
(*                                                                         *)
(* Actors: requests of reactor workers, builders of the channel list,      *)
(* lifecycle threads and pumps.  A step is what a thread does between two  *)
(* points where another one can see or change the same state: refcounts    *)
(* are atomics, so a section under g_lock still takes several steps.       *)
(* Starting and stopping are outside this module.                          *)
(***************************************************************************)
EXTENDS Integers, Sequences, FiniteSets, SequencesExt

CONSTANTS
    Requests,       \* users of captures on reactor workers
    Builders,       \* builders of a channel list, which open without a job
    Life,           \* lifecycle threads
    g_n_pump_threads,
    None,           \* a NULL pointer
    Ctxs, Snaps,    \* blocks the allocator can hand out
    Keys,           \* sources that can be opened
    MortalKeys,     \* the ones with a CAP_BACKEND_TSSRC backend, which can die
    Jobs,           \* open jobs in flight; LIFE_JOBS_MAX of them
    SNAPSHOT_SLACK,
    MaxOom          \* bound: allocations that fail

ASSUME CaptureAssumption ==
    /\ MortalKeys \subseteq Keys
    /\ SNAPSHOT_SLACK \in Nat /\ MaxOom \in Nat
    /\ None \notin Requests \cup Builders \cup Life \cup Ctxs \cup Snaps \cup Jobs \cup Keys
    /\ IsFiniteSet(Ctxs) /\ IsFiniteSet(Snaps) /\ g_n_pump_threads \in Nat \ {0}

Pumps == 0..(g_n_pump_threads - 1)  \* the QSBR domain

\* every actor has one role, and there are finitely many of them
ASSUME ActorAssumption ==
    /\ IsFiniteSet(Requests) /\ IsFiniteSet(Builders) /\ IsFiniteSet(Life) /\ IsFiniteSet(Jobs)
    /\ Requests \cap Builders = {} /\ (Requests \cup Builders) \cap Life = {}
    /\ (Requests \cup Builders \cup Life) \cap Pumps = {}
    /\ Jobs \cap (Requests \cup Builders \cup Life \cup Pumps) = {}
    /\ None \notin Pumps

Users == Requests \cup Builders
Actors == Users \cup Life \cup Pumps

VARIABLES
    ctx,        \* the contexts: key, refcount, dead, owning pump
    alloc,      \* contexts allocated and not freed
    g_open,     \* contexts linked into the list
    leak,       \* references given up because no snapshot could be allocated
    entries,    \* contents of the snapshots allocated and not freed
    g_snapshot, \* the published one
    g_retired,  \* superseded ones nobody has queued yet
    retired,    \* the list g_retired_head: a context and snapshots with a mark
    job, queue, \* open jobs, and the ones no thread has taken, in order
    act,        \* per actor: place in its code and what it refers to
    walk,       \* per pump: snapshot, its entries still to pin, contexts pinned
    g_lock,     \* its holder
    g_shard_ctr, \* modulo the number of pumps
    oom

vars == <<ctx, alloc, g_open, leak, entries, g_snapshot, g_retired, retired,
          job, queue, act, walk, g_lock, g_shard_ctr, oom>>

ctxVars == <<ctx, alloc, g_open, leak, g_shard_ctr>>
snapVars == <<entries, g_snapshot, g_retired>>
jobVars == <<job, queue>>

SnapsLive == DOMAIN entries
Ptr(p) == {p} \ {None}

\* where an actor that has nothing in hand goes on: a request is over, a
\* lifecycle thread reaps, a pump releases its next pin
Rest(a) == [pc |-> IF a \in Users THEN "idle" ELSE IF a \in Life THEN "reap" ELSE "release",
            ctx |-> None, key |-> None, job |-> None, cap |-> 0, snaps |-> {}, mark |-> {}]

NoWalk == [snap |-> None, todo |-> {}, pinned |-> {}]
FreeJob == [st |-> "free", key |-> None, cancelled |-> FALSE, result |-> None]
FreeCtx == [key |-> None, refcount |-> 0, dead |-> FALSE, pump_shard |-> None]

Init ==
    /\ ctx = [c \in Ctxs |-> FreeCtx]
    /\ alloc = {} /\ g_open = {} /\ leak = [c \in Ctxs |-> 0]
    /\ entries = [s \in {} |-> {}] /\ g_snapshot = None /\ g_retired = {} /\ retired = {}
    /\ job = [j \in Jobs |-> FreeJob] /\ queue = <<>>
    /\ act = [a \in Actors |-> IF a \in Users THEN Rest(a) ELSE [Rest(a) EXCEPT !.pc = "loop"]]
    /\ walk = [p \in Pumps |-> NoWalk]
    /\ g_lock = None /\ oom = 0
    /\ g_shard_ctr = 0

At(a, pc) == act[a].pc = pc
Unlocked == g_lock = None
\* g_life_lock is held across the two steps of retired_push_locked
LifeUnlocked == \A a \in Actors : ~At(a, "mark")
Oom == oom < MaxOom /\ oom' = oom + 1

-----------------------------------------------------------------------------
(* QSBR over the pumps.  A mark is the set of pumps that have not been     *)
(* quiescent since it was taken.                                           *)

capture_pump_mark == Pumps
capture_pump_mark_passed(mark) == mark = {}

-----------------------------------------------------------------------------
(* Lookup, by the identity of the source; a dead ts source is not found.   *)

find_existing(k) == {c \in g_open : ctx[c].key = k /\ ~ctx[c].dead}

Ref(c) == ctx' = [ctx EXCEPT ![c].refcount = @ + 1]

\* a pass through the retry loops of link_ctx and unref_unlink_ctx allocates
\* a snapshot outside the lock; the bound on Snaps keeps one for each of them
SnapRoom == Cardinality(Snaps \ SnapsLive) > Cardinality({a \in Actors : act[a].cap > 0})

\* publish_snapshot under g_lock, for the list open
publish_snapshot(open) ==
    \E s \in Snaps \ SnapsLive :
      /\ entries' = [t \in SnapsLive \cup {s} |-> IF t = s THEN open ELSE entries[t]]
      /\ g_snapshot' = s
      /\ g_retired' = g_retired \cup Ptr(g_snapshot)

FreeSnaps(S) == entries' = [t \in SnapsLive \ S |-> entries[t]]

free_ctx_resources(c) == /\ alloc' = alloc \ {c}
                         /\ ctx' = [ctx EXCEPT ![c] = FreeCtx]

-----------------------------------------------------------------------------
(* Opening, by a lifecycle thread for a job or directly by the builder of  *)
(* the channel list.                                                       *)

Opened(a, c) == act' = [act EXCEPT ![a] =
    IF a \in Life THEN [@ EXCEPT !.pc = "done", !.ctx = c, !.cap = 0]
    ELSE IF c = None THEN Rest(a)
    ELSE [Rest(a) EXCEPT !.pc = "hold", !.ctx = c]]

\* for k: the builder when it likes, a lifecycle thread for its job
capture_open(a, k) ==
    /\ Unlocked
    /\ (At(a, "open") /\ k = act[a].key) \/ (a \in Builders /\ At(a, "idle"))
    /\ LET found == find_existing(k)
       IN IF found = {}
          THEN act' = [act EXCEPT ![a].pc = "build", ![a].key = k] /\ UNCHANGED ctx
          ELSE \E c \in found : Ref(c) /\ Opened(a, c)
    /\ UNCHANGED <<alloc, g_open, leak, g_shard_ctr, snapVars, retired, jobVars, walk, g_lock, oom>>

\* the join or connect, unlocked; it may fail after next_pump_shard
OpenSource(a) ==
    /\ At(a, "build")
    /\ g_shard_ctr' = (g_shard_ctr + 1) % g_n_pump_threads
    /\ \/ Opened(a, None) /\ UNCHANGED <<ctx, alloc>>
       \/ \E c \in Ctxs \ alloc :
            /\ alloc' = alloc \cup {c}
            /\ ctx' = [ctx EXCEPT ![c] = [key |-> act[a].key, refcount |-> 1,
                                          dead |-> FALSE, pump_shard |-> g_shard_ctr]]
            /\ act' = [act EXCEPT ![a].pc = "link", ![a].ctx = c]
    /\ UNCHANGED <<g_open, leak, snapVars, retired, jobVars, walk, g_lock, oom>>

link_ctx_nodup(a) ==
    /\ At(a, "link") /\ Unlocked
    /\ LET c == act[a].ctx
           need == Cardinality(g_open) + 1
       IN IF act[a].cap >= need
          THEN /\ g_open' = g_open \cup {c} /\ publish_snapshot(g_open')
               /\ Opened(a, c) /\ UNCHANGED <<ctx, alloc, oom>>
          ELSE /\ SnapRoom /\ act' = [act EXCEPT ![a].cap = need + SNAPSHOT_SLACK]
               /\ UNCHANGED <<ctx, alloc, g_open, snapVars, oom>>
    /\ UNCHANGED <<leak, g_shard_ctr, retired, jobVars, walk, g_lock>>

\* one pass of the loop; without memory for a snapshot the context is freed
link_ctx(a) ==
    /\ At(a, "link") /\ Unlocked
    /\ LET c == act[a].ctx
           dups == find_existing(ctx[c].key)
           need == Cardinality(g_open) + 1
       IN CASE dups # {} ->
                 /\ \E d \in dups :
                      /\ ctx' = [ctx EXCEPT ![d].refcount = @ + 1, ![c] = FreeCtx]
                      /\ Opened(a, d)
                 /\ alloc' = alloc \ {c} /\ UNCHANGED <<g_open, snapVars, oom>>
            [] dups = {} /\ act[a].cap >= need ->
                 /\ g_open' = g_open \cup {c} /\ publish_snapshot(g_open')
                 /\ Opened(a, c) /\ UNCHANGED <<ctx, alloc, oom>>
            [] OTHER ->
                 \/ /\ SnapRoom /\ act' = [act EXCEPT ![a].cap = need + SNAPSHOT_SLACK]
                    /\ UNCHANGED <<ctx, alloc, g_open, snapVars, oom>>
                 \/ /\ Oom /\ free_ctx_resources(c) /\ Opened(a, None)
                    /\ UNCHANGED <<g_open, snapVars>>
    /\ UNCHANGED <<leak, g_shard_ctr, retired, jobVars, walk, g_lock>>

-----------------------------------------------------------------------------
(* Dropping a reference.                                                   *)

Return(a) == act' = [act EXCEPT ![a] = Rest(a)]

Dec(c) == ctx' = [ctx EXCEPT ![c].refcount = @ - 1]

\* the start of unref_unlink_ctx: a compare-and-swap loop that never takes
\* the count below 1
UnrefFast(a, c) ==
    IF ctx[c].refcount > 1
    THEN Dec(c) /\ Return(a)
    ELSE act' = [act EXCEPT ![a] = [Rest(a) EXCEPT !.pc = "slow", !.ctx = c]] /\ UNCHANGED ctx

\* one pass of the loop up to its decision; without memory the reference stays
UnrefCheck(a) ==
    /\ At(a, "slow") /\ Unlocked
    /\ LET need == Cardinality(g_open)
       IN CASE ctx[act[a].ctx].refcount > 1 ->
                 /\ act' = [act EXCEPT ![a].pc = "sub"] /\ g_lock' = a
                 /\ UNCHANGED <<leak, oom>>
            [] ctx[act[a].ctx].refcount <= 1 /\ act[a].cap >= need ->
                 /\ act' = [act EXCEPT ![a].pc = "last"] /\ g_lock' = a
                 /\ UNCHANGED <<leak, oom>>
            [] OTHER ->
                 \/ /\ SnapRoom /\ act' = [act EXCEPT ![a].cap = need + SNAPSHOT_SLACK]
                    /\ UNCHANGED <<g_lock, leak, oom>>
                 \/ /\ Oom /\ Return(a) /\ leak' = [leak EXCEPT ![act[a].ctx] = @ + 1]
                    /\ UNCHANGED g_lock
    /\ UNCHANGED <<ctx, alloc, g_open, g_shard_ctr, snapVars, retired, jobVars, walk>>

\* the count was seen above 1 under g_lock: decrement, whatever it is by now
UnrefSub(a) ==
    /\ At(a, "sub")
    /\ Dec(act[a].ctx) /\ Return(a) /\ g_lock' = None
    /\ UNCHANGED <<alloc, g_open, leak, g_shard_ctr, snapVars, retired, jobVars, walk, oom>>

UnrefLast_nopublish(a) ==
    /\ At(a, "last") /\ Dec(act[a].ctx) /\ g_lock' = None
    /\ IF ctx[act[a].ctx].refcount # 1
       THEN Return(a) /\ UNCHANGED g_open
       ELSE /\ g_open' = g_open \ {act[a].ctx}
            /\ act' = [act EXCEPT ![a].pc = "retire", ![a].cap = 0]
    /\ UNCHANGED <<alloc, leak, g_shard_ctr, snapVars, retired, jobVars, walk, oom>>

\* the last reference, unless a pump pinned the context meanwhile
UnrefLast(a) ==
    /\ At(a, "last") /\ Dec(act[a].ctx) /\ g_lock' = None
    /\ IF ctx[act[a].ctx].refcount # 1
       THEN Return(a) /\ UNCHANGED <<g_open, snapVars>>
       ELSE /\ g_open' = g_open \ {act[a].ctx} /\ publish_snapshot(g_open')
            /\ act' = [act EXCEPT ![a].pc = "retire", ![a].cap = 0]
    /\ UNCHANGED <<alloc, leak, g_shard_ctr, retired, jobVars, walk, oom>>

\* retire_ctx: the entry takes the superseded snapshots along.  Without
\* memory for it a pump frees at once, the others wait for the pumps.
retire_ctx(a) ==
    /\ At(a, "retire")
    /\ \/ /\ LifeUnlocked /\ Unlocked
          /\ act' = [act EXCEPT ![a].pc = "mark", ![a].snaps = g_retired]
          /\ g_retired' = {} /\ UNCHANGED oom
       \/ /\ Oom /\ UNCHANGED g_retired
          /\ act' = [act EXCEPT ![a].pc = IF a \in Pumps THEN "free" ELSE "wait",
                                ![a].mark = IF a \in Pumps THEN {} ELSE capture_pump_mark]
    /\ UNCHANGED <<ctxVars, entries, g_snapshot, retired, jobVars, walk, g_lock>>

\* the rest of retired_push_locked, for retire_ctx and retire_snapshots
RetiredPush(a) ==
    /\ At(a, "mark")
    /\ retired' = retired \cup {[ctx |-> act[a].ctx, snaps |-> act[a].snaps,
                                 mark |-> capture_pump_mark]}
    /\ act' = [act EXCEPT ![a] = IF @.ctx = None THEN [Rest(a) EXCEPT !.pc = "loop"] ELSE Rest(a)]
    /\ UNCHANGED <<ctxVars, snapVars, jobVars, walk, g_lock, oom>>

\* the pumps have passed: reclaim_retired_snapshots takes what there is
reclaim_retired_snapshots(a) ==
    /\ At(a, "wait") /\ capture_pump_mark_passed(act[a].mark) /\ Unlocked
    /\ act' = [act EXCEPT ![a].pc = "free", ![a].snaps = g_retired,
                          ![a].mark = IF g_retired = {} THEN {} ELSE capture_pump_mark]
    /\ g_retired' = {}
    /\ UNCHANGED <<ctxVars, entries, g_snapshot, retired, jobVars, walk, g_lock, oom>>

\* the end of capture_close, lifecycle_close or pump_release_pin
FreeInline(a) ==
    /\ At(a, "free") /\ capture_pump_mark_passed(act[a].mark)
    /\ free_ctx_resources(act[a].ctx) /\ FreeSnaps(act[a].snaps) /\ Return(a)
    /\ UNCHANGED <<g_open, leak, g_shard_ctr, g_snapshot, g_retired, retired, jobVars, walk, g_lock, oom>>

-----------------------------------------------------------------------------
(* Users.                                                                  *)

capture_try_ref(u, k) ==
    /\ At(u, "idle") /\ Unlocked
    /\ \E c \in find_existing(k) : Ref(c) /\ Opened(u, c)
    /\ UNCHANGED <<alloc, g_open, leak, g_shard_ctr, snapVars, retired, jobVars, walk, g_lock, oom>>

\* after a capture_try_ref that found nothing
job_submit(u, k) ==
    /\ At(u, "idle") /\ LifeUnlocked
    /\ \E j \in Jobs :
         /\ job[j].st = "free"
         /\ job' = [job EXCEPT ![j] = [FreeJob EXCEPT !.st = "queued", !.key = k]]
         /\ queue' = Append(queue, j)
         /\ act' = [act EXCEPT ![u].pc = "await", ![u].job = j]
    /\ UNCHANGED <<ctxVars, snapVars, retired, walk, g_lock, oom>>

capture_open_job_take(u) ==
    /\ At(u, "await") /\ job[act[u].job].st = "finished"
    /\ Opened(u, job[act[u].job].result)
    /\ job' = [job EXCEPT ![act[u].job] = FreeJob]
    /\ UNCHANGED <<ctxVars, snapVars, retired, queue, walk, g_lock, oom>>

\* the request goes away before the job is done: the job is left to the
\* thread that runs it.  A finished one is taken and its context closed.
capture_open_job_cancel(u) ==
    /\ At(u, "await") /\ LifeUnlocked
    /\ job[act[u].job].st # "finished"
    /\ job' = [job EXCEPT ![act[u].job].cancelled = TRUE]
    /\ Return(u)
    /\ UNCHANGED <<ctxVars, snapVars, retired, queue, walk, g_lock, oom>>

\* capture_close, and lifecycle_close for a job that was cancelled
capture_close(a) ==
    /\ At(a, "hold")
    /\ UnrefFast(a, act[a].ctx)
    /\ UNCHANGED <<alloc, g_open, leak, g_shard_ctr, snapVars, retired, jobVars, walk, g_lock, oom>>

-----------------------------------------------------------------------------
(* A lifecycle thread: a job if there is one, then reap, then queue the    *)
(* superseded snapshots.                                                   *)

\* keys being opened: g_running_key is reset when the job is done
Running == {act[t].key : t \in Life} \ {None}

\* find_job_locked: the first whose key nobody is opening
Runnable == {i \in 1..Len(queue) : job[queue[i]].key \notin Running}

TakeJob(t) ==
    /\ At(t, "loop") /\ LifeUnlocked
    /\ \E i \in Runnable :
         LET j == queue[i]
         IN /\ \A n \in Runnable : i <= n
            /\ queue' = RemoveAt(queue, i)
            /\ job' = [job EXCEPT ![j].st = "running"]
            /\ act' = [act EXCEPT ![t].pc = IF job[j].cancelled THEN "done" ELSE "open",
                                  ![t].key = job[j].key, ![t].job = j]
    /\ UNCHANGED <<ctxVars, snapVars, retired, walk, g_lock, oom>>

\* the end of open_job_run: a cancelled job's context is closed again
JobDone(t) ==
    /\ At(t, "done") /\ LifeUnlocked
    /\ LET j == act[t].job
           c == act[t].ctx
       IN IF job[j].cancelled
          THEN /\ job' = [job EXCEPT ![j] = FreeJob]
               /\ act' = [act EXCEPT ![t] =
                    IF c = None THEN Rest(t) ELSE [Rest(t) EXCEPT !.pc = "hold", !.ctx = c]]
          ELSE /\ job' = [job EXCEPT ![j].st = "finished", ![j].result = c]
               /\ Return(t)
    /\ UNCHANGED <<ctxVars, snapVars, retired, queue, walk, g_lock, oom>>

\* every entry whose mark has passed, its context and its snapshots
reap_retired(t) ==
    /\ LifeUnlocked
    /\ At(t, "reap") \/ (At(t, "loop") /\ Runnable = {})
    /\ LET over == {r \in retired : capture_pump_mark_passed(r.mark)}
           gone == {r.ctx : r \in over}
       IN /\ retired' = retired \ over
          /\ alloc' = alloc \ gone
          /\ ctx' = [c \in Ctxs |-> IF c \in gone THEN FreeCtx ELSE ctx[c]]
          /\ FreeSnaps(UNION {r.snaps : r \in over})
    /\ act' = [act EXCEPT ![t].pc = IF g_retired = {} THEN "loop" ELSE "snaps"]
    /\ UNCHANGED <<g_open, leak, g_shard_ctr, g_snapshot, g_retired, jobVars, walk, g_lock, oom>>

\* only thread 0 does this; a failed allocation leaves them for later
retire_snapshots(t) ==
    /\ At(t, "snaps") /\ Unlocked
    /\ \/ /\ LifeUnlocked /\ g_retired # {}
          /\ act' = [act EXCEPT ![t].pc = "mark", ![t].snaps = g_retired]
          /\ g_retired' = {} /\ UNCHANGED oom
       \/ /\ g_retired = {} \/ t # CHOOSE l \in Life : TRUE
          /\ act' = [act EXCEPT ![t].pc = "loop"] /\ UNCHANGED <<g_retired, oom>>
       \/ /\ g_retired # {} /\ Oom
          /\ act' = [act EXCEPT ![t].pc = "loop"] /\ UNCHANGED g_retired
    /\ UNCHANGED <<ctxVars, entries, g_snapshot, retired, jobVars, walk, g_lock>>

-----------------------------------------------------------------------------
(* A pump (capture_pump_tick).                                             *)

PumpLoad(p) ==
    /\ At(p, "loop")
    /\ walk' = [walk EXCEPT ![p].snap = g_snapshot, ![p].todo =
         IF g_snapshot = None THEN {}
         ELSE {c \in entries[g_snapshot] : ctx[c].pump_shard = p}]
    /\ act' = [act EXCEPT ![p].pc = "pin"]
    /\ UNCHANGED <<ctxVars, snapVars, retired, jobVars, g_lock, oom>>

try_pin_blind(p) ==
    /\ At(p, "pin")
    /\ \E c \in walk[p].todo :
         Ref(c) /\ walk' = [walk EXCEPT ![p].todo = @ \ {c}, ![p].pinned = @ \cup {c}]
    /\ UNCHANGED <<alloc, g_open, leak, g_shard_ctr, snapVars, retired, jobVars, act, g_lock, oom>>

\* a context whose count has dropped to 0 is left alone
try_pin(p) ==
    /\ At(p, "pin")
    /\ \E c \in walk[p].todo :
         IF ctx[c].refcount > 0
         THEN Ref(c) /\ walk' = [walk EXCEPT ![p].todo = @ \ {c}, ![p].pinned = @ \cup {c}]
         ELSE walk' = [walk EXCEPT ![p].todo = @ \ {c}] /\ UNCHANGED ctx
    /\ UNCHANGED <<alloc, g_open, leak, g_shard_ctr, snapVars, retired, jobVars, act, g_lock, oom>>

\* the drain of what is pinned; a ts source whose read fails is dead
PumpDrain(p) ==
    /\ At(p, "pin") /\ walk[p].todo = {}
    /\ \E D \in SUBSET {c \in walk[p].pinned : ctx[c].key \in MortalKeys} :
         ctx' = [c \in Ctxs |-> [ctx[c] EXCEPT !.dead = @ \/ c \in D]]
    /\ act' = [act EXCEPT ![p].pc = "release"]
    /\ walk' = [walk EXCEPT ![p].snap = None]
    /\ UNCHANGED <<alloc, g_open, leak, g_shard_ctr, snapVars, retired, jobVars, g_lock, oom>>

pump_release_pin(p) ==
    /\ At(p, "release")
    /\ \E c \in walk[p].pinned :
         walk' = [walk EXCEPT ![p].pinned = @ \ {c}] /\ UnrefFast(p, c)
    /\ UNCHANGED <<alloc, g_open, leak, g_shard_ctr, snapVars, retired, jobVars, g_lock, oom>>

qsbr_worker_quiescent(p) ==
    /\ At(p, "release") /\ walk[p].pinned = {}
    /\ retired' = {[r EXCEPT !.mark = @ \ {p}] : r \in retired}
    /\ act' = [a \in Actors |-> IF a = p THEN [Rest(p) EXCEPT !.pc = "loop"]
                                ELSE [act[a] EXCEPT !.mark = @ \ {p}]]
    /\ UNCHANGED <<ctxVars, snapVars, jobVars, walk, g_lock, oom>>

-----------------------------------------------------------------------------
Close(a) == \/ UnrefCheck(a) \/ UnrefSub(a) \/ UnrefLast(a)
            \/ retire_ctx(a) \/ RetiredPush(a)
            \/ reclaim_retired_snapshots(a) \/ FreeInline(a)

Open(a) == (\E k \in Keys : capture_open(a, k)) \/ OpenSource(a) \/ link_ctx(a)

Request(u) == \/ \E k \in Keys : capture_try_ref(u, k) \/ job_submit(u, k)
              \/ capture_open_job_take(u) \/ capture_open_job_cancel(u)

lifecycle_thread(t) == TakeJob(t) \/ JobDone(t) \/ reap_retired(t) \/ retire_snapshots(t)

capture_pump_tick(p) == \/ PumpLoad(p) \/ try_pin(p) \/ PumpDrain(p)
                        \/ pump_release_pin(p) \/ qsbr_worker_quiescent(p)

Next == \/ \E u \in Requests : Request(u) \/ capture_close(u) \/ Close(u)
        \/ \E u \in Builders : Open(u) \/ capture_close(u) \/ Close(u)
        \/ \E t \in Life : lifecycle_thread(t) \/ Open(t) \/ capture_close(t) \/ Close(t)
        \/ \E p \in Pumps : capture_pump_tick(p) \/ Close(p)

Spec == Init /\ [][Next]_vars

-----------------------------------------------------------------------------
(* Properties.                                                             *)

Holding == {"hold", "done", "slow", "sub", "last"}
Leaving == {"retire", "mark", "wait", "free"}

Holders(c) ==
    {a \in Actors : act[a].ctx = c /\ act[a].pc \in Holding}
    \cup {j \in Jobs : job[j].result = c}
Pinners(c) == {p \in Pumps : c \in walk[p].pinned}

\* Nothing is used after it is freed: the snapshot a pump is pinning from
\* and the contexts it still has to look at are allocated, and so is every
\* context a request, a job, a pin or the published snapshot refers to
\* (pump.c:251, ctx.c:76, lifecycle.c:88).
NoUseAfterFree ==
    /\ \A p \in Pumps : walk[p].todo # {} =>
         walk[p].snap \in SnapsLive /\ walk[p].todo \subseteq alloc
    /\ \A c \in Ctxs : Holders(c) # {} \/ Pinners(c) # {} => c \in alloc
    /\ g_snapshot # None => g_snapshot \in SnapsLive /\ entries[g_snapshot] \subseteq alloc

\* The count of a linked context is the number of references to it: requests,
\* job results, pins, and references that could not be dropped.  An unlinked
\* one that waits to be freed has none (ctx.c:76, pump.c:41, lifecycle.c:214).
RefsExact ==
    /\ \A c \in g_open :
         ctx[c].refcount = Cardinality(Holders(c)) + Cardinality(Pinners(c)) + leak[c]
    /\ \A c \in alloc \ g_open :
         \/ \E a \in Actors : At(a, "link") /\ act[a].ctx = c
         \/ ctx[c].refcount = 0 /\ Holders(c) = {} /\ Pinners(c) = {}

\* Two openers of one source end up with one context: at most one of the
\* linked contexts of a key is alive (ctx.c:53).
OneSource == \A k \in Keys : Cardinality(find_existing(k)) <= 1

\* Every block is accounted for: a context is being opened, linked, or on
\* its way to be freed; a snapshot is published, superseded or queued.
NothingLost ==
    /\ alloc = g_open \cup ({act[a].ctx : a \in {b \in Actors : act[b].pc \in Leaving \cup {"link"}}} \ {None})
                      \cup ({r.ctx : r \in retired} \ {None})
    /\ SnapsLive = Ptr(g_snapshot) \cup g_retired \cup UNION {r.snaps : r \in retired}
                   \cup UNION {act[a].snaps : a \in Actors}

\* A count drops to 0 only together with the unlinking, so that a lookup can
\* never find a context without references (ctx.c:74).
ZeroIsUnlinked == \A c \in g_open : ctx[c].refcount > 0
=============================================================================
