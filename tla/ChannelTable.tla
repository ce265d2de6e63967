---------------------------- MODULE ChannelTable ----------------------------
(***************************************************************************)
(* The channel table of dipifccret (channel/channel.c, channel/hash.c) as   *)
(* its single writer, the capture thread, drives it: capture_cb of          *)
(* run/dispatch.c runs channel_table_reap_step, channel_lookup and          *)
(* channel_store once per packet.  Three open-addressed indexes with        *)
(* tombstones lead to a channel: by key, by SSRC and by resolve slot.       *)
(*                                                                          *)
(* A bucket holds 0 (empty), Tomb or a channel index plus one, as in the    *)
(* code.  The claim marker is left out: with one writer nobody meets it.    *)
(***************************************************************************)
EXTENDS Integers, FiniteSets, SequencesExt

CONSTANTS
  Keys,           \* (family, group, port)
  Ssrcs,          \* RTP SSRCs
  MaxChannels,
  HashSize,       \* next_pow2(2 * MaxChannels), at least 4
  KeyHash,        \* chan_key_hash: key -> hash
  SsrcHash,       \* chan_ssrc_hash: SSRC -> hash
  ReapScan,       \* CHANNEL_REAP_STEP_SLOTS
  None

Chans == 0..(MaxChannels - 1)
Buckets == 0..(HashSize - 1)
Tomb == -1

ASSUME SizeAssumption == HashSize >= 4 /\ HashSize >= 2 * MaxChannels
ASSUME HashAssumption == KeyHash \in [Keys -> Nat] /\ SsrcHash \in [Ssrcs -> Nat]

VARIABLES
  t,      \* channel_table_t with its channels
  got,    \* the channel the last channel_lookup returned
  found   \* the channel a lookup of each key finds now (history)

vars == <<t, got, found>>

Init == got = None /\ found = [k \in Keys |-> None] /\ t = [
  key |-> [c \in Chans |-> None],        \* family, addr, port; None when not in_use
  ssrc |-> [c \in Chans |-> None],       \* None: ssrc_known is 0
  stale |-> [c \in Chans |-> FALSE],     \* last_seen is older than the idle timeout
  resolveSlot |-> [c \in Chans |-> 0],
  hash |-> [h \in Buckets |-> 0], hashUsed |-> 0,
  ssrcHash |-> [h \in Buckets |-> 0], ssrcUsed |-> 0,
  resolveHash |-> [r \in Chans |-> 0],
  reapCursor |-> 0]

InUse(x, c) == x.key[c] # None

\* Linear probing from h: the first bucket in S, or None if there is none.
FirstFrom(h, S) ==
  LET at(d) == (h + d) % HashSize
      ds == {d \in Buckets : at(d) \in S} IN
  IF ds = {} THEN None ELSE at(Min(ds))

PutFrom(tab, h, c) == [tab EXCEPT ![FirstFrom(h, {b \in Buckets : tab[b] = 0})] = c + 1]

\* Mutants used to test the properties below.
OverfullLate(used) == used > HashSize
RemoveToEmpty(x, c) ==
  LET b == FirstFrom(KeyHash[x.key[c]], {h \in Buckets : x.hash[h] \in {0, c + 1}}) IN
  [x EXCEPT !.hash[b] = 0]
ResolveFreeAny(x, r) == TRUE
IdleChansShort(x) == {c \in 0..(MaxChannels - 2) : ~InUse(x, c)}

\* Both rebuilds run when more than three quarters are used.
Overfull(used) == used > (HashSize \div 4) * 3

(***************************************************************************)
(* The key index.                                                           *)
(***************************************************************************)

\* chan_hash_find_or_claim probes to a match or to an empty bucket.
FindStops(x, k) ==
  {b \in Buckets : x.hash[b] = 0 \/ (x.hash[b] > 0 /\ x.key[x.hash[b] - 1] = k)}

\* The channel found for k, or None.
Find(x, k) ==
  LET b == FirstFrom(KeyHash[k], FindStops(x, k)) IN
  IF b = None \/ x.hash[b] = 0 THEN None ELSE x.hash[b] - 1

FoundIn(x) == [k \in Keys |-> Find(x, k)]

\* The bucket to claim: the first tombstone passed on the way, else the empty one.
ClaimBucket(x, k) ==
  LET e == FirstFrom(KeyHash[k], FindStops(x, k))
      tomb == FirstFrom(KeyHash[k], {b \in Buckets : x.hash[b] \in {0, Tomb}}) IN
  IF tomb # None THEN tomb ELSE e

\* chan_hash_rebuild: drop the tombstones, reinsert what is in use.
Rebuild(x) ==
  LET live == SetToSortSeq({c \in Chans : InUse(x, c)}, <)
      add(tab, c) == PutFrom(tab, KeyHash[x.key[c]], c) IN
  [x EXCEPT !.hash = FoldLeft(add, [h \in Buckets |-> 0], live), !.hashUsed = Len(live)]

\* The probe for a resolve slot stops at an entry no live channel answers for.
ResolveFree(x, r) ==
  LET e == x.resolveHash[r] IN
  e = 0 \/ ~InUse(x, e - 1) \/ x.resolveSlot[e - 1] # r

ResolveProbe(x, k) ==
  LET at(d) == ((KeyHash[k] % MaxChannels) + d) % MaxChannels
      ds == {d \in Chans : ResolveFree(x, at(d))} IN
  IF ds = {} THEN at(0) ELSE at(Min(ds))

\* The channels channel_lookup's scan can take.
IdleChans(x) == {c \in Chans : ~InUse(x, c)}

\* channel_lookup for an unknown key: claim a bucket, take the first idle
\* channel, reset and publish it; without an idle channel the claim is undone.
Claim(x, k) ==
  LET idle == IdleChans(x)
      c == Min(idle)
      b == ClaimBucket(x, k)
      r == ResolveProbe(x, k)
      used == IF x.hash[b] = Tomb THEN x.hashUsed ELSE x.hashUsed + 1 IN
  IF idle = {} THEN x
  ELSE [x EXCEPT !.key[c] = k, !.ssrc[c] = None, !.stale[c] = FALSE,
                 !.resolveSlot[c] = r, !.resolveHash[r] = c + 1,
                 !.hash[b] = c + 1, !.hashUsed = used]

Lookup(x, k) ==
  LET y == IF Find(x, k) # None THEN x ELSE Claim(x, k) IN
  IF Overfull(y.hashUsed) THEN Rebuild(y) ELSE y

(***************************************************************************)
(* The SSRC index.                                                          *)
(***************************************************************************)

\* ssrc_hash_rebuild reinserts every channel under the SSRC it carries now.
SsrcRebuild(x) ==
  LET live == SetToSortSeq({c \in Chans : InUse(x, c) /\ x.ssrc[c] # None}, <)
      add(tab, c) == PutFrom(tab, SsrcHash[x.ssrc[c]], c) IN
  [x EXCEPT !.ssrcHash = FoldLeft(add, [h \in Buckets |-> 0], live), !.ssrcUsed = Len(live)]

\* ssrc_hash_remove: tombstone the channel's entry unless an empty bucket comes first.
SsrcRemove(x, c, s) ==
  LET b == FirstFrom(SsrcHash[s], {h \in Buckets : x.ssrcHash[h] \in {0, c + 1}}) IN
  IF b = None \/ x.ssrcHash[b] = 0 THEN x ELSE [x EXCEPT !.ssrcHash[b] = Tomb]

SsrcInsert(x, c, s) ==
  LET b == FirstFrom(SsrcHash[s], {h \in Buckets : x.ssrcHash[h] \in {0, Tomb}})
      y == [x EXCEPT !.ssrcHash[b] = c + 1,
                     !.ssrcUsed = IF x.ssrcHash[b] = 0 THEN @ + 1 ELSE @] IN
  IF x.ssrcHash[b] = 0 /\ Overfull(y.ssrcUsed) THEN SsrcRebuild(y) ELSE y

\* channel_store: index the new SSRC, and only then store it in the channel.
Store(x, c, s) ==
  LET removed == IF x.ssrc[c] # None THEN SsrcRemove(x, c, x.ssrc[c]) ELSE x
      indexed == IF x.ssrc[c] = s THEN x ELSE SsrcInsert(removed, c, s) IN
  [indexed EXCEPT !.ssrc[c] = s, !.stale[c] = FALSE]

\* channel_find_by_ssrc, undisturbed by the writer.
SsrcMatches(x, e, s) == e > 0 /\ InUse(x, e - 1) /\ x.ssrc[e - 1] = s
FindBySsrc(x, s) ==
  LET b == FirstFrom(SsrcHash[s],
                     {h \in Buckets : x.ssrcHash[h] = 0 \/ SsrcMatches(x, x.ssrcHash[h], s)}) IN
  IF b = None \/ x.ssrcHash[b] = 0 THEN None ELSE x.ssrcHash[b] - 1

(***************************************************************************)
(* Reaping.                                                                 *)
(***************************************************************************)

\* reap_slot's removal of the key: the channel's bucket becomes a tombstone.
KeyRemove(x, c) ==
  LET b == FirstFrom(KeyHash[x.key[c]], {h \in Buckets : x.hash[h] \in {0, c + 1}}) IN
  IF x.hash[b] = 0 THEN x ELSE [x EXCEPT !.hash[b] = Tomb]

Reap(x, c) ==
  LET y == KeyRemove(x, c)
      z == IF x.ssrc[c] # None THEN SsrcRemove(y, c, x.ssrc[c]) ELSE y
      r == x.resolveSlot[c] IN
  [z EXCEPT !.key[c] = None, !.ssrc[c] = None, !.stale[c] = FALSE,
            !.resolveHash[r] = IF @ = c + 1 THEN 0 ELSE @]

NextCursor(c) == (c + 1) % MaxChannels

\* channel_table_reap_step: a bounded slice of the table per packet.
ReapOne(x, c) ==
  LET y == IF InUse(x, c) /\ x.stale[c] THEN Reap(x, c) ELSE x IN
  [y EXCEPT !.reapCursor = NextCursor(c)]

ReapStep(x) ==
  LET n == IF ReapScan < MaxChannels THEN ReapScan ELSE MaxChannels
      one(y, i) == ReapOne(y, y.reapCursor) IN
  FoldLeft(one, x, [i \in 1..n |-> i])

(***************************************************************************)
(* Actions.                                                                 *)
(***************************************************************************)

\* capture_cb: one packet of a group, with the SSRC its sender uses.
Packet(k, s) ==
  LET y == Lookup(ReapStep(t), k)
      c == Find(y, k) IN
  /\ t' = IF c = None THEN y ELSE Store(y, c, s)
  /\ got' = c /\ found' = FoundIn(t')

\* An oversized payload: channel_store returns before it touches anything.
PacketOversized(k) ==
  /\ t' = Lookup(ReapStep(t), k)
  /\ got' = Find(t', k) /\ found' = FoundIn(t')

\* Time passes the idle timeout of a channel.
Age(c) ==
  /\ InUse(t, c) /\ ~t.stale[c]
  /\ t' = [t EXCEPT !.stale[c] = TRUE]
  /\ UNCHANGED <<got, found>>

Next == \/ \E k \in Keys, s \in Ssrcs : Packet(k, s)
        \/ \E k \in Keys : PacketOversized(k)
        \/ \E c \in Chans : Age(c)

Spec == Init /\ [][Next]_vars

-----------------------------------------------------------------------------
Bucket == {0, Tomb} \cup {c + 1 : c \in Chans}

\* The table and its three indexes have their types.
TypeOK ==
  /\ t.key \in [Chans -> Keys \cup {None}] /\ t.ssrc \in [Chans -> Ssrcs \cup {None}]
  /\ t.stale \in [Chans -> BOOLEAN] /\ t.resolveSlot \in [Chans -> Chans]
  /\ t.hash \in [Buckets -> Bucket] /\ t.ssrcHash \in [Buckets -> Bucket]
  /\ t.hashUsed \in 0..HashSize /\ t.ssrcUsed \in 0..HashSize
  /\ t.resolveHash \in [Chans -> 0..MaxChannels] /\ t.reapCursor \in Chans
  /\ got \in Chans \cup {None} /\ found \in [Keys -> Chans \cup {None}]

Occupied(tab) == Cardinality({b \in Buckets : tab[b] # 0})

\* Both probe loops have no bound of their own: an empty bucket is always left
\* in the key index and in the SSRC index, and the counters that trigger the
\* rebuilds count the occupied buckets exactly.
ProbesEnd ==
  /\ t.hashUsed = Occupied(t.hash) /\ t.hashUsed < HashSize
  /\ t.ssrcUsed = Occupied(t.ssrcHash) /\ t.ssrcUsed < HashSize

\* "an in-use channel always has a hash entry": exactly one, reached by
\* probing for its key across tombstones, reuse and rebuilds.
KeyIndexExact ==
  /\ \A c \in Chans : InUse(t, c) => found[t.key[c]] = c
  /\ \A c \in Chans : Cardinality({b \in Buckets : t.hash[b] = c + 1}) = IF InUse(t, c) THEN 1 ELSE 0

\* channel_lookup_by_resolve_slot: a channel answers on its own resolve slot.
ResolveExact == \A c \in Chans : InUse(t, c) => t.resolveHash[t.resolveSlot[c]] = c + 1

\* channel.h of channel_store: "also maintains t's ssrc->channel index
\* (channel_find_by_ssrc)": an SSRC some channel carries is found.
SsrcFound ==
  \A c \in Chans : InUse(t, c) /\ t.ssrc[c] # None => FindBySsrc(t, t.ssrc[c]) # None

\* The table implements ChannelMap: what probing finds is the key's owner.
Map == INSTANCE ChannelMap WITH owner <- found
ImplementsMap == Map!Spec
=============================================================================
