----------------------------- MODULE ChannelMap -----------------------------
(***************************************************************************)
(* What the channel table of dipifccret promises its callers: a multicast   *)
(* group and port (a key) keeps one channel slot from its first packet      *)
(* until it is reaped, two keys never share a slot, and a packet is turned  *)
(* away only when no slot is idle.                                          *)
(***************************************************************************)
CONSTANTS Keys, Chans, None

VARIABLES
  owner,      \* key -> the channel slot that serves it, or None
  got         \* what the last lookup returned

vars == <<owner, got>>

Init == owner = [k \in Keys |-> None] /\ got = None

Idle(o) == {c \in Chans : \A k \in Keys : o[k] # c}

\* One captured packet: some idle channels are reaped, then its key is served.
Packet(k) ==
  \E gone \in SUBSET {x \in Keys : owner[x] # None} :
    LET o == [x \in Keys |-> IF x \in gone THEN None ELSE owner[x]] IN
    /\ \/ (o[k] # None \/ Idle(o) = {}) /\ owner' = o
       \/ o[k] = None /\ \E c \in Idle(o) : owner' = [o EXCEPT ![k] = c]
    /\ got' = owner'[k]

Next == \E k \in Keys : Packet(k)

Spec == Init /\ [][Next]_vars
=============================================================================
