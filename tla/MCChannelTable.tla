--------------------------- MODULE MCChannelTable ---------------------------
\* Small instances of ChannelTable: hashes chosen so that probe runs overlap.
EXTENDS ChannelTable

CONSTANTS k1, k2, k3

MCKeyHash == k1 :> 0 @@ k2 :> 0 @@ k3 :> 3

\* k1 and k2 hash alike: exchanging them changes nothing.
KeySymmetry == Permutations({k1, k2})

MCSsrcHash == [s \in Ssrcs |-> IF s = 1 THEN 0 ELSE s]
=============================================================================
