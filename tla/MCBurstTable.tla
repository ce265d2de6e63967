---------------------------- MODULE MCBurstTable ----------------------------
(***************************************************************************)
(* Small instances of BurstTable.                                           *)
(***************************************************************************)
EXTENDS BurstTable, TLC

CONSTANTS c1, c2, w1, w2, b1, b2, b3

\* One stripe; stripe_init stacks the slots with the lowest index on top.
MCStripes == {0}
MCSlotStripe == [i \in 0..(Cap - 1) |-> 0]
MCClientStripe == [c \in Clients |-> 0]
MCInitFree == [st \in {0} |-> [k \in 1..Cap |-> Cap - k]]

Symmetry == Permutations(Bursts) \cup Permutations(Workers) \cup Permutations(Clients)

\* Two stripes of one slot each; client c1 hashes to the first one.
MC2Stripes == {0, 1}
MC2SlotStripe == [i \in 0..1 |-> i]
MC2ClientStripe == [c \in Clients |-> IF c = c1 THEN 0 ELSE 1]
MC2InitFree == [st \in {0, 1} |-> <<st>>]
=============================================================================
