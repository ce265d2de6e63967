----------------------------- MODULE MCSegStore -----------------------------
(***************************************************************************)
(* SegStore for TLC.  The QSBR counters only grow; what a mark decides is  *)
(* which online workers have not moved since, so states are compared up to *)
(* that.                                                                   *)
(***************************************************************************)
EXTENDS SegStore, TLC

Pending(mark) == {w \in Workers : ~slot_passed(mark, w)}
NodeView(S) == {<<n.idx, n.snaps, Pending(n.mark)>> : n \in S}

View ==
    <<[w \in Workers |-> Online(w)], wk,
      [s \in Slots |-> <<slot[s].st, slot[s].key, slot[s].snap, slot[s].fed,
                         {<<e.snap, Pending(e.mark)>> : e \in slot[s].retiring}>>],
      pump, maint, NodeView(nodes),
      [t \in Sweepers |-> <<sweep[t].on, NodeView(sweep[t].chain), NodeView(sweep[t].keep)>>],
      live, leaked>>

Symmetry == Permutations(Snaps) \cup Permutations(Keys) \cup Permutations(Workers)
=============================================================================
