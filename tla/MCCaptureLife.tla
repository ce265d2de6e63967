--------------------------- MODULE MCCaptureLife ---------------------------
(***************************************************************************)
(* CaptureLife for TLC.                                                    *)
(***************************************************************************)
EXTENDS CaptureLife, TLC

Symmetry == Permutations(Requests) \cup Permutations(Builders)
            \cup Permutations(Ctxs) \cup Permutations(Snaps)
            \cup Permutations(Jobs)
=============================================================================
