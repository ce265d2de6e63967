---------------------------- MODULE MCSegTimeline ----------------------------
(* SegTimeline for TLC.                                                     *)
EXTENDS SegTimeline
=============================================================================
