---------------------------- MODULE MCSampleRing ----------------------------
(***************************************************************************)
(* SampleRing for TLC.  A ring of four frames and writes of up to three     *)
(* make a write straddle the end of the buffer and lap a reader; thirteen   *)
(* frames are three laps and a frame, and wrap the word of eight.           *)
(***************************************************************************)
EXTENDS SampleRing, TLC

Symmetry == Permutations(Readers)
=============================================================================
