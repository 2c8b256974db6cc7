--------------------------- MODULE MCClipExtractor ---------------------------
(***************************************************************************)
(* ClipExtractor for TLC: offsets before, at and after the request, far     *)
(* enough apart for clips that begin before the history does and clips      *)
(* longer than the ring.                                                    *)
(***************************************************************************)
EXTENDS ClipExtractor

OffsetsAroundNow == {-3, -1, 0, 2}
=============================================================================
